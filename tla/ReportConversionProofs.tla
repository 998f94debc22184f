------------------------- MODULE ReportConversionProofs -------------------------
(***************************************************************************)
(* Theorems about the conversion of a report, for every set of dumps.      *)
(***************************************************************************)
EXTENDS ReportConversion, FiniteSetTheorems, WellFoundedInduction, TLAPS

-----------------------------------------------------------------------------
(* A set of numbers has a least one, and the number before is not in it.   *)
LEMMA LeastNumber ==
  ASSUME NEW S \in SUBSET Nat, S # {}
  PROVE  \E m \in S : /\ \A n \in S : m <= n
                      /\ m > 0 => m - 1 \in Nat \ S
<1>1. PICK m \in S : \A n \in S : <<n, m>> \notin OpToRel(<, Nat)
  BY NatLessThanWellFounded, WFMin
<1>2. \A n \in S : ~(n < m)
  BY <1>1 DEF OpToRel
<1>3. QED BY <1>2

LEMMA SeqParts ==
  ASSUME NEW T, NEW s \in Seq(T)
  PROVE  /\ Len(s) \in Nat /\ DOMAIN s = 1..Len(s)
         /\ \A i \in 1..Len(s) : s[i] \in T
  OBVIOUS

-----------------------------------------------------------------------------
(* The recursive definitions over a chain have a solution.                 *)
LEMMA KindsExist ==
  ASSUME NEW chain, NEW n \in Nat
  PROVE  \E kind : kind = [i \in 1..n |-> IF i = 1 THEN chain[1].x.kind
                                          ELSE Crystal(kind[i - 1], chain[i].sym, chain[i].x.kind)]
<1> DEFINE Solves(kind, k) ==
             kind = [i \in 1..k |-> IF i = 1 THEN chain[1].x.kind
                                    ELSE Crystal(kind[i - 1], chain[i].sym, chain[i].x.kind)]
           Unsolved == {k \in Nat : ~\E kind : Solves(kind, k)}
<1>1. ASSUME Unsolved # {} PROVE FALSE
  <2>1. PICK m \in Unsolved : m > 0 => m - 1 \in Nat \ Unsolved
    <3> HIDE DEF Unsolved
    <3>1. Unsolved \in SUBSET Nat
      BY DEF Unsolved
    <3>2. QED BY <1>1, <3>1, LeastNumber
  <2>2. CASE m = 0
    <3>1. Solves(<<>>, 0)
      OBVIOUS
    <3>2. QED BY <2>2, <3>1
  <2>3. CASE m > 0
    <3>1. m - 1 \in Nat /\ ~(m - 1 \in Unsolved)
      <4> HIDE DEF Unsolved
      <4>1. QED BY <2>1, <2>3
    <3>2. PICK before : Solves(before, m - 1)
      BY <3>1
    <3> DEFINE kind == [i \in 1..m |-> IF i < m THEN before[i] ELSE IF i = 1 THEN chain[1].x.kind
                                       ELSE Crystal(before[i - 1], chain[i].sym, chain[i].x.kind)]
    <3>3. \A i \in 1..m : kind[i] = IF i = 1 THEN chain[1].x.kind
                                    ELSE Crystal(kind[i - 1], chain[i].sym, chain[i].x.kind)
      BY <2>3, <3>2
    <3>4. Solves(kind, m)
      BY <3>3
    <3>5. QED BY <3>4
  <2>4. QED BY <2>2, <2>3
<1>2. QED BY <1>1

LEMMA KindOfPrefix ==
  ASSUME NEW chain, Len(chain) \in Nat, NEW n \in 1..Len(chain)
  PROVE  CrystalKind(chain, n) = IF n = 1 THEN chain[1].x.kind
                                 ELSE Crystal(CrystalKind(chain, n - 1), chain[n].sym, chain[n].x.kind)
<1> DEFINE kind == CHOOSE g : g = [i \in 1..Len(chain) |-> IF i = 1 THEN chain[1].x.kind
                                          ELSE Crystal(g[i - 1], chain[i].sym, chain[i].x.kind)]
<1>1. kind = [i \in 1..Len(chain) |-> IF i = 1 THEN chain[1].x.kind
                                      ELSE Crystal(kind[i - 1], chain[i].sym, chain[i].x.kind)]
  BY KindsExist
<1>2. \A i : CrystalKind(chain, i) = kind[i]
  BY DEF CrystalKind
<1> HIDE DEF kind
<1>3. QED BY <1>1, <1>2

(* What a chain has become after each of its operands.                     *)
LEMMA EmissionsExist ==
  ASSUME NEW chain, NEW n \in Nat
  PROVE  \E out : out = [i \in 1..n |-> IF i = 1 THEN Bare(chain[1].x)
                                        ELSE Extend(out[i - 1], chain[i].sym, chain[i].x)]
<1> DEFINE Solves(out, k) ==
             out = [i \in 1..k |-> IF i = 1 THEN Bare(chain[1].x)
                                   ELSE Extend(out[i - 1], chain[i].sym, chain[i].x)]
           Unsolved == {k \in Nat : ~\E out : Solves(out, k)}
<1>1. ASSUME Unsolved # {} PROVE FALSE
  <2>1. PICK m \in Unsolved : m > 0 => m - 1 \in Nat \ Unsolved
    <3> HIDE DEF Unsolved
    <3>1. Unsolved \in SUBSET Nat
      BY DEF Unsolved
    <3>2. QED BY <1>1, <3>1, LeastNumber
  <2>2. CASE m = 0
    <3>1. Solves(<<>>, 0)
      OBVIOUS
    <3>2. QED BY <2>2, <3>1
  <2>3. CASE m > 0
    <3>1. m - 1 \in Nat /\ ~(m - 1 \in Unsolved)
      <4> HIDE DEF Unsolved
      <4>1. QED BY <2>1, <2>3
    <3>2. PICK before : Solves(before, m - 1)
      BY <3>1
    <3> DEFINE out == [i \in 1..m |-> IF i < m THEN before[i] ELSE IF i = 1 THEN Bare(chain[1].x)
                                      ELSE Extend(before[i - 1], chain[i].sym, chain[i].x)]
    <3>3. \A i \in 1..m : out[i] = IF i = 1 THEN Bare(chain[1].x)
                                   ELSE Extend(out[i - 1], chain[i].sym, chain[i].x)
      BY <2>3, <3>2
    <3>4. Solves(out, m)
      BY <3>3
    <3>5. QED BY <3>4
  <2>4. QED BY <2>2, <2>3
<1>2. QED BY <1>1

LEMMA EmittedStepwise ==
  ASSUME NEW chain, Len(chain) \in Nat
  PROVE  \E out : /\ Emitted(chain) = out[Len(chain)]
                  /\ \A i \in 1..Len(chain) :
                       out[i] = IF i = 1 THEN Bare(chain[1].x)
                                ELSE Extend(out[i - 1], chain[i].sym, chain[i].x)
<1> DEFINE out == CHOOSE g : g = [i \in 1..Len(chain) |-> IF i = 1 THEN Bare(chain[1].x)
                                                          ELSE Extend(g[i - 1], chain[i].sym, chain[i].x)]
<1>1. out = [i \in 1..Len(chain) |-> IF i = 1 THEN Bare(chain[1].x)
                                     ELSE Extend(out[i - 1], chain[i].sym, chain[i].x)]
  BY EmissionsExist
<1>2. Emitted(chain) = out[Len(chain)]
  BY DEF Emitted
<1> HIDE DEF out
<1>3. \A i \in 1..Len(chain) : out[i] = IF i = 1 THEN Bare(chain[1].x)
                                        ELSE Extend(out[i - 1], chain[i].sym, chain[i].x)
  BY <1>1
<1>4. QED BY <1>2, <1>3

-----------------------------------------------------------------------------
(* A text whose kind is Crystal's shows it: a date is one at its beginning,*)
(* a number that goes on has numbers at both ends.                         *)
Shows(out, kind, goesOn) ==
  kind # "illtyped" =>
    /\ out.kind = kind
    /\ kind = "date" => IsDatish(out) /\ "quoted" \notin {out.first.look, out.last.look} /\ ~IsField(out, "str")
    /\ kind = "num" /\ goesOn => out.first.kind = "num" /\ out.last.kind = "num"

Says(x) == \/ x.look = "field" /\ x.typed
           \/ x.look \in {"quoted", "dated"}
           \/ x.kind = "num"

LEMMA OperandShows ==
  ASSUME NEW x \in Operands, Says(x), NEW goesOn
  PROVE  Shows(Bare(x), x.kind, goesOn)
  BY OperandsAssumption DEF Says, Shows, Bare, IsDatish, IsField

LEMMA ExtensionShows ==
  ASSUME NEW x \in Operands, Says(x), NEW out, NEW kind, NEW sym \in Symbols, NEW goesOn,
         Shows(out, kind, TRUE), kind \in {"num", "str", "date", "illtyped"},
         out.first \in Operands \union {Dated}, out.last \in Operands \union {Dated},
         kind = "date" /\ x.kind = "date" => ~goesOn
  PROVE  Shows(Extend(out, sym, x), Crystal(kind, sym, x.kind), goesOn)
<1>1. x.kind \in {"num", "str", "date"} /\ (x.look = "quoted" => x.kind = "str") /\ (x.look = "dated" => x.kind = "date")
  BY OperandsAssumption
<1>2. CASE sym = "&"
  BY <1>1, <1>2 DEF Shows, Extend, Crystal, Engine
<1>3. CASE sym # "&" /\ kind = "num"
  <2>1. /\ out.kind = "num" /\ out.first.kind = "num" /\ out.last.kind = "num"
        /\ {out.first.look, out.last.look} \intersect {"quoted", "dated"} = {}
    BY <1>3, OperandsAssumption DEF Shows, Dated
  <2>2. ~IsStringish(out) /\ ~IsDatish(out)
    BY <2>1 DEF IsStringish, IsDatish, IsField
  <2>3. x.kind = "num" => ~IsStringish(Bare(x))
    BY <1>1 DEF IsStringish, IsField, Bare
  <2>4. CASE x.kind = "num"
    BY <1>3, <2>1, <2>2, <2>3, <2>4 DEF Shows, Extend, Crystal, Engine, Symbols
  <2>5. CASE x.kind # "num"
    BY <1>1, <1>3, <2>5 DEF Shows, Crystal
  <2>6. QED BY <2>4, <2>5
<1>4. CASE sym # "&" /\ kind = "str"
  <2>1. x.kind = "str" => IsStringish(Bare(x))
    BY <1>1 DEF Says, IsStringish, IsField, Bare
  <2>2. QED BY <1>1, <1>4, <2>1 DEF Shows, Extend, Crystal, Engine, Symbols
<1>5. CASE sym # "&" /\ kind = "date"
  <2>1. ~IsStringish(out) /\ IsDatish(out) /\ out.kind = "date"
    BY <1>5 DEF Shows, IsStringish
  <2>2. x.kind = "num" => ~IsStringish(Bare(x)) /\ ~IsDatish(Bare(x))
    BY <1>1 DEF IsStringish, IsField, IsDatish, Bare
  <2>3. x.kind = "date" => ~IsStringish(Bare(x)) /\ IsDatish(Bare(x))
    BY <1>1 DEF Says, IsStringish, IsField, IsDatish, Bare
  <2>4. CASE x.kind = "num"
    BY <1>5, <2>1, <2>2, <2>4 DEF Shows, Extend, Crystal, Engine, Dated, IsDatish, IsField
  <2>5. CASE x.kind = "date"
    BY <1>5, <2>1, <2>3, <2>5 DEF Shows, Extend, Crystal, Engine, Symbols
  <2>6. CASE x.kind = "str"
    BY <1>5, <2>6 DEF Shows, Crystal
  <2>7. QED BY <1>1, <2>4, <2>5, <2>6
<1>6. CASE sym # "&" /\ kind = "illtyped"
  BY <1>6 DEF Shows, Crystal
<1>7. QED BY <1>2, <1>3, <1>4, <1>5, <1>6

(* A chain that Crystal can type is emitted as what Crystal makes of it.   *)
LEMMA KindIsKept ==
  ASSUME NEW chain, IsChain(chain), Knowable(chain),
         CrystalKind(chain, Len(chain)) # "illtyped",
         ~\E n \in 2..(Len(chain) - 1) : CrystalKind(chain, n - 1) = "date" /\ chain[n].x.kind = "date"
  PROVE  Emitted(chain).kind = CrystalKind(chain, Len(chain))
<1> DEFINE size == Len(chain)
<1>1. /\ size \in Nat /\ size > 0
      /\ \A i \in 1..size : chain[i].x \in Operands /\ chain[i].sym \in Symbols
      /\ DOMAIN chain = 1..size
  <2>1. chain # <<>> /\ chain \in Seq([sym : Symbols, x : Operands])
    BY DEF IsChain
  <2>2. size \in Nat /\ DOMAIN chain = 1..size /\ \A i \in 1..size : chain[i] \in [sym : Symbols, x : Operands]
    BY <2>1, SeqParts
  <2>3. size # 0
    BY <2>1
  <2>4. QED BY <2>2, <2>3
<1>2. \A i \in 1..size : Says(chain[i].x)
  BY <1>1 DEF Knowable, Says
<1>3. PICK out : /\ Emitted(chain) = out[size]
                 /\ \A i \in 1..size : out[i] = IF i = 1 THEN Bare(chain[1].x)
                                                ELSE Extend(out[i - 1], chain[i].sym, chain[i].x)
  BY <1>1, EmittedStepwise
<1>4. \A i \in 1..size : CrystalKind(chain, i) = IF i = 1 THEN chain[1].x.kind
                           ELSE Crystal(CrystalKind(chain, i - 1), chain[i].sym, chain[i].x.kind)
  BY <1>1, KindOfPrefix
<1> DEFINE Kind(i) == CrystalKind(chain, i)
           Good(i) == /\ out[i].first \in Operands \union {Dated} /\ out[i].last \in Operands \union {Dated}
                      /\ Kind(i) \in {"num", "str", "date", "illtyped"}
                      /\ Shows(out[i], Kind(i), i < size)
           Bad == {i \in 1..size : ~Good(i)}
<1>5. Good(1)
  <2>1. out[1] = Bare(chain[1].x) /\ Kind(1) = chain[1].x.kind
    BY <1>1, <1>3, <1>4
  <2>2. Kind(1) \in {"num", "str", "date"}
    BY <1>1, <2>1, OperandsAssumption
  <2>3. Shows(Bare(chain[1].x), chain[1].x.kind, 1 < size)
    <3>1. chain[1].x \in Operands /\ Says(chain[1].x)
      BY <1>1, <1>2
    <3>2. QED BY <3>1, OperandShows
  <2>4. out[1].first = chain[1].x /\ out[1].last = chain[1].x
    BY <2>1 DEF Bare
  <2>5. QED BY <1>1, <2>1, <2>2, <2>3, <2>4
<1>6. ASSUME NEW i \in 1..size, i > 1, Good(i - 1) PROVE Good(i)
  <2> DEFINE x == chain[i].x
             before == out[i - 1]
  <2>1. out[i] = Extend(before, chain[i].sym, x) /\ Kind(i) = Crystal(Kind(i - 1), chain[i].sym, x.kind)
    BY <1>3, <1>4, <1>6
  <2>2. x \in Operands /\ Says(x) /\ chain[i].sym \in Symbols /\ (i < size) \in BOOLEAN
    BY <1>1, <1>2
  <2>3. Kind(i - 1) = "date" /\ x.kind = "date" => ~(i < size)
    BY <1>1, <1>6
  <2>4. Shows(before, Kind(i - 1), TRUE)
    <3>1. i - 1 < size /\ Shows(before, Kind(i - 1), i - 1 < size)
      BY <1>1, <1>6
    <3>2. QED BY <3>1 DEF Shows
  <2>5. Kind(i - 1) \in {"num", "str", "date", "illtyped"} /\ before.first \in Operands \union {Dated}
          /\ before.last \in Operands \union {Dated}
    BY <1>6
  <2>6. out[i].first \in Operands \union {Dated} /\ out[i].last \in Operands \union {Dated}
    BY <2>1, <2>2, <2>5 DEF Extend
  <2>7. Kind(i) \in {"num", "str", "date", "illtyped"}
    BY <2>1 DEF Crystal
  <2> HIDE DEF x, before, Kind
  <2>8. Shows(Extend(before, chain[i].sym, x), Crystal(Kind(i - 1), chain[i].sym, x.kind), i < size)
    BY <2>2, <2>3, <2>4, <2>5, ExtensionShows
  <2>9. QED BY <2>1, <2>6, <2>7, <2>8 DEF before
<1>7. Bad = {}
  <2>1. ASSUME Bad # {} PROVE FALSE
    <3>1. PICK m \in Bad : m > 0 => m - 1 \in Nat \ Bad
      <4> HIDE DEF Good
      <4>1. Bad \in SUBSET Nat
        OBVIOUS
      <4> HIDE DEF Bad
      <4>2. QED BY <2>1, <4>1, LeastNumber
    <3>2. m \in 1..size /\ ~Good(m)
      OBVIOUS
    <3> HIDE DEF Good
    <3>3. m # 1
      BY <1>5, <3>2
    <3>4. m > 1 /\ m - 1 \in 1..size
      BY <1>1, <3>2, <3>3
    <3>5. Good(m - 1)
      BY <3>1, <3>4
    <3>6. QED BY <1>6, <3>2, <3>4, <3>5
  <2>2. QED BY <2>1
<1>8. Good(size)
  <2> HIDE DEF Good
  <2>1. QED BY <1>1, <1>7
<1>9. QED BY <1>3, <1>8 DEF Shows

-----------------------------------------------------------------------------
(* Ladders, from the last rung to the first: what the rungs from the i-th  *)
(* on give a row.                                                          *)
FirstFrom(rungs, default, r, i) ==
  LET holds == {j \in i..Len(rungs) : r \in rungs[j].when}
  IN  IF holds = {} THEN default ELSE rungs[CHOOSE j \in holds : \A k \in holds : j <= k].result

LEMMA FirstFromRung ==
  ASSUME NEW rungs, Len(rungs) \in Nat, NEW default, NEW r, NEW i \in 1..Len(rungs)
  PROVE  FirstFrom(rungs, default, r, i) =
           IF r \in rungs[i].when THEN rungs[i].result ELSE FirstFrom(rungs, default, r, i + 1)
<1> DEFINE Holds(k) == {j \in k..Len(rungs) : r \in rungs[j].when}
           First(S) == CHOOSE j \in S : \A k \in S : j <= k
<1>1. CASE r \in rungs[i].when
  <2>1. i \in Holds(i) /\ \A k \in Holds(i) : i <= k
    BY <1>1
  <2>2. \A j \in Holds(i) : (\A k \in Holds(i) : j <= k) => j = i
    BY <2>1
  <2>3. First(Holds(i)) = i
    <3> HIDE DEF Holds
    <3>1. QED BY <2>1, <2>2
  <2>4. Holds(i) # {}
    BY <2>1
  <2>5. FirstFrom(rungs, default, r, i) = IF Holds(i) = {} THEN default ELSE rungs[First(Holds(i))].result
    BY DEF FirstFrom
  <2> HIDE DEF Holds, First
  <2>6. QED BY <1>1, <2>3, <2>4, <2>5
<1>2. CASE ~(r \in rungs[i].when)
  <2>1. Holds(i) = Holds(i + 1)
    <3>1. \A j : j \in Holds(i) <=> j \in Holds(i + 1)
      BY <1>2
    <3> HIDE DEF Holds
    <3>2. QED BY <3>1
  <2>2. \A k : FirstFrom(rungs, default, r, k) = IF Holds(k) = {} THEN default ELSE rungs[First(Holds(k))].result
    BY DEF FirstFrom
  <2> HIDE DEF Holds, First
  <2>3. QED BY <1>2, <2>1, <2>2
<1>3. QED BY <1>1, <1>2

LEMMA FirstFromEnd ==
  ASSUME NEW rungs, Len(rungs) \in Nat, NEW default, NEW r
  PROVE  FirstFrom(rungs, default, r, Len(rungs) + 1) = default
<1>1. {j \in (Len(rungs) + 1)..Len(rungs) : r \in rungs[j].when} = {}
  OBVIOUS
<1>2. QED BY <1>1 DEF FirstFrom

LEMMA ChosenIsFirst ==
  ASSUME NEW rungs, Len(rungs) \in Nat, DOMAIN rungs = 1..Len(rungs), NEW default, NEW r
  PROVE  Chosen(rungs, default, r) = FirstFrom(rungs, default, r, 1)
  BY DEF Chosen, FirstFrom

Nests(out, rungs, default, n) ==
  out = [i \in 1..(n + 1) |-> IF i > n THEN Always(default)
                              ELSE If(rungs[i].when, Always(rungs[i].result), out[i + 1])]

LEMMA NestingsExist ==
  ASSUME NEW rungs, NEW default, NEW n \in Nat
  PROVE  \E out : Nests(out, rungs, default, n)
<1> DEFINE Solves(out, k) ==
             out = [i \in (n + 1 - k)..(n + 1) |->
                      IF i > n THEN Always(default)
                      ELSE If(rungs[i].when, Always(rungs[i].result), out[i + 1])]
           Unsolved == {k \in 0..n : ~\E out : Solves(out, k)}
<1>1. ASSUME Unsolved # {} PROVE FALSE
  <2>1. PICK m \in Unsolved : m > 0 => m - 1 \in Nat \ Unsolved
    <3> HIDE DEF Unsolved
    <3>1. Unsolved \in SUBSET Nat
      BY DEF Unsolved
    <3>2. QED BY <1>1, <3>1, LeastNumber
  <2>2. CASE m = 0
    <3> DEFINE out == [i \in (n + 1 - 0)..(n + 1) |-> Always(default)]
    <3>1. Solves(out, 0)
      OBVIOUS
    <3>2. QED BY <2>2, <3>1
  <2>3. CASE m > 0
    <3>1. m - 1 \in Nat /\ ~(m - 1 \in Unsolved) /\ m \in 1..n
      <4>1. m \in 0..n
        OBVIOUS
      <4> HIDE DEF Unsolved
      <4>2. QED BY <2>1, <2>3, <4>1
    <3>2. PICK after : Solves(after, m - 1)
      BY <3>1
    <3> DEFINE out == [i \in (n + 1 - m)..(n + 1) |->
                         IF i > n + 1 - m THEN after[i]
                         ELSE If(rungs[i].when, Always(rungs[i].result), after[i + 1])]
    <3>3. \A i \in (n + 1 - m)..(n + 1) :
            out[i] = IF i > n THEN Always(default)
                     ELSE If(rungs[i].when, Always(rungs[i].result), out[i + 1])
      BY <3>1, <3>2
    <3>4. Solves(out, m)
      BY <3>3
    <3>5. QED BY <3>4
  <2>4. QED BY <2>2, <2>3
<1>2. n \in 0..n /\ n + 1 - n = 1
  OBVIOUS
<1>3. \E out : Solves(out, n)
  BY <1>1, <1>2
<1>4. QED BY <1>2, <1>3 DEF Nests

(* Nested IFs give each row what its first rung gives it.                  *)
LEMMA NestedChooses ==
  ASSUME NEW rungs, Len(rungs) \in Nat, DOMAIN rungs = 1..Len(rungs), NEW default, NEW r \in Situations
  PROVE  Nested(rungs, default)[r] = Chosen(rungs, default, r)
<1> DEFINE n == Len(rungs)
<1>0. PICK g : Nests(g, rungs, default, n)
  <2> HIDE DEF n
  <2>1. n \in Nat
    BY DEF n
  <2>2. QED BY <2>1, NestingsExist
<1> DEFINE out == CHOOSE h : h = [i \in 1..(Len(rungs) + 1) |->
                                    IF i > Len(rungs) THEN Always(default)
                                    ELSE If(rungs[i].when, Always(rungs[i].result), h[i + 1])]
<1>1. out = [i \in 1..(n + 1) |-> IF i > n THEN Always(default)
                                  ELSE If(rungs[i].when, Always(rungs[i].result), out[i + 1])]
  BY <1>0 DEF Nests
<1>2. Nested(rungs, default) = out[1]
  BY DEF Nested
<1> HIDE DEF out
<1>3. \A i \in 1..(n + 1) : out[i] = IF i > n THEN Always(default)
                                     ELSE If(rungs[i].when, Always(rungs[i].result), out[i + 1])
  BY <1>1
<1> DEFINE Bad == {k \in 0..n : out[n + 1 - k][r] # FirstFrom(rungs, default, r, n + 1 - k)}
<1>4. ASSUME Bad # {} PROVE FALSE
  <2>1. PICK m \in Bad : m > 0 => m - 1 \in Nat \ Bad
    <3> HIDE DEF Bad
    <3>1. Bad \in SUBSET Nat
      BY DEF Bad
    <3>2. QED BY <1>4, <3>1, LeastNumber
  <2>2. m \in 0..n /\ out[n + 1 - m][r] # FirstFrom(rungs, default, r, n + 1 - m)
    OBVIOUS
  <2>3. CASE m = 0
    <3>1. out[n + 1] = Always(default)
      BY <1>3
    <3>2. QED BY <2>2, <2>3, <3>1, FirstFromEnd DEF Always
  <2>4. CASE m > 0
    <3> DEFINE i == n + 1 - m
    <3>1. i \in 1..n /\ i + 1 = n + 1 - (m - 1) /\ m - 1 \in 0..n
      BY <2>2, <2>4
    <3>2. out[i + 1][r] = FirstFrom(rungs, default, r, i + 1)
      BY <2>1, <2>4, <3>1
    <3>3. out[i] = If(rungs[i].when, Always(rungs[i].result), out[i + 1])
      BY <1>3, <3>1
    <3> HIDE DEF i
    <3>4. out[i][r] = IF r \in rungs[i].when THEN rungs[i].result ELSE out[i + 1][r]
      BY <3>3 DEF If, Always
    <3>5. out[i][r] = FirstFrom(rungs, default, r, i)
      BY <3>1, <3>2, <3>4, FirstFromRung
    <3>6. QED BY <2>2, <3>5 DEF i
  <2>5. QED BY <2>2, <2>3, <2>4
<1>5. out[1][r] = FirstFrom(rungs, default, r, 1)
  <2>1. n \in 0..n /\ n + 1 - n = 1
    OBVIOUS
  <2>2. QED BY <1>4, <2>1
<1>6. QED BY <1>2, <1>5, ChosenIsFirst

-----------------------------------------------------------------------------
(* Style conditions.                                                       *)
Styles(out, rungs, last, n) ==
  out = [i \in 1..n |-> IF i < n THEN WithElse(rungs[i], out[i + 1])
                        ELSE IF last \in {"absent", "keep"} THEN WithoutElse(rungs[i])
                        ELSE WithElse(rungs[i], Branch(last))]

LEMMA StylesExist ==
  ASSUME NEW rungs, NEW last, NEW n \in Nat
  PROVE  \E out : Styles(out, rungs, last, n)
<1> DEFINE Of(out, i) == IF i < n THEN WithElse(rungs[i], out[i + 1])
                         ELSE IF last \in {"absent", "keep"} THEN WithoutElse(rungs[i])
                         ELSE WithElse(rungs[i], Branch(last))
           Solves(out, k) == out = [i \in (n + 1 - k)..n |-> Of(out, i)]
           Unsolved == {k \in 0..n : ~\E out : Solves(out, k)}
<1>1. ASSUME Unsolved # {} PROVE FALSE
  <2>1. PICK m \in Unsolved : m > 0 => m - 1 \in Nat \ Unsolved
    <3> HIDE DEF Unsolved
    <3>1. Unsolved \in SUBSET Nat
      BY DEF Unsolved
    <3>2. QED BY <1>1, <3>1, LeastNumber
  <2>2. CASE m = 0
    <3>1. Solves(<<>>, 0)
      <4>1. (n + 1 - 0)..n = {}
        OBVIOUS
      <4>2. QED BY <4>1
    <3>2. QED BY <2>2, <3>1
  <2>3. CASE m > 0
    <3>1. m - 1 \in Nat /\ ~(m - 1 \in Unsolved) /\ m \in 1..n
      <4>1. m \in 0..n
        OBVIOUS
      <4> HIDE DEF Unsolved
      <4>2. QED BY <2>1, <2>3, <4>1
    <3>2. PICK after : Solves(after, m - 1)
      BY <3>1
    <3> DEFINE out == [i \in (n + 1 - m)..n |-> IF i > n + 1 - m THEN after[i] ELSE Of(after, i)]
    <3>3. \A i \in (n + 1 - m)..n : out[i] = Of(out, i)
      BY <3>1, <3>2
    <3>4. Solves(out, m)
      BY <3>3
    <3>5. QED BY <3>4
  <2>4. QED BY <2>2, <2>3
<1>2. n \in 0..n /\ n + 1 - n = 1
  OBVIOUS
<1>3. \E out : Solves(out, n)
  BY <1>1, <1>2
<1>4. QED BY <1>2, <1>3 DEF Styles

(* What a style condition gives a row whose ladder comes to v.             *)
Styled(v) == IF v \in {"keep", "absent"} THEN NoValue ELSE v

(* One more rung in front: the else says what the rest of the ladder says. *)
LEMMA RungWithElse ==
  ASSUME NEW rung, rung.result # "absent", NEW else, NEW v, NEW r \in Situations,
         WithElse(rung, else).ok, else.ok => else.text[r] = Styled(v)
  PROVE  WithElse(rung, else).text[r] = Styled(IF r \in rung.when THEN rung.result ELSE v)
<1>1. CASE rung.result = "keep"
  <2>1. Branch(rung.result) = AsItWas /\ AsItWas.keeps
    BY <1>1 DEF Branch, AsItWas
  <2>2. WithElse(rung, else) = Worded(If(Situations \ rung.when, else.text, Always(NoValue)), else.ok)
    BY <2>1 DEF WithElse
  <2>3. else.ok /\ WithElse(rung, else).text[r] = IF r \in rung.when THEN NoValue ELSE else.text[r]
    BY <2>2 DEF Worded, If, Always
  <2>4. QED BY <1>1, <2>3 DEF Styled
<1>2. CASE rung.result # "keep"
  <2>1. Branch(rung.result) = Worded(Always(rung.result), TRUE)
    BY <1>2 DEF Branch
  <2> DEFINE ok == Branch(rung.result).ok /\ else.ok
  <2>2. WithElse(rung, else) = Worded(If(rung.when, Always(rung.result), else.text), ok)
    BY <2>1 DEF WithElse, Worded
  <2>3. ok /\ WithElse(rung, else).text[r] = IF r \in rung.when THEN rung.result ELSE else.text[r]
    <3> HIDE DEF ok
    <3>1. QED BY <2>2 DEF Worded, If, Always
  <2>4. QED BY <1>2, <2>3 DEF Styled
<1>3. QED BY <1>1, <1>2

LEMMA RungWithoutElse ==
  ASSUME NEW rung, rung.result # "absent", NEW v, v \in {"absent", "keep"}, NEW r \in Situations,
         WithoutElse(rung).ok
  PROVE  WithoutElse(rung).text[r] = Styled(IF r \in rung.when THEN rung.result ELSE v)
<1>1. ~Branch(rung.result).keeps
  BY DEF WithoutElse, Worded
<1>2. rung.result # "keep"
  BY <1>1 DEF Branch, AsItWas
<1>3. Branch(rung.result).text = Always(rung.result)
  BY <1>2 DEF Branch, Worded
<1>4. WithoutElse(rung).text[r] = IF r \in rung.when THEN rung.result ELSE NoValue
  BY <1>3 DEF WithoutElse, Worded, If, Always
<1>5. QED BY <1>2, <1>4 DEF Styled

(* A style condition that is not refused gives each row what its ladder    *)
(* comes to, and nothing where the ladder keeps the style.                 *)
LEMMA StyleChooses ==
  ASSUME NEW rungs, Len(rungs) \in Nat \ {0}, DOMAIN rungs = 1..Len(rungs),
         \A i \in 1..Len(rungs) : rungs[i].result # "absent",
         NEW last, NEW r \in Situations, Style(rungs, last).ok
  PROVE  Style(rungs, last).text[r] = Styled(Chosen(rungs, last, r))
<1> DEFINE n == Len(rungs)
<1>0. PICK g : Styles(g, rungs, last, n)
  <2> HIDE DEF n
  <2>1. n \in Nat
    BY DEF n
  <2>2. QED BY <2>1, StylesExist
<1> DEFINE out == CHOOSE h : h = [i \in 1..Len(rungs) |->
                     IF i < Len(rungs) THEN WithElse(rungs[i], h[i + 1])
                     ELSE IF last \in {"absent", "keep"} THEN WithoutElse(rungs[i])
                     ELSE WithElse(rungs[i], Branch(last))]
<1>1. out = [i \in 1..n |-> IF i < n THEN WithElse(rungs[i], out[i + 1])
                            ELSE IF last \in {"absent", "keep"} THEN WithoutElse(rungs[i])
                            ELSE WithElse(rungs[i], Branch(last))]
  BY <1>0 DEF Styles
<1>2. Style(rungs, last) = out[1]
  BY DEF Style
<1> HIDE DEF out
<1>3. \A i \in 1..n : out[i] = IF i < n THEN WithElse(rungs[i], out[i + 1])
                               ELSE IF last \in {"absent", "keep"} THEN WithoutElse(rungs[i])
                               ELSE WithElse(rungs[i], Branch(last))
  BY <1>1
<1> DEFINE Gives(i) == out[i].ok => out[i].text[r] = Styled(FirstFrom(rungs, last, r, i))
           Bad == {k \in 0..(n - 1) : ~Gives(n - k)}
<1>4. ASSUME Bad # {} PROVE FALSE
  <2>1. PICK m \in Bad : m > 0 => m - 1 \in Nat \ Bad
    <3> HIDE DEF Bad
    <3>1. Bad \in SUBSET Nat
      BY DEF Bad
    <3>2. QED BY <1>4, <3>1, LeastNumber
  <2>2. m \in 0..(n - 1) /\ ~Gives(n - m)
    OBVIOUS
  <2> DEFINE i == n - m
  <2>3. i \in 1..n /\ i \in 1..Len(rungs) /\ rungs[i].result # "absent"
    BY <2>2
  <2>4. FirstFrom(rungs, last, r, i) = IF r \in rungs[i].when THEN rungs[i].result ELSE FirstFrom(rungs, last, r, i + 1)
    <3> HIDE DEF i
    <3>1. QED BY <2>3, FirstFromRung
  <2>5. CASE m = 0
    <3>1. FirstFrom(rungs, last, r, i + 1) = last /\ i = n
      BY <2>5, FirstFromEnd
    <3>2. out[i] = IF last \in {"absent", "keep"} THEN WithoutElse(rungs[i]) ELSE WithElse(rungs[i], Branch(last))
      BY <1>3, <2>3, <3>1
    <3> HIDE DEF i
    <3>3. CASE last \in {"absent", "keep"}
      BY <2>3, <2>4, <3>1, <3>2, <3>3, RungWithoutElse, <2>2 DEF i
    <3>4. CASE ~(last \in {"absent", "keep"})
      <4>1. Branch(last).text[r] = Styled(last)
        BY <3>4 DEF Branch, Worded, Always, Styled
      <4>2. QED BY <2>3, <2>4, <3>1, <3>2, <3>4, <4>1, RungWithElse, <2>2 DEF i
    <3>5. QED BY <3>3, <3>4
  <2>6. CASE m > 0
    <3>1. i < n /\ i + 1 = n - (m - 1) /\ m - 1 \in 0..(n - 1)
      BY <2>2, <2>6
    <3>2. Gives(i + 1)
      <4>1. ~(m - 1 \in Bad)
        <5> HIDE DEF Bad
        <5>1. QED BY <2>1, <2>6
      <4>2. QED BY <3>1, <4>1
    <3>3. out[i] = WithElse(rungs[i], out[i + 1])
      BY <1>3, <2>3, <3>1
    <3> HIDE DEF i
    <3>4. ASSUME out[i].ok PROVE out[i].text[r] = Styled(FirstFrom(rungs, last, r, i))
      <4> DEFINE v == FirstFrom(rungs, last, r, i + 1)
                 rung == rungs[i]
                 else == out[i + 1]
      <4>1. WithElse(rung, else).ok /\ (else.ok => else.text[r] = Styled(v)) /\ rung.result # "absent"
        BY <2>3, <3>2, <3>3, <3>4
      <4>2. FirstFrom(rungs, last, r, i) = IF r \in rung.when THEN rung.result ELSE v
        BY <2>4
      <4>3. out[i] = WithElse(rung, else)
        BY <3>3
      <4> HIDE DEF v, rung, else
      <4>4. WithElse(rung, else).text[r] = Styled(IF r \in rung.when THEN rung.result ELSE v)
        BY ONLY <4>1, r \in Situations, RungWithElse
      <4>5. QED BY <4>2, <4>3, <4>4
    <3>5. QED BY <2>2, <3>4 DEF i
  <2>7. QED BY <2>2, <2>5, <2>6
<1>5. Gives(1)
  <2>1. n - 1 \in 0..(n - 1) /\ n - (n - 1) = 1
    OBVIOUS
  <2>2. QED BY <1>4, <2>1
<1>6. QED BY <1>2, <1>5, ChosenIsFirst

-----------------------------------------------------------------------------
(* What the steps keep for the formulas: the dump is one of those given,   *)
(* and the statuses are those of its translations, from TranslateAll on.   *)
FormulasInv ==
  /\ dump \in Dumps
  /\ step \in {"parse", "translate"} => status = << >>
  /\ step = "query" => status = [f \in dump.formulas |-> Translation(f).status]

LEMMA FormulasInvInit == ReportInit => FormulasInv
  BY DEF ReportInit, FormulasInv

LEMMA FormulasInvStep == FormulasInv /\ [ReportNext]_reportVars => FormulasInv'
<1> SUFFICES ASSUME FormulasInv, [ReportNext]_reportVars PROVE FormulasInv'
  OBVIOUS
<1> USE DEF FormulasInv
<1>1. CASE Parse
  BY <1>1 DEF Parse, ReportInit
<1>2. CASE TranslateAll
  BY <1>2 DEF TranslateAll, Goes
<1>3. CASE Query
  BY <1>3 DEF Query, Goes
<1>4. CASE Select
  BY <1>4 DEF Select, Goes
<1>5. CASE Window
  BY <1>5 DEF Window, Goes
<1>6. CASE Rank
  BY <1>6 DEF Rank, Goes
<1>7. CASE Stack
  BY <1>7 DEF Stack, Goes
<1>8. CASE Fit
  BY <1>8 DEF Fit, Goes
<1>9. CASE Write
  BY <1>9 DEF Write, Goes
<1>10. CASE Triage
  BY <1>10 DEF Triage, Goes
<1>11. CASE UNCHANGED reportVars
  BY <1>11 DEF reportVars
<1>12. QED BY <1>1, <1>2, <1>3, <1>4, <1>5, <1>6, <1>7, <1>8, <1>9, <1>10, <1>11 DEF ReportNext

LEMMA LadderParts ==
  ASSUME NEW rungs, IsLadder(rungs)
  PROVE  /\ Len(rungs) \in Nat /\ DOMAIN rungs = 1..Len(rungs)
         /\ \A i \in 1..Len(rungs) : rungs[i].result # "absent"
<1> DEFINE T == Range(rungs)
<1>1. rungs \in Seq(T)
  BY DEF IsLadder
<1> HIDE DEF T
<1>2. Len(rungs) \in Nat /\ DOMAIN rungs = 1..Len(rungs)
  BY <1>1, SeqParts
<1>3. QED BY <1>2 DEF IsLadder, Range

LEMMA FormulasInvSuffices == FormulasInv => FormulasKeepTheirMeaning
<1> SUFFICES ASSUME FormulasInv PROVE AutoKeepsKind /\ FirstBranchWins
  BY DEF FormulasKeepTheirMeaning
<1>1. /\ \A f \in dump.formulas : IsFormula(f)
      /\ \A f \in dump.styles : IsStyle(f)
  BY DumpsAssumption DEF FormulasInv
<1>2. ASSUME step = "query" PROVE DOMAIN status = dump.formulas /\ \A f \in dump.formulas : status[f] = Translation(f).status
  BY <1>2 DEF FormulasInv
<1>3. AutoKeepsKind
  <2> SUFFICES ASSUME NEW f \in DOMAIN status, step = "query", f.shape = "plain", Knowable(f.chain),
                      ~\E n \in 2..(Len(f.chain) - 1) :
                         CrystalKind(f.chain, n - 1) = "date" /\ f.chain[n].x.kind = "date",
                      CrystalKind(f.chain, Len(f.chain)) # "illtyped"
               PROVE  Emitted(f.chain).kind = CrystalKind(f.chain, Len(f.chain))
    BY DEF AutoKeepsKind
  <2>1. IsChain(f.chain)
    BY <1>1, <1>2 DEF IsFormula
  <2>2. QED BY <2>1, KindIsKept
<1>4. ASSUME NEW f \in DOMAIN status, step = "query", NEW r \in Situations
      PROVE  Nested(f.rungs, f.default)[r] = Chosen(f.rungs, f.default, r)
  <2>1. IsLadder(f.rungs)
    BY <1>1, <1>2, <1>4 DEF IsFormula
  <2>2. QED BY <2>1, LadderParts, NestedChooses
<1>5. ASSUME NEW f \in dump.styles, Style(f.rungs, f.default).ok, NEW r \in Situations
      PROVE  Style(f.rungs, f.default).text[r] = Styled(Chosen(f.rungs, f.default, r))
  <2>1. IsLadder(f.rungs) /\ f.rungs # <<>>
    BY <1>1 DEF IsStyle
  <2>2. Len(f.rungs) # 0
    <3> DEFINE T == Range(f.rungs)
    <3>1. f.rungs \in Seq(T)
      BY <2>1 DEF IsLadder
    <3> HIDE DEF T
    <3>2. QED BY <2>1, <3>1
  <2>3. QED BY <1>5, <2>1, <2>2, LadderParts, StyleChooses
<1>6. FirstBranchWins
  BY <1>4, <1>5 DEF FirstBranchWins, Styled
<1>7. QED BY <1>3, <1>6

(* Whatever the operands, the rows and the dumps: a chain of + - & that    *)
(* _Parser.add_expr emits without a caveat is of the kind Crystal makes of *)
(* it, the nested IFs of translate_select_case give each row what its      *)
(* first branch gives it, and a style condition of if_expr that is not     *)
(* refused does so too, keeping the style where Crystal keeps it.          *)
THEOREM FormulasTheorem == ReportSpec => []FormulasKeepTheirMeaning
<1>1. QED BY FormulasInvInit, FormulasInvStep, FormulasInvSuffices, PTL DEF ReportSpec

-----------------------------------------------------------------------------
(* Objects: what is neither counted as work nor has a manual note prints.  *)
LEMMA UnboundIsNoted ==
  ASSUME NEW o, NEW area, KindOf(o) = "field", ~Bound(o)
  PROVE  Manual(NotesOf(o, area)) # {}
<1>1. o.tag = "field" /\ o.is \notin Special /\ o.is # "unmapped summary"
  BY DEF KindOf
<1> DEFINE note == IF o.is = "empty" THEN "field reference is empty" ELSE "unresolved field reference"
<1>2. o.is # "window summary"
  BY DEF Bound
<1>3. note \in NotesOf(o, area)
  <2> DEFINE fields == IF o.tag # "field" THEN {}
                       ELSE CASE o.is = "window summary" -> {"computed as a windowed column"}
                              [] o.is = "unmapped summary" -> {"operation unsupported"}
                              [] o.is = "empty" -> {"field reference is empty"}
                              [] Bound(o) \/ o.is \in Special -> {}
                              [] OTHER -> {"unresolved field reference"}
  <2>1. note \in fields
    BY <1>1, <1>2
  <2> HIDE DEF fields, note
  <2>2. fields \subseteq NotesOf(o, area)
    BY DEF NotesOf, fields
  <2>3. QED BY <2>1, <2>2
<1>4. note \notin Applied /\ note \notin Info
  BY DEF Applied, Info
<1>5. QED BY <1>3, <1>4 DEF Manual

LEMMA RefusedIsNoted ==
  ASSUME NEW o, NEW area, "refused" \in o.conditions
  PROVE  Manual(NotesOf(o, area)) # {}
<1> DEFINE conditions == {CASE c = "converts" -> "condition converted to a style expression"
                            [] c = "no print effect" -> "condition has no effect"
                            [] c = "refused" -> "condition not carried" : c \in o.conditions}
<1>1. "condition not carried" \in conditions
  OBVIOUS
<1> HIDE DEF conditions
<1>2. conditions \subseteq NotesOf(o, area)
  BY DEF NotesOf, conditions
<1>3. "condition not carried" \notin Applied /\ "condition not carried" \notin Info
  BY DEF Applied, Info
<1>4. QED BY <1>1, <1>2, <1>3 DEF Manual

LEMMA QuietIsLive ==
  ASSUME NEW o, NEW area, ~IsTodo(o, area), Manual(NotesOf(o, area)) = {},
         ~(KindOf(o) = "chart" /\ o.is = "no value")
  PROVE  Written(o, area, "master") = "live" \/ o.is = "other special"
<1>1. KindOf(o) \in {"label", "line", "box", "image", "subreport", "chart", "crosstab", "field", "special"}
  BY DEF KindOf, IsTodo
<1>2. KindOf(o) = "field" => Bound(o)
  BY UnboundIsNoted
<1>3. QED BY <1>1, <1>2 DEF Written, IsTodo

(* What is painted is an object of a section that prints.                  *)
LEMMA PaintedParts ==
  ASSUME NEW layout, NEW groups, NEW level, NEW p \in Painted(layout, groups, level)
  PROVE  /\ p.from \in DOMAIN layout /\ ~layout[p.from].suppressed
         /\ p.object \in DOMAIN layout[p.from].objects
         /\ p.as = Written(layout[p.from].objects[p.object], layout[p.from].area, level)
<1> DEFINE printed == {i \in DOMAIN layout : Visible(layout[i]) /\ layout[i].group <= groups}
           Of(i, k) == {[from |-> i, object |-> k, into |-> j,
                         as |-> Written(layout[i].objects[k], layout[i].area, level)] :
                          j \in PaintedIn(layout, i, layout[i].objects[k])}
<1>1. Painted(layout, groups, level) = UNION {UNION {Of(i, k) : k \in DOMAIN layout[i].objects} : i \in printed}
  BY DEF Painted
<1>2. PICK i \in printed : \E k \in DOMAIN layout[i].objects : p \in Of(i, k)
  <2> HIDE DEF printed, Of
  <2>1. QED BY <1>1
<1>3. PICK k \in DOMAIN layout[i].objects : p \in Of(i, k)
  BY <1>2
<1>4. p.from = i /\ p.object = k /\ p.as = Written(layout[i].objects[k], layout[i].area, level)
  BY <1>3
<1>5. QED BY <1>2, <1>3, <1>4 DEF Visible

(* From Write on the bundle is what the sections draw, and READY means     *)
(* that triage counted nothing of them.                                    *)
Laid == dump.level = "master" /\ bundle = Painted(sections, Len(dump.query.groups), dump.level)
Clean == Todos = {} /\ Unconverted = {} /\ LintFindings = {}
ReadyInv ==
  /\ dump \in Dumps
  /\ step = "triage" => Laid
  /\ verdict = "READY" => step = "over" /\ Laid /\ Clean

LEMMA ReadyInvStep == ReadyInv /\ [ReportNext]_reportVars => ReadyInv'
<1> SUFFICES ASSUME ReadyInv, [ReportNext]_reportVars PROVE ReadyInv'
  OBVIOUS
<1>1. CASE Parse
  BY <1>1 DEF Parse, ReadyInv
<1>2. CASE TranslateAll
  BY <1>2 DEF TranslateAll, Goes, ReadyInv
<1>3. CASE Query
  BY <1>3 DEF Query, Goes, ReadyInv
<1>4. CASE Select
  BY <1>4 DEF Select, Goes, ReadyInv
<1>5. CASE Window
  BY <1>5 DEF Window, Goes, ReadyInv
<1>6. CASE Rank
  BY <1>6 DEF Rank, Goes, ReadyInv
<1>7. CASE Stack
  BY <1>7 DEF Stack, Goes, ReadyInv
<1>8. CASE Fit
  BY <1>8 DEF Fit, Goes, ReadyInv
<1>9. CASE Write
  <2>1. dump.level \in {"master", "child"}
    BY DumpsAssumption DEF ReadyInv
  <2>2. /\ step = "write" /\ step' = IF dump.level = "child" THEN "over" ELSE "triage"
        /\ bundle' = Painted(sections, Len(dump.query.groups), dump.level)
        /\ UNCHANGED <<dump, sections, verdict>>
    BY <1>9 DEF Write, Goes
  <2>3. QED BY <2>1, <2>2 DEF ReadyInv, Laid
<1>10. CASE Triage
  <2>1. /\ step = "triage" /\ step' = "over"
        /\ UNCHANGED <<dump, sections, issues, bundle>>
        /\ verdict' = "READY" => Clean
    BY <1>10 DEF Triage, Goes, Clean
  <2>2. Laid /\ Laid'
    BY <2>1 DEF ReadyInv, Laid
  <2>3. Clean => Clean'
    BY <2>1 DEF Clean, Todos, Unconverted, LintFindings, Objects
  <2>4. QED BY <2>1, <2>2, <2>3 DEF ReadyInv
<1>11. CASE UNCHANGED reportVars
  BY <1>11 DEF reportVars, ReadyInv, Laid, Clean, Todos, Unconverted, LintFindings, Objects
<1>12. QED BY <1>1, <1>2, <1>3, <1>4, <1>5, <1>6, <1>7, <1>8, <1>9, <1>10, <1>11 DEF ReportNext

LEMMA ReadyInvSuffices == ReadyInv => ReadyPrintsItsLayout
<1> SUFFICES ASSUME Laid, Clean PROVE
      /\ \A p \in bundle : LET o == sections[p.from].objects[p.object] IN
           o.drawn => p.as = "live" \/ o.is = "other special"
      /\ \A x \in Objects : "refused" \notin x.object.conditions
  BY DEF ReadyInv, ReadyPrintsItsLayout
<1>1. \A x \in Objects : ~IsTodo(x.object, x.area) /\ Manual(NotesOf(x.object, x.area)) = {}
  BY DEF Clean, Todos, Unconverted, Manual
<1>2. ASSUME NEW i \in DOMAIN sections, NEW k \in DOMAIN sections[i].objects
      PROVE  [object |-> sections[i].objects[k], area |-> sections[i].area] \in Objects
  <2> DEFINE Of(s) == {[object |-> o, area |-> s.area] : o \in Range(s.objects)}
  <2>1. sections[i] \in Range(sections) /\ sections[i].objects[k] \in Range(sections[i].objects)
    BY DEF Range
  <2>2. [object |-> sections[i].objects[k], area |-> sections[i].area] \in Of(sections[i])
    BY <2>1
  <2> HIDE DEF Of
  <2>3. Objects = UNION {Of(s) : s \in Range(sections)}
    BY DEF Objects, Of
  <2>4. QED BY <2>1, <2>2, <2>3
<1>3. ASSUME NEW p \in bundle, sections[p.from].objects[p.object].drawn
      PROVE  p.as = "live" \/ sections[p.from].objects[p.object].is = "other special"
  <2> DEFINE s == sections[p.from]
             o == s.objects[p.object]
  <2>1. /\ p.from \in DOMAIN sections /\ ~s.suppressed /\ p.object \in DOMAIN s.objects
        /\ p.as = Written(o, s.area, "master")
    BY PaintedParts DEF Laid
  <2>2. ~IsTodo(o, s.area) /\ Manual(NotesOf(o, s.area)) = {}
    BY <1>1, <1>2, <2>1
  <2>3. ASSUME KindOf(o) = "chart", o.is = "no value" PROVE FALSE
    <3>1. Lint(s, dump.width) = {}
      BY <2>1 DEF Clean, LintFindings, Range
    <3>2. [severity |-> "error", code |-> "chart-columns"] \in Lint(s, dump.width)
      BY <1>3, <2>1, <2>3 DEF Lint
    <3>3. QED BY <3>1, <3>2
  <2> HIDE DEF o, s
  <2>4. Written(o, s.area, "master") = "live" \/ o.is = "other special"
    BY <2>2, <2>3, QuietIsLive
  <2>5. QED BY <2>1, <2>4 DEF o, s
<1>4. ASSUME NEW x \in Objects PROVE "refused" \notin x.object.conditions
  BY <1>1, RefusedIsNoted
<1>5. QED BY <1>3, <1>4

(* Of any layout: a report that triage_one gives READY prints each object  *)
(* that is drawn, live, but for the special fields without a function, and *)
(* none of its objects lost a condition.                                   *)
THEOREM ReadyTheorem == ReportSpec => []ReadyPrintsItsLayout
<1>1. ReportInit => ReadyInv
  BY DEF ReportInit, ReadyInv
<1>2. QED BY <1>1, ReadyInvStep, ReadyInvSuffices, PTL DEF ReportSpec

-----------------------------------------------------------------------------
(* Joins: what reading a link keeps. A part is linked to the rest by link  *)
(* i alone when no other link crosses it.                                  *)
Bridges(links, i, part) == \A j \in 1..Len(links) : Crosses(links[j], part) <=> j = i

Reached(state, rep) ==
  /\ state.placed \subseteq Range(rep.tables) /\ Head(rep.tables) \in state.placed
  /\ state.joins \subseteq 1..Len(rep.links)
  /\ \A i \in state.joins : {rep.links[i].st, rep.links[i].dt} \subseteq state.placed
  /\ \A i \in 1..Len(rep.links) \ state.joins : \A part :
       Head(rep.tables) \in part /\ Bridges(rep.links, i, part) => state.placed \subseteq part

Idle(links, i, placed) == ~Crosses(links[i], placed)

LEMMA ReadKeeps ==
  ASSUME NEW rep, NEW state, Reached(state, rep), NEW i \in 1..Len(rep.links),
         {rep.links[i].st, rep.links[i].dt} \subseteq Range(rep.tables)
  PROVE  /\ Reached(Read(state, rep.links, i), rep)
         /\ \/ Read(state, rep.links, i) = state /\ Idle(rep.links, i, state.placed)
            \/ /\ state.joins \subseteq Read(state, rep.links, i).joins
               /\ i \in Read(state, rep.links, i).joins /\ i \notin state.joins
<1> DEFINE l == rep.links[i]
           after == Read(state, rep.links, i)
           Joined(t) == [placed |-> state.placed \union {t}, joins |-> state.joins \union {i}]
<1>1. CASE ~Crosses(l, state.placed)
  <2>1. after = state
    BY <1>1 DEF Read, Crosses
  <2>2. QED BY <1>1, <2>1 DEF Idle
<1>2. ASSUME Crosses(l, state.placed) PROVE \E t \in {l.st, l.dt} : after = Joined(t) /\ {l.st, l.dt} \subseteq state.placed \union {t}
  BY <1>2 DEF Read, Crosses
<1>3. CASE Crosses(l, state.placed)
  <2>1. PICK t \in {l.st, l.dt} : after = Joined(t) /\ {l.st, l.dt} \subseteq state.placed \union {t}
    BY <1>2, <1>3
  <2>2. after.placed = state.placed \union {t} /\ after.joins = state.joins \union {i}
    BY <2>1
  <2>3. i \notin state.joins
    BY <1>3 DEF Reached, Crosses
  <2>4. ASSUME NEW k \in 1..Len(rep.links) \ after.joins, NEW part,
               Head(rep.tables) \in part, Bridges(rep.links, k, part)
        PROVE  after.placed \subseteq part
    <3>1. state.placed \subseteq part
      BY <2>2, <2>4 DEF Reached
    <3>2. ~Crosses(l, part)
      BY <2>2, <2>4 DEF Bridges
    <3>3. l.st \in part /\ l.dt \in part
      BY <1>3, <3>1, <3>2 DEF Crosses
    <3>4. QED BY <2>1, <2>2, <3>1, <3>3
  <2>5. t \in Range(rep.tables)
    BY <2>1
  <2>6. \A k \in after.joins : {rep.links[k].st, rep.links[k].dt} \subseteq after.placed
    BY <2>1, <2>2 DEF Reached
  <2> HIDE DEF after, l
  <2>7. Reached(after, rep)
    BY <2>2, <2>4, <2>5, <2>6 DEF Reached
  <2>8. QED BY <2>2, <2>3, <2>7 DEF after
<1>4. QED BY <1>1, <1>3

LEMMA ReadingsExist ==
  ASSUME NEW state, NEW links, NEW n \in Nat
  PROVE  \E at : at = [k \in 0..n |-> IF k = 0 THEN state ELSE Read(at[k - 1], links, k)]
<1> DEFINE Solves(at, m) == at = [k \in 0..m |-> IF k = 0 THEN state ELSE Read(at[k - 1], links, k)]
           Unsolved == {m \in Nat : ~\E at : Solves(at, m)}
<1>1. ASSUME Unsolved # {} PROVE FALSE
  <2>1. PICK m \in Unsolved : m > 0 => m - 1 \in Nat \ Unsolved
    <3> HIDE DEF Unsolved
    <3>1. Unsolved \in SUBSET Nat
      BY DEF Unsolved
    <3>2. QED BY <1>1, <3>1, LeastNumber
  <2>2. CASE m = 0
    <3>1. Solves([k \in 0..0 |-> state], 0)
      OBVIOUS
    <3>2. QED BY <2>2, <3>1
  <2>3. CASE m > 0
    <3>1. m - 1 \in Nat /\ ~(m - 1 \in Unsolved)
      <4> HIDE DEF Unsolved
      <4>1. QED BY <2>1, <2>3
    <3>2. PICK before : Solves(before, m - 1)
      BY <3>1
    <3> DEFINE at == [k \in 0..m |-> IF k < m THEN before[k] ELSE Read(before[k - 1], links, k)]
    <3>3. \A k \in 0..m : at[k] = IF k = 0 THEN state ELSE Read(at[k - 1], links, k)
      BY <2>3, <3>2
    <3>4. Solves(at, m)
      BY <3>3
    <3>5. QED BY <3>4
  <2>4. QED BY <2>2, <2>3
<1>2. QED BY <1>1

(* A pass keeps what has been reached, and either makes a new join or      *)
(* leaves no link that could.                                              *)
LEMMA PassKeeps ==
  ASSUME NEW rep, Len(rep.links) \in Nat, NEW state, Reached(state, rep),
         \A i \in 1..Len(rep.links) : {rep.links[i].st, rep.links[i].dt} \subseteq Range(rep.tables)
  PROVE  LET after == Pass(state, rep.links) IN
         /\ Reached(after, rep) /\ state.joins \subseteq after.joins
         /\ \/ after = state /\ \A i \in 1..Len(rep.links) : Idle(rep.links, i, state.placed)
            \/ after.joins # state.joins
         /\ (\A i \in 1..Len(rep.links) : Idle(rep.links, i, state.placed)) => after = state
<1> DEFINE n == Len(rep.links)
           links == rep.links
           at == CHOOSE g : g = [k \in 0..Len(links) |-> IF k = 0 THEN state ELSE Read(g[k - 1], links, k)]
<1>1. at = [k \in 0..n |-> IF k = 0 THEN state ELSE Read(at[k - 1], links, k)]
  BY ReadingsExist
<1>2. Pass(state, links) = at[n]
  BY DEF Pass
<1> HIDE DEF at
<1>3. at[0] = state /\ \A k \in 1..n : at[k] = Read(at[k - 1], links, k)
  <2>1. n \in Nat
    OBVIOUS
  <2> HIDE DEF n, links
  <2>2. \A k \in 0..n : at[k] = IF k = 0 THEN state ELSE Read(at[k - 1], links, k)
    BY <1>1
  <2>3. QED BY <2>1, <2>2
<1> DEFINE Good(k) == /\ Reached(at[k], rep) /\ state.joins \subseteq at[k].joins
                      /\ \/ at[k] = state /\ \A i \in 1..k : Idle(links, i, state.placed)
                         \/ at[k].joins # state.joins
                      /\ (\A i \in 1..n : Idle(links, i, state.placed)) => at[k] = state
           Bad == {k \in 0..n : ~Good(k)}
<1>4. ASSUME Bad # {} PROVE FALSE
  <2>1. PICK k \in Bad : k > 0 => k - 1 \in Nat \ Bad
    <3> HIDE DEF Bad
    <3>1. Bad \in SUBSET Nat
      BY DEF Bad
    <3>2. QED BY <1>4, <3>1, LeastNumber
  <2>2. CASE k = 0
    BY <2>1, <2>2, <1>3
  <2>3. CASE k > 0
    <3>1. k \in 1..n /\ k - 1 \in 0..n /\ ~(k - 1 \in Bad)
      <4>1. k \in 0..n
        OBVIOUS
      <4> HIDE DEF Bad
      <4>2. QED BY <2>1, <2>3, <4>1
    <3>2. Good(k - 1)
      BY <3>1
    <3>3. at[k] = Read(at[k - 1], links, k)
      BY <1>3, <3>1
    <3>4. /\ Reached(at[k], rep)
          /\ \/ at[k] = at[k - 1] /\ Idle(links, k, at[k - 1].placed)
             \/ at[k - 1].joins \subseteq at[k].joins /\ k \in at[k].joins /\ k \notin at[k - 1].joins
      <4> DEFINE before == at[k - 1]
      <4>1. Reached(before, rep)
        BY <3>2
      <4> HIDE DEF before
      <4>2. at[k] = Read(before, rep.links, k)
        BY <3>3 DEF before
      <4>3. /\ Reached(at[k], rep)
            /\ \/ at[k] = before /\ Idle(links, k, before.placed)
               \/ before.joins \subseteq at[k].joins /\ k \in at[k].joins /\ k \notin before.joins
        BY <3>1, <4>1, <4>2, ReadKeeps
      <4>4. QED BY <4>3 DEF before
    <3>5. ASSUME \A i \in 1..n : Idle(links, i, state.placed) PROVE at[k] = state
      <4>1. at[k - 1] = state /\ ~Crosses(links[k], state.placed)
        BY <3>1, <3>2, <3>5 DEF Idle
      <4>2. QED BY <3>3, <4>1 DEF Read, Crosses
    <3>6. Good(k)
      <4>1. CASE at[k] = at[k - 1] /\ Idle(links, k, at[k - 1].placed)
        <5>1. \A i \in 1..k : i \in 1..(k - 1) \/ i = k
          BY <3>1
        <5>2. QED BY <3>2, <3>4, <3>5, <4>1, <5>1
      <4>2. CASE at[k - 1].joins \subseteq at[k].joins /\ k \in at[k].joins /\ k \notin at[k - 1].joins
        BY <3>2, <3>4, <3>5, <4>2
      <4>3. QED BY <3>4, <4>1, <4>2
    <3>7. QED BY <3>6
  <2>4. QED BY <2>2, <2>3
<1>5. Good(n)
  <2>1. n \in 0..n
    OBVIOUS
  <2>2. QED BY <1>4, <2>1
<1>6. QED BY <1>2, <1>5

LEMMA PassesExist ==
  ASSUME NEW state, NEW links, NEW n \in Nat
  PROVE  \E pass : pass = [k \in 0..n |-> IF k = 0 THEN state ELSE Pass(pass[k - 1], links)]
<1> DEFINE Solves(pass, m) == pass = [k \in 0..m |-> IF k = 0 THEN state ELSE Pass(pass[k - 1], links)]
           Unsolved == {m \in Nat : ~\E pass : Solves(pass, m)}
<1>1. ASSUME Unsolved # {} PROVE FALSE
  <2>1. PICK m \in Unsolved : m > 0 => m - 1 \in Nat \ Unsolved
    <3> HIDE DEF Unsolved
    <3>1. Unsolved \in SUBSET Nat
      BY DEF Unsolved
    <3>2. QED BY <1>1, <3>1, LeastNumber
  <2>2. CASE m = 0
    <3>1. Solves([k \in 0..0 |-> state], 0)
      OBVIOUS
    <3>2. QED BY <2>2, <3>1
  <2>3. CASE m > 0
    <3>1. m - 1 \in Nat /\ ~(m - 1 \in Unsolved)
      <4> HIDE DEF Unsolved
      <4>1. QED BY <2>1, <2>3
    <3>2. PICK before : Solves(before, m - 1)
      BY <3>1
    <3> DEFINE pass == [k \in 0..m |-> IF k < m THEN before[k] ELSE Pass(before[k - 1], links)]
    <3>3. \A k \in 0..m : pass[k] = IF k = 0 THEN state ELSE Pass(pass[k - 1], links)
      BY <2>3, <3>2
    <3>4. Solves(pass, m)
      BY <3>3
    <3>5. QED BY <3>4
  <2>4. QED BY <2>2, <2>3
<1>2. QED BY <1>1

(* A query of the assumption, in the words of the proofs.                  *)
LEMMA QueryParts ==
  ASSUME NEW rep, IsQuery(rep)
  PROVE  /\ Len(rep.links) \in Nat /\ DOMAIN rep.links = 1..Len(rep.links)
         /\ Len(rep.groups) \in Nat /\ DOMAIN rep.groups = 1..Len(rep.groups)
         /\ Head(rep.tables) \in Range(rep.tables)
         /\ \A i \in 1..Len(rep.links) : {rep.links[i].st, rep.links[i].dt} \subseteq Range(rep.tables)
<1>1. ASSUME NEW s, s \in Seq(Range(s))
      PROVE  Len(s) \in Nat /\ DOMAIN s = 1..Len(s) /\ (s # <<>> => Head(s) \in Range(s))
  <2> DEFINE T == Range(s)
  <2>1. s \in Seq(T)
    BY <1>1
  <2>2. Range(s) = T
    OBVIOUS
  <2> HIDE DEF T
  <2>3. QED BY <2>1, <2>2, SeqParts
<1>2. Len(rep.links) \in Nat /\ DOMAIN rep.links = 1..Len(rep.links)
  BY <1>1 DEF IsQuery
<1>3. Len(rep.groups) \in Nat /\ DOMAIN rep.groups = 1..Len(rep.groups)
  BY <1>1 DEF IsQuery
<1>4. Head(rep.tables) \in Range(rep.tables)
  BY <1>1 DEF IsQuery
<1>5. \A i \in 1..Len(rep.links) : {rep.links[i].st, rep.links[i].dt} \subseteq Range(rep.tables)
  <2>1. \A i \in 1..Len(rep.links) : rep.links[i] \in Range(rep.links)
    BY <1>2 DEF Range
  <2>2. QED BY <2>1 DEF IsQuery
<1>6. QED BY <1>2, <1>3, <1>4, <1>5

(* After as many passes as there are links, no link is left that could     *)
(* still bring in a table.                                                 *)
LEMMA PassesSettle ==
  ASSUME NEW rep, IsQuery(rep)
  PROVE  \E state : /\ Joins(rep) = state.joins /\ Reached(state, rep)
                    /\ \A i \in 1..Len(rep.links) : Idle(rep.links, i, state.placed)
<1> DEFINE n == Len(rep.links)
           links == rep.links
           start == [placed |-> {Head(rep.tables)}, joins |-> {}]
           pass == CHOOSE g : g = [k \in 0..Len(links) |-> IF k = 0 THEN start ELSE Pass(g[k - 1], links)]
           Still(s) == \A i \in 1..n : Idle(links, i, s.placed)
<1>1. n \in Nat
  BY QueryParts
<1>2. pass = [k \in 0..n |-> IF k = 0 THEN start ELSE Pass(pass[k - 1], links)]
  <2> HIDE DEF start
  <2>1. QED BY <1>1, PassesExist
<1>3. Joins(rep) = pass[n].joins
  BY DEF Joins
<1> HIDE DEF pass
<1>4. pass[0] = start /\ \A k \in 1..n : pass[k] = Pass(pass[k - 1], links)
  <2> HIDE DEF n, links, start
  <2>1. \A k \in 0..n : pass[k] = IF k = 0 THEN start ELSE Pass(pass[k - 1], links)
    BY <1>2
  <2>2. QED BY <1>1, <2>1
<1>5. Reached(start, rep)
  BY QueryParts DEF Reached
<1> DEFINE Good(k) == Reached(pass[k], rep) /\ (Still(pass[k]) \/ Cardinality(pass[k].joins) >= k)
           Bad == {k \in 0..n : ~Good(k)}
<1>6. \A s : Reached(s, rep) => IsFiniteSet(s.joins) /\ Cardinality(s.joins) \in Nat
                                /\ (Cardinality(s.joins) >= n => s.joins = 1..n)
  <2> SUFFICES ASSUME NEW s, Reached(s, rep)
               PROVE  IsFiniteSet(s.joins) /\ Cardinality(s.joins) \in Nat
                      /\ (Cardinality(s.joins) >= n => s.joins = 1..n)
    OBVIOUS
  <2>1. s.joins \in SUBSET (1..n)
    BY DEF Reached
  <2> HIDE DEF n
  <2>2. IsFiniteSet(1..n) /\ Cardinality(1..n) = n
    BY <1>1, FS_Interval
  <2>3. /\ IsFiniteSet(s.joins) /\ Cardinality(s.joins) <= n
        /\ Cardinality(1..n) = Cardinality(s.joins) => 1..n = s.joins
    BY <2>1, <2>2, FS_Subset
  <2>4. Cardinality(s.joins) \in Nat
    BY <2>3, FS_CardinalityType
  <2>5. QED BY <1>1, <2>2, <2>3, <2>4
<1>7. ASSUME Bad # {} PROVE FALSE
  <2>1. PICK k \in Bad : k > 0 => k - 1 \in Nat \ Bad
    <3> HIDE DEF Bad
    <3>1. Bad \in SUBSET Nat
      BY DEF Bad
    <3>2. QED BY <1>7, <3>1, LeastNumber
  <2>2. CASE k = 0
    <3>1. Reached(pass[0], rep)
      BY <1>4, <1>5
    <3>2. Cardinality(pass[0].joins) \in Nat
      BY <1>6, <3>1
    <3>3. Cardinality(pass[0].joins) >= 0
      BY <3>2
    <3>4. Good(k)
      BY <2>2, <3>1, <3>3
    <3>5. QED BY <3>4
  <2>3. CASE k > 0
    <3>1. k \in 1..n /\ k - 1 \in 0..n /\ ~(k - 1 \in Bad)
      <4>1. k \in 0..n
        OBVIOUS
      <4> HIDE DEF Bad
      <4>2. QED BY <1>1, <2>1, <2>3, <4>1
    <3>2. Good(k - 1)
      BY <3>1
    <3> DEFINE before == pass[k - 1]
    <3>3. Reached(before, rep) /\ (Still(before) \/ Cardinality(before.joins) >= k - 1)
      BY <3>2
    <3>4. pass[k] = Pass(before, links)
      BY <1>4, <3>1
    <3> HIDE DEF before
    <3>5. /\ Reached(pass[k], rep) /\ before.joins \subseteq pass[k].joins
          /\ (pass[k] = before /\ Still(before)) \/ pass[k].joins # before.joins
          /\ Still(before) => pass[k] = before
      <4>1. \A i \in 1..Len(rep.links) : {rep.links[i].st, rep.links[i].dt} \subseteq Range(rep.tables)
        BY QueryParts
      <4>2. QED BY <1>1, <3>3, <3>4, <4>1, PassKeeps
    <3>6. Good(k)
      <4>1. CASE Still(before)
        BY <3>5, <4>1
      <4>2. CASE ~Still(before)
        <5>1. before.joins \subseteq pass[k].joins /\ pass[k].joins # before.joins
          BY <3>5, <4>2
        <5>2. IsFiniteSet(pass[k].joins) /\ Cardinality(pass[k].joins) \in Nat /\ Cardinality(before.joins) \in Nat
          BY <1>6, <3>3, <3>5
        <5>3. /\ Cardinality(before.joins) <= Cardinality(pass[k].joins)
              /\ Cardinality(before.joins) # Cardinality(pass[k].joins)
          BY <5>1, <5>2, FS_Subset
        <5>4. k \in Nat /\ Cardinality(before.joins) >= k - 1
          BY <3>1, <3>3, <4>2
        <5>5. QED BY <3>5, <5>2, <5>3, <5>4
      <4>3. QED BY <4>1, <4>2
    <3>7. QED BY <3>6
  <2>4. k \in Nat
    BY <1>1
  <2>5. QED BY <2>2, <2>3, <2>4
<1>8. Good(n)
  <2>1. n \in 0..n
    BY <1>1
  <2>2. QED BY <1>7, <2>1
<1>9. ASSUME pass[n].joins = 1..n PROVE Still(pass[n])
  BY <1>8, <1>9 DEF Reached, Idle, Crosses
<1>10. Still(pass[n])
  BY <1>6, <1>8, <1>9
<1>11. QED BY <1>3, <1>8, <1>10

(* Of a tree every link is a join.                                         *)
LEMMA TreeIsJoined ==
  ASSUME NEW rep, IsQuery(rep), Tree(rep.links, rep.tables)
  PROVE  Joins(rep) = 1..Len(rep.links)
<1> DEFINE parts == {p \in SUBSET Range(rep.tables) : Head(rep.tables) \in p}
<1>1. PICK state : /\ Joins(rep) = state.joins /\ Reached(state, rep)
                   /\ \A i \in 1..Len(rep.links) : Idle(rep.links, i, state.placed)
  BY PassesSettle
<1>2. /\ DOMAIN rep.links = 1..Len(rep.links)
      /\ \A i \in 1..Len(rep.links) : {rep.links[i].st, rep.links[i].dt} \subseteq Range(rep.tables)
  BY QueryParts
<1>3. /\ \A p \in parts \ {Range(rep.tables)} : \E l \in Range(rep.links) : Crosses(l, p)
      /\ \A i \in 1..Len(rep.links) : \E p \in parts : Bridges(rep.links, i, p)
  BY <1>2 DEF Tree, Bridges
<1>4. state.placed \in parts
  BY <1>1 DEF Reached
<1>5. state.placed = Range(rep.tables)
  <2>1. \A l \in Range(rep.links) : \E i \in 1..Len(rep.links) : l = rep.links[i]
    BY <1>2 DEF Range
  <2>2. \A l \in Range(rep.links) : ~Crosses(l, state.placed)
    BY <1>1, <2>1 DEF Idle
  <2>3. QED BY <1>3, <1>4, <2>2
<1>6. ASSUME NEW i \in 1..Len(rep.links), i \notin state.joins PROVE FALSE
  <2>1. PICK p \in parts : Bridges(rep.links, i, p)
    BY <1>3
  <2>2. state.placed \subseteq p
    BY <1>1, <1>6, <2>1 DEF Reached
  <2>3. rep.links[i].st \in p /\ rep.links[i].dt \in p
    BY <1>2, <1>5, <2>2
  <2>4. QED BY <2>1, <2>3 DEF Bridges, Crosses
<1>7. QED BY <1>1, <1>6 DEF Reached

-----------------------------------------------------------------------------
(* What the steps on the SQL do to its answer.                             *)
LEMMA GenerateReads ==
  ASSUME NEW rep, IsQuery(rep), Tree(rep.links, rep.tables), NEW generated
  PROVE  /\ Generate(rep, generated).shown = [f \in Linked(rep) |-> Shown(rep, f)]
         /\ Generate(rep, generated).where = <<>>
<1> DEFINE from == {f \in Rows(rep) : \A i \in Joins(rep) : Satisfies(f, rep.links[i])}
<1>1. Joins(rep) = 1..Len(rep.links) /\ DOMAIN rep.links = 1..Len(rep.links)
  BY TreeIsJoined, QueryParts
<1>2. ASSUME NEW f PROVE (\A i \in Joins(rep) : Satisfies(f, rep.links[i])) <=> \A l \in Range(rep.links) : Satisfies(f, l)
  BY <1>1 DEF Range
<1>3. from = Linked(rep)
  BY <1>2 DEF Linked
<1>4. Generate(rep, generated).shown = [f \in from |-> Shown(rep, f)]
  BY DEF Generate
<1>5. Generate(rep, generated).where = <<>>
  BY DEF Generate
<1> HIDE DEF from
<1>6. QED BY <1>3, <1>4, <1>5

(* A WHERE of at most one alternative is narrowed to the selection.        *)
LEMMA FoldNarrows ==
  ASSUME NEW shown, NEW where, NEW order, NEW runs, NEW clauses,
         where = <<>> \/ (where # <<>> /\ DOMAIN where = {1} /\ Len(where) = 1)
  PROVE  LET text == [shown |-> shown, where |-> where, order |-> order, runs |-> runs]
         IN  Answer(Fold(text, clauses)) = Answer(text) \intersect Keeps(shown, clauses)
<1> DEFINE text == [shown |-> shown, where |-> where, order |-> order, runs |-> runs]
           keeps == Keeps(shown, clauses)
<1>1. text.shown = shown /\ text.where = where
  OBVIOUS
<1>2. keeps \subseteq DOMAIN shown
  BY DEF Keeps
<1>3. CASE where = <<>>
  <2>1. Fold(text, clauses) = [text EXCEPT !.where = <<keeps>>]
    BY <1>3 DEF Fold
  <2> HIDE DEF keeps
  <2>2. Fold(text, clauses).shown = shown /\ Fold(text, clauses).where = <<keeps>>
    BY <2>1
  <2>3. <<keeps>> # <<>> /\ DOMAIN <<keeps>> = {1} /\ <<keeps>>[1] = keeps
    OBVIOUS
  <2>4. Answer(Fold(text, clauses)) = {f \in DOMAIN shown : f \in keeps}
    BY <2>2, <2>3 DEF Answer
  <2>5. Answer(text) = DOMAIN shown
    BY <1>1, <1>3 DEF Answer
  <2>6. QED BY <1>2, <2>4, <2>5 DEF keeps
<1>4. CASE where # <<>> /\ DOMAIN where = {1} /\ Len(where) = 1
  <2>1. Fold(text, clauses) = [text EXCEPT !.where = [where EXCEPT ![1] = @ \intersect keeps]]
    BY <1>4 DEF Fold
  <2> DEFINE narrowed == [where EXCEPT ![1] = @ \intersect keeps]
  <2>2. DOMAIN narrowed = {1} /\ narrowed[1] = where[1] \intersect keeps
    BY <1>4
  <2>3. narrowed # <<>>
    <3> HIDE DEF narrowed
    <3>1. QED BY <2>2
  <2> HIDE DEF keeps, narrowed
  <2>4. Fold(text, clauses).shown = shown /\ Fold(text, clauses).where = narrowed
    BY <2>1 DEF narrowed
  <2>5. Answer(Fold(text, clauses)) = {f \in DOMAIN shown : f \in where[1] /\ f \in keeps}
    BY <2>2, <2>3, <2>4 DEF Answer
  <2>6. Answer(text) = {f \in DOMAIN shown : f \in where[1]}
    BY <1>1, <1>4 DEF Answer
  <2>7. QED BY <2>5, <2>6 DEF keeps
<1>5. QED BY <1>3, <1>4

Told(text) == [f \in Answer(text) |-> text.shown[f]]

LEMMA WrapAnswers ==
  ASSUME NEW rep, NEW text, NEW places, NEW runs
  PROVE  /\ Answer(Wrapped(rep, text, places, runs)) = Answer(text)
         /\ DOMAIN Wrapped(rep, text, places, runs).shown = Answer(text)
         /\ Wrapped(rep, text, places, runs).shown = Told(text)
         /\ Wrapped(rep, text, places, runs).where = <<>>
         /\ Wrapped(rep, text, places, runs).order = Terms(rep, Told(text), places)
         /\ DOMAIN Wrapped(rep, text, places, runs) = {"shown", "where", "order", "runs"}
<1> DEFINE rows == Answer(text)
           shown == Told(text)
           wrapped == Wrapped(rep, text, places, runs)
<1>1. wrapped = [shown |-> shown, where |-> <<>>, order |-> Terms(rep, shown, places), runs |-> runs]
  BY DEF Wrapped, Told
<1>2. DOMAIN shown = rows
  BY DEF Told
<1> HIDE DEF rows, wrapped, shown
<1>3. /\ wrapped.where = <<>> /\ wrapped.shown = shown /\ wrapped.order = Terms(rep, shown, places)
      /\ DOMAIN wrapped = {"shown", "where", "order", "runs"}
  BY <1>1
<1>4. Answer(wrapped) = rows
  BY <1>2, <1>3 DEF Answer
<1>5. QED BY <1>2, <1>3, <1>4 DEF rows, wrapped, shown

(* The passes of apply_topn, one group after the other.                    *)
Start(shown) == [shown |-> shown, place |-> << >>]
Stages(after, rep, shown, among, ops, n) ==
  after = [i \in 0..n |-> IF i = 0 THEN Start(shown) ELSE Stage(rep, among, after[i - 1], i, ops)]

LEMMA StagesExist ==
  ASSUME NEW rep, NEW shown, NEW among, NEW ops, NEW n \in Nat
  PROVE  \E after : Stages(after, rep, shown, among, ops, n)
<1> DEFINE start == Start(shown)
           Solves(after, m) == after = [i \in 0..m |-> IF i = 0 THEN start ELSE Stage(rep, among, after[i - 1], i, ops)]
           Unsolved == {m \in Nat : ~\E after : Solves(after, m)}
<1> HIDE DEF start
<1>1. ASSUME Unsolved # {} PROVE FALSE
  <2>1. PICK m \in Unsolved : m > 0 => m - 1 \in Nat \ Unsolved
    <3> HIDE DEF Unsolved
    <3>1. Unsolved \in SUBSET Nat
      BY DEF Unsolved
    <3>2. QED BY <1>1, <3>1, LeastNumber
  <2>2. CASE m = 0
    <3>1. Solves([i \in 0..0 |-> start], 0)
      OBVIOUS
    <3>2. QED BY <2>2, <3>1
  <2>3. CASE m > 0
    <3>1. m - 1 \in Nat /\ ~(m - 1 \in Unsolved)
      <4> HIDE DEF Unsolved
      <4>1. QED BY <2>1, <2>3
    <3>2. PICK before : Solves(before, m - 1)
      BY <3>1
    <3> DEFINE after == [i \in 0..m |-> IF i < m THEN before[i] ELSE Stage(rep, among, before[i - 1], i, ops)]
    <3>3. \A i \in 0..m : after[i] = IF i = 0 THEN start ELSE Stage(rep, among, after[i - 1], i, ops)
      BY <2>3, <3>2
    <3>4. Solves(after, m)
      BY <3>3
    <3>5. QED BY <3>4
  <2>4. QED BY <2>2, <2>3
<1>2. QED BY <1>1 DEF Stages, start

LEMMA StagesAgree ==
  ASSUME NEW rep, NEW shown, NEW among, NEW ops, NEW m \in Nat, NEW n \in Nat, m <= n,
         NEW a, NEW b, Stages(a, rep, shown, among, ops, m), Stages(b, rep, shown, among, ops, n)
  PROVE  a[m] = b[m]
<1> DEFINE Bad == {i \in 0..m : a[i] # b[i]}
           start == Start(shown)
<1>1. \A i \in 0..m : a[i] = IF i = 0 THEN start ELSE Stage(rep, among, a[i - 1], i, ops)
  <2> HIDE DEF start
  <2>1. a = [i \in 0..m |-> IF i = 0 THEN start ELSE Stage(rep, among, a[i - 1], i, ops)]
    BY DEF Stages, start
  <2>2. QED BY <2>1
<1>2. \A i \in 0..m : b[i] = IF i = 0 THEN start ELSE Stage(rep, among, b[i - 1], i, ops)
  <2> HIDE DEF start
  <2>1. b = [i \in 0..n |-> IF i = 0 THEN start ELSE Stage(rep, among, b[i - 1], i, ops)]
    BY DEF Stages, start
  <2>2. QED BY <2>1
<1> HIDE DEF start
<1>3. ASSUME Bad # {} PROVE FALSE
  <2>1. PICK i \in Bad : i > 0 => i - 1 \in Nat \ Bad
    <3> HIDE DEF Bad
    <3>1. Bad \in SUBSET Nat
      BY DEF Bad
    <3>2. QED BY <1>3, <3>1, LeastNumber
  <2>2. i \in 0..m /\ a[i] # b[i]
    OBVIOUS
  <2>3. CASE i = 0
    BY <1>1, <1>2, <2>2, <2>3
  <2>4. CASE i > 0
    <3>1. i - 1 \in 0..m /\ ~(i - 1 \in Bad)
      <4> HIDE DEF Bad
      <4>1. QED BY <2>1, <2>2, <2>4
    <3>2. a[i - 1] = b[i - 1]
      BY <3>1
    <3>3. QED BY <1>1, <1>2, <2>2, <2>4, <3>2
  <2>5. QED BY <2>2, <2>3, <2>4
<1>4. QED BY <1>3

LEMMA BucketsStepwise ==
  ASSUME NEW rep, NEW shown, NEW among, NEW ops, NEW n \in Nat
  PROVE  /\ Buckets(rep, shown, among, ops, 0) = Start(shown)
         /\ Buckets(rep, shown, among, ops, n + 1) =
              Stage(rep, among, Buckets(rep, shown, among, ops, n), n + 1, ops)
<1> DEFINE start == [shown |-> shown, place |-> << >>]
           After(m) == CHOOSE g : g = [i \in 0..m |-> IF i = 0 THEN start ELSE Stage(rep, among, g[i - 1], i, ops)]
<1>1. ASSUME NEW m \in Nat
      PROVE  /\ Buckets(rep, shown, among, ops, m) = After(m)[m]
             /\ Stages(After(m), rep, shown, among, ops, m)
  <2>1. Buckets(rep, shown, among, ops, m) = After(m)[m]
    BY DEF Buckets
  <2>2. After(m) = [i \in 0..m |-> IF i = 0 THEN start ELSE Stage(rep, among, After(m)[i - 1], i, ops)]
    <3>1. PICK g : Stages(g, rep, shown, among, ops, m)
      BY StagesExist
    <3>2. g = [i \in 0..m |-> IF i = 0 THEN start ELSE Stage(rep, among, g[i - 1], i, ops)]
      BY <3>1 DEF Stages, Start
    <3> HIDE DEF start
    <3>3. QED BY <3>2
  <2> HIDE DEF After
  <2>3. QED BY <2>1, <2>2 DEF Stages, Start
<1> HIDE DEF After
<1>2. Buckets(rep, shown, among, ops, 0) = Start(shown)
  BY <1>1 DEF Stages
<1>3. After(n + 1)[n + 1] = Stage(rep, among, After(n + 1)[n], n + 1, ops)
  <2> DEFINE last == n + 1
             after == After(last)
             begin == Start(shown)
  <2>1. last \in Nat
    OBVIOUS
  <2>2. after = [i \in 0..last |-> IF i = 0 THEN begin ELSE Stage(rep, among, after[i - 1], i, ops)]
    BY <1>1, <2>1 DEF Stages
  <2> HIDE DEF after, begin
  <2>3. QED BY <2>2 DEF after
<1>4. After(n + 1)[n] = After(n)[n]
  <2>1. n + 1 \in Nat /\ n <= n + 1
    OBVIOUS
  <2>2. Stages(After(n), rep, shown, among, ops, n) /\ Stages(After(n + 1), rep, shown, among, ops, n + 1)
    BY <1>1, <2>1
  <2>3. QED BY <2>1, <2>2, StagesAgree
<1>5. QED BY <1>1, <1>2, <1>3, <1>4

(* The passes show the same rows, with what is not among the ranked        *)
(* columns as it was, and a ranked one as it was until its pass.           *)
LEMMA BucketsKeepRows ==
  ASSUME NEW rep, NEW n \in Nat, NEW shown, NEW among, NEW ops
  PROVE  DOMAIN Buckets(rep, shown, among, ops, n).shown = DOMAIN shown
<1> DEFINE After(i) == Buckets(rep, shown, among, ops, i)
           Bad == {i \in 0..n : DOMAIN After(i).shown # DOMAIN shown}
<1>1. After(0).shown = shown
  BY BucketsStepwise DEF Start
<1>2. \A i \in Nat : After(i + 1) = Stage(rep, among, After(i), i + 1, ops)
  BY BucketsStepwise
<1>3. ASSUME NEW state, NEW i
      PROVE  DOMAIN Stage(rep, among, state, i, ops).shown = DOMAIN state.shown
  BY DEF Stage, Bucket
<1> HIDE DEF After
<1>4. ASSUME Bad # {} PROVE FALSE
  <2>1. PICK i \in Bad : i > 0 => i - 1 \in Nat \ Bad
    <3> HIDE DEF Bad
    <3>1. Bad \in SUBSET Nat
      BY DEF Bad
    <3>2. QED BY <1>4, <3>1, LeastNumber
  <2>2. i \in 0..n
    OBVIOUS
  <2>3. CASE i = 0
    BY <1>1, <2>1, <2>3
  <2>4. CASE i > 0
    <3>1. i - 1 \in Nat /\ i - 1 \in 0..n /\ ~(i - 1 \in Bad)
      <4> HIDE DEF Bad
      <4>1. QED BY <2>1, <2>2, <2>4
    <3>2. DOMAIN After(i - 1).shown = DOMAIN shown
      BY <3>1
    <3>3. After(i) = Stage(rep, among, After(i - 1), i, ops)
      <4>1. After((i - 1) + 1) = Stage(rep, among, After(i - 1), (i - 1) + 1, ops)
        BY <1>2, <3>1
      <4>2. (i - 1) + 1 = i
        BY <2>2
      <4>3. QED BY <4>1, <4>2
    <3>4. DOMAIN After(i).shown = DOMAIN shown
      BY <1>3, <3>2, <3>3
    <3>5. QED BY <3>4
  <2>5. QED BY <2>2, <2>3, <2>4
<1>5. n \in 0..n
  OBVIOUS
<1>6. DOMAIN After(n).shown = DOMAIN shown
  BY <1>4, <1>5
<1>7. QED BY <1>6 DEF After

LEMMA TopNAnswers ==
  ASSUME NEW rep, Len(rep.groups) \in Nat, NEW text
  PROVE  Answer(WithTopN(rep, text)) = Answer(text)
<1>1. Answer(RolledUp(rep, text)) = Answer(text)
  <2> DEFINE inner == Wrapped(rep, text, {}, TRUE)
             shown == Buckets(rep, inner.shown, Rankable(rep), OwnOps(rep), Len(rep.groups)).shown
  <2>1. RolledUp(rep, text).shown = shown /\ RolledUp(rep, text).where = <<>>
    BY DEF RolledUp
  <2>2. DOMAIN inner.shown = Answer(text)
    <3> HIDE DEF shown
    <3>1. PICK runs : inner = Wrapped(rep, text, {}, runs)
      OBVIOUS
    <3> HIDE DEF inner
    <3>2. QED BY <3>1, WrapAnswers
  <2> HIDE DEF inner
  <2>3. DOMAIN shown = DOMAIN inner.shown
    BY BucketsKeepRows
  <2> HIDE DEF shown
  <2>4. QED BY <2>1, <2>2, <2>3 DEF Answer
<1>2. Answer(OrderedOnly(rep, text)) = Answer(text)
  <2>1. \E runs, order : OrderedOnly(rep, text) = [Wrapped(rep, text, Known(rep), runs) EXCEPT !.order = order]
    BY DEF OrderedOnly
  <2>2. PICK runs, order : OrderedOnly(rep, text) = [Wrapped(rep, text, Known(rep), runs) EXCEPT !.order = order]
    BY <2>1
  <2> DEFINE inner == Wrapped(rep, text, Known(rep), runs)
  <2>3. DOMAIN inner.shown = Answer(text) /\ inner.where = <<>>
    BY WrapAnswers
  <2> HIDE DEF inner
  <2>4. OrderedOnly(rep, text).shown = inner.shown /\ OrderedOnly(rep, text).where = <<>>
    BY <2>2, <2>3 DEF inner
  <2>5. QED BY <2>3, <2>4 DEF Answer
<1>3. QED BY <1>1, <1>2 DEF WithTopN

-----------------------------------------------------------------------------
(* The rows that the author's query and the record selection both keep.    *)
BaseSql == IF dump.query.command = NoCommand THEN Generate(dump.query, FALSE) ELSE Command(dump.query)
SelectionAsked ==
  AuthorsRows \intersect Keeps([f \in Linked(dump.query) |-> Shown(dump.query, f)], dump.query.selection)
Foldless == Tree(dump.query.links, dump.query.tables)
            /\ (dump.query.command = NoCommand \/ Len(dump.query.command) <= 1)

LEMMA FoldedBase ==
  ASSUME IsQuery(dump.query), Foldless
  PROVE  Answer(Fold(BaseSql, dump.query.selection)) = SelectionAsked
<1> DEFINE q == dump.query
           shown == [f \in Linked(q) |-> Shown(q, f)]
           clauses == q.selection
<1>1. CASE q.command = NoCommand
  <2> DEFINE text == Generate(q, FALSE)
  <2>1. text.shown = shown /\ text.where = <<>>
    BY GenerateReads DEF Foldless
  <2>2. \E order, runs : text = [shown |-> shown, where |-> <<>>, order |-> order, runs |-> runs]
    <3>1. \E s, order, runs : text = [shown |-> s, where |-> <<>>, order |-> order, runs |-> runs]
      BY DEF Generate
    <3> HIDE DEF text, shown
    <3>2. QED BY <2>1, <3>1
  <2> HIDE DEF text, shown, clauses
  <2>3. Answer(Fold(text, clauses)) = Answer(text) \intersect Keeps(shown, clauses)
    BY <2>2, FoldNarrows
  <2>4. Answer(text) = DOMAIN shown
    BY <2>1 DEF Answer
  <2>5. BaseSql = text /\ AuthorsRows = DOMAIN shown
    BY <1>1 DEF BaseSql, AuthorsRows, text, shown
  <2>6. SelectionAsked = AuthorsRows \intersect Keeps(shown, clauses)
    BY DEF SelectionAsked, shown, clauses
  <2>7. QED BY <2>3, <2>4, <2>5, <2>6 DEF clauses
<1>2. CASE q.command # NoCommand
  <2> DEFINE text == Command(q)
             where == [i \in DOMAIN q.command |->
                         {f \in DOMAIN shown : \A c \in DOMAIN q.command[i] : shown[f][c] \in q.command[i][c]}]
  <2>1. \E order : text = [shown |-> shown, where |-> where, order |-> order, runs |-> TRUE]
    BY DEF Command
  <2>2. where = <<>> \/ (where # <<>> /\ DOMAIN where = {1} /\ Len(where) = 1)
    <3> DEFINE T == Range(q.command)
    <3>1. q.command \in Seq(T)
      BY <1>2 DEF IsQuery
    <3> HIDE DEF T, shown, where
    <3>2. Len(q.command) \in {0, 1} /\ DOMAIN q.command = 1..Len(q.command)
      <4>1. Len(q.command) \in Nat /\ DOMAIN q.command = 1..Len(q.command)
        BY <3>1, SeqParts
      <4>2. Len(q.command) <= 1
        BY <1>2 DEF Foldless
      <4> DEFINE size == Len(q.command)
      <4>3. size \in Nat /\ size <= 1
        BY <4>1, <4>2
      <4> HIDE DEF size
      <4>4. size \in {0, 1}
        BY ONLY <4>3
      <4>5. QED BY <4>1, <4>4 DEF size
    <3>3. CASE Len(q.command) = 0
      <4>1. DOMAIN q.command = {}
        BY <3>2, <3>3
      <4>2. QED BY <4>1 DEF where
    <3>4. CASE Len(q.command) = 1
      <4>1. DOMAIN q.command = 1..1
        BY <3>2, <3>4
      <4>2. \E v : where = [i \in 1..1 |-> v[i]]
        <5>1. where = [i \in 1..1 |-> where[i]]
          BY <4>1 DEF where
        <5>2. QED BY <5>1
      <4>3. QED BY <4>2
    <3>5. QED BY <3>2, <3>3, <3>4
  <2> HIDE DEF text, shown, clauses, where
  <2>3. PICK order : text = [shown |-> shown, where |-> where, order |-> order, runs |-> TRUE]
    BY <2>1
  <2>4. Answer(Fold(text, clauses)) = Answer(text) \intersect Keeps(shown, clauses)
    BY <2>2, <2>3, FoldNarrows
  <2>5. BaseSql = text /\ AuthorsRows = Answer(text)
    BY <1>2 DEF BaseSql, AuthorsRows, text
  <2>6. SelectionAsked = AuthorsRows \intersect Keeps(shown, clauses)
    BY DEF SelectionAsked, shown, clauses
  <2>7. QED BY <2>4, <2>5, <2>6 DEF clauses
<1>3. QED BY <1>1, <1>2

(* What has been made of the query: the SQL of the base first, then one    *)
(* that answers with the rows asked for, if the selection was folded.      *)
QueryInv ==
  /\ dump \in Dumps
  /\ step = "select" => sql = BaseSql
  /\ step \in {"window", "rank", "stack"} /\ folded /\ Foldless => Answer(sql) = SelectionAsked

LEMMA QueryInvStep == QueryInv /\ [ReportNext]_reportVars => QueryInv'
<1> SUFFICES ASSUME QueryInv, [ReportNext]_reportVars PROVE QueryInv'
  OBVIOUS
<1>1. IsQuery(dump.query)
  BY DumpsAssumption DEF QueryInv
<1>2. ASSUME dump' = dump
      PROVE  /\ BaseSql' = BaseSql /\ SelectionAsked' = SelectionAsked /\ Foldless' = Foldless
  BY <1>2 DEF BaseSql, SelectionAsked, AuthorsRows, Foldless
<1>3. CASE Parse
  BY <1>3 DEF Parse, QueryInv
<1>4. CASE TranslateAll
  BY <1>4 DEF TranslateAll, Goes, QueryInv
<1>5. CASE Query
  <2>1. dump' = dump /\ step' = "select" /\ sql' = BaseSql
    BY <1>5 DEF Query, Goes, BaseSql
  <2>2. QED BY <1>2, <2>1 DEF QueryInv
<1>6. CASE Select
  <2>1. /\ dump' = dump /\ step = "select" /\ step' = "window" /\ folded' = Folds(dump.query)
        /\ sql' = IF Folds(dump.query) THEN Fold(sql, dump.query.selection) ELSE sql
    BY <1>6 DEF Select, Goes
  <2>2. ASSUME folded', Foldless PROVE Answer(sql)' = SelectionAsked
    <3>1. sql' = Fold(BaseSql, dump.query.selection)
      BY <2>1, <2>2 DEF QueryInv
    <3>2. Answer(sql)' = Answer(sql')
      BY DEF Answer
    <3>3. QED BY <1>1, <2>2, <3>1, <3>2, FoldedBase
  <2>3. QED BY <1>2, <2>1, <2>2 DEF QueryInv
<1>7. ASSUME dump' = dump, folded' = folded, step \in {"window", "rank"}, step' \in {"rank", "stack"},
             Answer(sql') = Answer(sql)
      PROVE  QueryInv'
  <2>1. Answer(sql)' = Answer(sql')
    BY DEF Answer
  <2>2. QED BY <1>2, <1>7, <2>1 DEF QueryInv
<1>8. CASE Window
  <2>1. Answer(WithWindow(dump.query, sql)) = Answer(sql)
    BY WrapAnswers DEF WithWindow
  <2>2. QED BY <1>7, <1>8, <2>1 DEF Window, Goes
<1>9. CASE Rank
  <2>1. Len(dump.query.groups) \in Nat
    BY <1>1, QueryParts
  <2>2. Answer(WithTopN(dump.query, sql)) = Answer(sql)
    BY <2>1, TopNAnswers
  <2>3. sql' = IF Rankable(dump.query) # {} THEN WithTopN(dump.query, sql) ELSE sql
    BY <1>9 DEF Rank
  <2>4. Answer(sql') = Answer(sql)
    BY <2>2, <2>3
  <2>5. dump' = dump /\ folded' = folded /\ step = "rank" /\ step' = "stack"
    BY <1>9 DEF Rank, Goes
  <2>6. QED BY <1>7, <2>4, <2>5
<1>10. CASE Stack
  BY <1>10 DEF Stack, Goes, QueryInv
<1>11. CASE Fit
  BY <1>11 DEF Fit, Goes, QueryInv
<1>12. CASE Write
  <2>1. dump' = dump /\ step' \in {"over", "triage"}
    BY <1>12 DEF Write, Goes
  <2>2. QED BY <2>1 DEF QueryInv
<1>13. CASE Triage
  BY <1>13 DEF Triage, Goes, QueryInv
<1>14. CASE UNCHANGED reportVars
  <2>1. UNCHANGED <<dump, step, sql, folded>>
    BY <1>14 DEF reportVars
  <2>2. Answer(sql)' = Answer(sql)
    BY <2>1 DEF Answer
  <2>3. QED BY <1>2, <2>1, <2>2 DEF QueryInv
<1>15. QED BY <1>3, <1>4, <1>5, <1>6, <1>8, <1>9, <1>10, <1>11, <1>12, <1>13, <1>14 DEF ReportNext

LEMMA QueryInvSuffices == QueryInv => QueryKeepsTheRows
<1> SUFFICES ASSUME QueryInv PROVE LinksAreHonoured /\ FoldKeepsSelection
  BY DEF QueryKeepsTheRows
<1>1. IsQuery(dump.query)
  BY DumpsAssumption DEF QueryInv
<1>2. LinksAreHonoured
  <2> SUFFICES ASSUME step = "select", dump.query.command = NoCommand, Tree(dump.query.links, dump.query.tables)
               PROVE  DOMAIN sql.shown = Linked(dump.query)
    BY DEF LinksAreHonoured
  <2>1. sql = Generate(dump.query, FALSE)
    BY DEF QueryInv, BaseSql
  <2>2. sql.shown = [f \in Linked(dump.query) |-> Shown(dump.query, f)]
    BY <1>1, <2>1, GenerateReads
  <2>3. QED BY <2>2
<1>3. FoldKeepsSelection
  BY DEF FoldKeepsSelection, QueryInv, Queried, Foldless, SelectionAsked
<1>4. QED BY <1>2, <1>3

(* Of any tables, links, clauses and groups: a generated query joins on    *)
(* every link of a report whose links are a tree, and a record selection   *)
(* that try_fold_record_selection folded keeps the author's rows that      *)
(* satisfy it, through the wraps of apply_window_columns and apply_topn.   *)
THEOREM QueryTheorem == ReportSpec => []QueryKeepsTheRows
<1>1. ReportInit => QueryInv
  BY DEF ReportInit, QueryInv
<1>2. QED BY <1>1, QueryInvStep, QueryInvSuffices, PTL DEF ReportSpec

-----------------------------------------------------------------------------
(* Numbers: a finite set of them has a first and a last, and sums to one.  *)
LEMMA EndsExist ==
  ASSUME NEW S \in SUBSET Int, IsFiniteSet(S), S # {}
  PROVE  /\ \E x \in S : \A y \in S : x >= y
         /\ \E x \in S : \A y \in S : x =< y
<1> DEFINE Ends(T) == (\E x \in T : \A y \in T : x >= y) /\ (\E x \in T : \A y \in T : x =< y)
           Bad == {n \in Nat : \E T \in SUBSET S : T # {} /\ Cardinality(T) = n /\ ~Ends(T)}
<1>1. ASSUME Bad # {} PROVE FALSE
  <2>1. PICK n \in Bad : n > 0 => n - 1 \in Nat \ Bad
    <3> HIDE DEF Bad
    <3>1. Bad \in SUBSET Nat
      BY DEF Bad
    <3>2. QED BY <1>1, <3>1, LeastNumber
  <2>2. PICK T \in SUBSET S : T # {} /\ Cardinality(T) = n /\ ~Ends(T)
    OBVIOUS
  <2>3. PICK x \in T : TRUE
    BY <2>2
  <2> DEFINE rest == T \ {x}
  <2>4. IsFiniteSet(T)
    BY FS_Subset
  <2>5. Cardinality(rest) = n - 1 /\ Cardinality(rest) \in Nat /\ n \in Nat
    BY <2>2, <2>3, <2>4, FS_RemoveElement, FS_CardinalityType
  <2>6. rest # {}
    <3>1. rest = {} => T = {x}
      BY <2>3
    <3>2. Ends({x})
      BY <2>2, <2>3
    <3>3. QED BY <2>2, <3>1, <3>2
  <2>7. Ends(rest)
    <3>1. n - 1 \in Nat /\ n > 0
      BY <2>5
    <3>2. ~(n - 1 \in Bad)
      <4> HIDE DEF Bad
      <4>1. QED BY <2>1, <3>1
    <3>3. rest \in SUBSET S
      OBVIOUS
    <3> HIDE DEF Ends, rest
    <3>4. QED BY <2>5, <2>6, <3>1, <3>2, <3>3
  <2>8. T = rest \union {x} /\ x \in Int /\ rest \subseteq Int
    BY <2>2, <2>3
  <2>9. Ends(T)
    <3> HIDE DEF rest
    <3>1. PICK top \in rest : \A y \in rest : top >= y
      BY <2>7
    <3>2. PICK low \in rest : \A y \in rest : low =< y
      BY <2>7
    <3>3. \E t \in T : \A y \in T : t >= y
      <4>1. CASE x >= top
        BY <2>8, <3>1, <4>1
      <4>2. CASE ~(x >= top)
        BY <2>8, <3>1, <4>2
      <4>3. QED BY <4>1, <4>2
    <3>4. \E t \in T : \A y \in T : t =< y
      <4>1. CASE x =< low
        BY <2>8, <3>2, <4>1
      <4>2. CASE ~(x =< low)
        BY <2>8, <3>2, <4>2
      <4>3. QED BY <4>1, <4>2
    <3>5. QED BY <3>3, <3>4
  <2>10. QED BY <2>2, <2>9
<1>2. Cardinality(S) \in Nat /\ ~(Cardinality(S) \in Bad)
  BY <1>1, FS_CardinalityType
<1>3. Ends(S)
  <2> HIDE DEF Ends
  <2>1. QED BY <1>2
<1>4. QED BY <1>3

AnyOf(s) == CHOOSE x \in s : TRUE
Sizes(S, n) == {t \in SUBSET S : Cardinality(t) <= n}
Sums(sum, S, shown, m, n) ==
  /\ sum = [s \in Sizes(S, n) |-> IF s = {} THEN 0 ELSE shown[AnyOf(s)][m] + sum[s \ {AnyOf(s)}]]
  /\ \A s \in Sizes(S, n) : sum[s] \in Int

LEMMA SumsExist ==
  ASSUME NEW S, IsFiniteSet(S), NEW shown, NEW m, \A f \in S : shown[f][m] \in Int, NEW n \in Nat
  PROVE  \E sum : Sums(sum, S, shown, m, n)
<1> DEFINE Unsolved == {k \in Nat : ~\E sum : Sums(sum, S, shown, m, k)}
<1>1. ASSUME NEW s \in SUBSET S, s # {}
      PROVE  /\ AnyOf(s) \in s /\ s \ {AnyOf(s)} \in SUBSET S
             /\ Cardinality(s) \in Nat /\ Cardinality(s) > 0 /\ Cardinality(s \ {AnyOf(s)}) = Cardinality(s) - 1
  <2>1. IsFiniteSet(s)
    BY FS_Subset
  <2>2. AnyOf(s) \in s
    BY <1>1 DEF AnyOf
  <2>3. Cardinality(s) \in Nat /\ Cardinality(s) # 0
    BY <1>1, <2>1, FS_CardinalityType, FS_EmptySet
  <2>4. Cardinality(s \ {AnyOf(s)}) = Cardinality(s) - 1
    BY <2>1, <2>2, FS_RemoveElement
  <2>5. QED BY <2>2, <2>3, <2>4
<1>2. ASSUME Unsolved # {} PROVE FALSE
  <2>1. PICK k \in Unsolved : k > 0 => k - 1 \in Nat \ Unsolved
    <3> HIDE DEF Unsolved
    <3>1. Unsolved \in SUBSET Nat
      BY DEF Unsolved
    <3>2. QED BY <1>2, <3>1, LeastNumber
  <2>2. CASE k = 0
    <3> DEFINE sum == [s \in Sizes(S, 0) |-> 0]
    <3>1. ASSUME NEW s \in Sizes(S, 0) PROVE s = {}
      <4>1. s \in SUBSET S /\ Cardinality(s) <= 0
        BY DEF Sizes
      <4>2. ASSUME s # {} PROVE Cardinality(s) \in Nat /\ Cardinality(s) > 0
        BY <1>1, <4>1, <4>2
      <4>3. QED BY <4>1, <4>2
    <3>2. sum = [s \in Sizes(S, 0) |-> IF s = {} THEN 0 ELSE shown[AnyOf(s)][m] + sum[s \ {AnyOf(s)}]]
      BY <3>1
    <3>3. \A s \in Sizes(S, 0) : sum[s] \in Int
      OBVIOUS
    <3> HIDE DEF sum
    <3>4. Sums(sum, S, shown, m, 0)
      BY <3>2, <3>3 DEF Sums
    <3>5. QED BY <2>2, <3>4
  <2>3. CASE k > 0
    <3>1. k - 1 \in Nat /\ ~(k - 1 \in Unsolved)
      <4> HIDE DEF Unsolved
      <4>1. QED BY <2>1, <2>3
    <3>2. PICK before : Sums(before, S, shown, m, k - 1)
      BY <3>1
    <3> DEFINE Next(s) == IF s = {} THEN 0 ELSE shown[AnyOf(s)][m] + before[s \ {AnyOf(s)}]
               sum == [s \in Sizes(S, k) |-> Next(s)]
    <3>3. \A s \in Sizes(S, k - 1) : before[s] = Next(s) /\ before[s] \in Int
      BY <3>2 DEF Sums
    <3>4. Sizes(S, k - 1) \subseteq Sizes(S, k)
      <4>1. \A t \in SUBSET S : Cardinality(t) \in Nat
        BY FS_Subset, FS_CardinalityType
      <4>2. QED BY <2>3, <4>1 DEF Sizes
    <3>5. ASSUME NEW s \in Sizes(S, k), s # {}
          PROVE  s \ {AnyOf(s)} \in Sizes(S, k - 1) /\ shown[AnyOf(s)][m] \in Int
      BY <1>1, <3>5 DEF Sizes
    <3>6. ASSUME NEW s \in Sizes(S, k) PROVE Next(s) \in Int
      <4>1. CASE s = {}
        BY <4>1
      <4>2. CASE s # {}
        <5>1. before[s \ {AnyOf(s)}] \in Int /\ shown[AnyOf(s)][m] \in Int
          BY <3>3, <3>5, <4>2
        <5>2. QED BY <4>2, <5>1
      <4>3. QED BY <4>1, <4>2
    <3>7. \A s \in Sizes(S, k - 1) : sum[s] = before[s]
      BY <3>3, <3>4
    <3>8. \A s \in Sizes(S, k) : s # {} => sum[s \ {AnyOf(s)}] = before[s \ {AnyOf(s)}]
      BY <3>5, <3>7
    <3>9. sum = [s \in Sizes(S, k) |-> IF s = {} THEN 0 ELSE shown[AnyOf(s)][m] + sum[s \ {AnyOf(s)}]]
      <4>1. \A s \in Sizes(S, k) : Next(s) = IF s = {} THEN 0 ELSE shown[AnyOf(s)][m] + sum[s \ {AnyOf(s)}]
        BY <3>8
      <4>2. QED BY <4>1
    <3>10. \A s \in Sizes(S, k) : sum[s] \in Int
      BY <3>6
    <3> HIDE DEF sum
    <3>11. QED BY <3>9, <3>10 DEF Sums
  <2>4. QED BY <2>2, <2>3
<1>3. QED BY <1>2

LEMMA SumIsInt ==
  ASSUME NEW S, IsFiniteSet(S), NEW shown, NEW m, \A f \in S : shown[f][m] \in Int
  PROVE  Aggregate("Sum", shown, S, m) \in Int
<1> DEFINE n == Cardinality(S)
           sum == CHOOSE g : g = [s \in SUBSET S |-> IF s = {} THEN 0 ELSE shown[AnyOf(s)][m] + g[s \ {AnyOf(s)}]]
<1>1. n \in Nat /\ Sizes(S, n) = SUBSET S
  <2>1. n \in Nat
    BY FS_CardinalityType
  <2>2. \A t \in SUBSET S : Cardinality(t) <= n
    BY FS_Subset
  <2>3. QED BY <2>1, <2>2 DEF Sizes
<1>2. PICK g : Sums(g, S, shown, m, n)
  <2> HIDE DEF n
  <2>1. QED BY <1>1, SumsExist
<1>3. g = [s \in SUBSET S |-> IF s = {} THEN 0 ELSE shown[AnyOf(s)][m] + g[s \ {AnyOf(s)}]]
  BY <1>1, <1>2 DEF Sums
<1>4. sum = [s \in SUBSET S |-> IF s = {} THEN 0 ELSE shown[AnyOf(s)][m] + sum[s \ {AnyOf(s)}]]
  BY <1>3
<1>5. Aggregate("Sum", shown, S, m) = sum[S]
  BY DEF Aggregate, MapThenSumSet, MapThenFoldSet, AnyOf
<1> HIDE DEF sum, n
<1> DEFINE Bad == {k \in Nat : \E s \in SUBSET S : Cardinality(s) = k /\ sum[s] \notin Int}
<1>6. ASSUME Bad # {} PROVE FALSE
  <2>1. PICK k \in Bad : k > 0 => k - 1 \in Nat \ Bad
    <3> HIDE DEF Bad
    <3>1. Bad \in SUBSET Nat
      BY DEF Bad
    <3>2. QED BY <1>6, <3>1, LeastNumber
  <2>2. PICK s \in SUBSET S : Cardinality(s) = k /\ sum[s] \notin Int
    OBVIOUS
  <2> DEFINE x == AnyOf(s)
             rest == s \ {x}
  <2>3. s # {}
    BY <1>4, <2>2
  <2>4. IsFiniteSet(s) /\ x \in s
    BY <2>3, FS_Subset DEF AnyOf
  <2>5. Cardinality(rest) = k - 1 /\ k > 0 /\ k - 1 \in Nat
    <3>1. Cardinality(s) \in Nat /\ Cardinality(s) # 0
      BY <2>3, <2>4, FS_CardinalityType, FS_EmptySet
    <3>2. Cardinality(rest) = Cardinality(s) - 1
      BY <2>4, FS_RemoveElement
    <3>3. QED BY <2>2, <3>1, <3>2
  <2>6. sum[rest] \in Int
    <3>1. ~(k - 1 \in Bad)
      <4> HIDE DEF Bad
      <4>1. QED BY <2>1, <2>5
    <3>2. rest \in SUBSET S
      OBVIOUS
    <3> HIDE DEF rest
    <3>3. QED BY <2>5, <3>1, <3>2
  <2>7. sum[s] = shown[x][m] + sum[rest]
    BY <1>4, <2>3
  <2>8. QED BY <2>2, <2>4, <2>6, <2>7
<1>7. sum[S] \in Int
  BY <1>1, <1>6 DEF n
<1>8. QED BY <1>5, <1>7

-----------------------------------------------------------------------------
(* Ranks: rows of one group have one total and one rank, and rows of two   *)
(* groups of the same parents whose totals differ have two.                *)
Numbers(shown, cols) == /\ IsFiniteSet(DOMAIN shown)
                        /\ shown \in [DOMAIN shown -> [cols -> Int]]

LEMMA TotalsAreInt ==
  ASSUME NEW shown, NEW all, Numbers(shown, all), NEW cols, NEW topn, topn.measure \in all,
         NEW op \in {"Sum", "Count", "Maximum"}, NEW f \in DOMAIN shown
  PROVE  Totals(shown, cols, topn, op)[f] \in Int
<1> DEFINE m == topn.measure
           fs == Alike(shown, f, cols)
<1>1. f \in fs /\ fs \in SUBSET DOMAIN shown
  BY DEF Alike
<1>2. IsFiniteSet(fs)
  BY <1>1, FS_Subset DEF Numbers
<1>3. \A x \in fs : shown[x][m] \in Int
  BY <1>1 DEF Numbers
<1>4. Totals(shown, cols, topn, op)[f] = Aggregate(op, shown, fs, m)
  BY DEF Totals
<1> HIDE DEF fs, m
<1>5. CASE op = "Sum"
  BY <1>2, <1>3, <1>4, <1>5, SumIsInt
<1>6. CASE op = "Count"
  <2>1. Aggregate(op, shown, fs, m) = Cardinality(fs)
    BY <1>6 DEF Aggregate
  <2>2. QED BY <1>2, <1>4, <2>1, FS_CardinalityType
<1>7. CASE op = "Maximum"
  <2> DEFINE values == {shown[x][m] : x \in fs}
             value == [x \in fs |-> shown[x][m]]
  <2>1. Aggregate(op, shown, fs, m) = Max(values)
    BY <1>7 DEF Aggregate
  <2>2. values \in SUBSET Int /\ values # {}
    BY <1>1, <1>3
  <2>3. IsFiniteSet(values)
    <3>1. value \in Surjection(fs, values)
      BY DEF Surjection
    <3> HIDE DEF value, values
    <3>2. QED BY <1>2, <3>1, FS_Surjection
  <2> HIDE DEF values
  <2>4. \E x \in values : \A y \in values : x >= y
    BY <2>2, <2>3, EndsExist
  <2>5. Max(values) \in values
    BY <2>4 DEF Max
  <2>6. QED BY <1>4, <2>1, <2>2, <2>5
<1>8. QED BY <1>5, <1>6, <1>7

LEMMA AlikeAsOne ==
  ASSUME NEW shown, NEW cols, NEW f \in DOMAIN shown, NEW h \in Alike(shown, f, cols)
  PROVE  /\ Alike(shown, h, cols) = Alike(shown, f, cols)
         /\ \A topn, op : Totals(shown, cols, topn, op)[h] = Totals(shown, cols, topn, op)[f]
<1>1. h \in DOMAIN shown /\ \A c \in cols : shown[h][c] = shown[f][c]
  BY DEF Alike
<1>2. Alike(shown, h, cols) = Alike(shown, f, cols)
  BY <1>1 DEF Alike
<1>3. QED BY <1>1, <1>2 DEF Totals

Compared(shown, all, parents, g, op, f, h) ==
  /\ Numbers(shown, all) /\ g.topn.measure \in all /\ op \in {"Sum", "Count", "Maximum"}
  /\ f \in DOMAIN shown /\ h \in Alike(shown, f, parents)
Tells(shown, parents, g, op, f, h) ==
  LET rank == RankOf(shown, parents, g, op)
      total == Totals(shown, parents \union {g.col}, g.topn, op)
  IN  /\ rank[f] \in Nat /\ rank[f] >= 1 /\ rank[h] \in Nat /\ rank[h] >= 1
      /\ shown[f][g.col] = shown[h][g.col] => rank[f] = rank[h]
      /\ total[f] # total[h] => rank[f] # rank[h]

LEMMA RanksTell ==
  ASSUME NEW shown, NEW all, NEW parents, NEW g, NEW op, NEW f, NEW h, Compared(shown, all, parents, g, op, f, h)
  PROVE  Tells(shown, parents, g, op, f, h)
<1> SUFFICES ASSUME Numbers(shown, all), g.topn.measure \in all, op \in {"Sum", "Count", "Maximum"},
                    f \in DOMAIN shown, h \in Alike(shown, f, parents),
                    NEW rank, rank = RankOf(shown, parents, g, op),
                    NEW total, total = Totals(shown, parents \union {g.col}, g.topn, op)
             PROVE  /\ rank[f] \in Nat /\ rank[f] >= 1 /\ rank[h] \in Nat /\ rank[h] >= 1
                    /\ shown[f][g.col] = shown[h][g.col] => rank[f] = rank[h]
                    /\ total[f] # total[h] => rank[f] # rank[h]
  BY DEF Compared, Tells
<1> DEFINE Before(a, b) == IF g.topn.desc THEN a > b ELSE a < b
           near == Alike(shown, f, parents)
           Ahead(x) == {total[k] : k \in {y \in near : Before(total[y], total[x])}}
<1>1. f \in near /\ h \in near /\ near \in SUBSET DOMAIN shown
  BY DEF Alike
<1>2. \A x \in near : total[x] \in Int
  <2> HIDE DEF near
  <2>1. \A x \in DOMAIN shown : Totals(shown, parents \union {g.col}, g.topn, op)[x] \in Int
    BY TotalsAreInt
  <2>2. QED BY <1>1, <2>1
<1>3. rank[f] = 1 + Cardinality(Ahead(f)) /\ rank[h] = 1 + Cardinality(Ahead(h))
  <2>1. Alike(shown, h, parents) = near
    BY AlikeAsOne
  <2>2. RankOf(shown, parents, g, op) =
          [x \in DOMAIN shown |->
             1 + Cardinality({total[k] : k \in {y \in Alike(shown, x, parents) : Before(total[y], total[x])}})]
    BY DEF RankOf
  <2>3. rank = [x \in DOMAIN shown |->
             1 + Cardinality({total[k] : k \in {y \in Alike(shown, x, parents) : Before(total[y], total[x])}})]
    BY <2>2
  <2> HIDE DEF Before
  <2>4. QED BY <1>1, <2>1, <2>3
<1>4. ASSUME NEW x \in near PROVE IsFiniteSet(Ahead(x)) /\ Cardinality(Ahead(x)) \in Nat
  <2> DEFINE those == {y \in near : Before(total[y], total[x])}
             value == [y \in those |-> total[y]]
  <2>1. IsFiniteSet(those)
    <3>1. those \in SUBSET DOMAIN shown
      BY <1>1
    <3>2. QED BY <3>1, FS_Subset DEF Numbers
  <2>2. value \in Surjection(those, Ahead(x))
    BY DEF Surjection
  <2> HIDE DEF those, value, Ahead
  <2>3. QED BY <2>1, <2>2, FS_Surjection, FS_CardinalityType
<1>5. rank[f] \in Nat /\ rank[f] >= 1 /\ rank[h] \in Nat /\ rank[h] >= 1
  <2> HIDE DEF Ahead, near
  <2>1. QED BY <1>1, <1>3, <1>4
<1>6. ASSUME shown[f][g.col] = shown[h][g.col] PROVE rank[f] = rank[h]
  <2>1. h \in Alike(shown, f, parents \union {g.col})
    BY <1>6 DEF Alike
  <2>2. total[h] = total[f]
    BY <2>1, AlikeAsOne
  <2> HIDE DEF near
  <2>3. Ahead(f) = Ahead(h)
    BY <2>2
  <2>4. QED BY <1>3, <2>3
<1>7. ASSUME NEW x \in near, NEW y \in near, Before(total[x], total[y])
      PROVE  Cardinality(Ahead(x)) # Cardinality(Ahead(y))
  <2> HIDE DEF near
  <2>1. total[x] \in Int /\ total[y] \in Int
    BY <1>2
  <2>2. total[x] \in Ahead(y)
    BY <1>7
  <2>3. total[x] \notin Ahead(x)
    <3>1. \A k \in near : Before(total[k], total[x]) => total[k] # total[x]
      BY <1>2, <2>1
    <3> HIDE DEF Before
    <3>2. QED BY <3>1
  <2>4. Ahead(x) \subseteq Ahead(y)
    <3>1. \A k \in near : Before(total[k], total[x]) => Before(total[k], total[y])
      BY <1>2, <1>7, <2>1
    <3> HIDE DEF Before
    <3>2. QED BY <3>1
  <2>5. IsFiniteSet(Ahead(y))
    BY <1>4
  <2> HIDE DEF Ahead
  <2>6. QED BY <2>2, <2>3, <2>4, <2>5, FS_Subset
<1>8. ASSUME total[f] # total[h] PROVE rank[f] # rank[h]
  <2>1. total[f] \in Int /\ total[h] \in Int
    BY <1>1, <1>2
  <2>2. Before(total[f], total[h]) \/ Before(total[h], total[f])
    BY <1>8, <2>1
  <2> HIDE DEF near, Before, Ahead
  <2>3. Cardinality(Ahead(f)) # Cardinality(Ahead(h))
    BY <1>1, <1>7, <2>2
  <2>4. Cardinality(Ahead(f)) \in Nat /\ Cardinality(Ahead(h)) \in Nat
    BY <1>1, <1>4
  <2>5. QED BY <1>3, <2>3, <2>4
<1>9. QED BY <1>5, <1>6, <1>8

(* One pass: the ordering column says of two rows of the same parents      *)
(* whether they show one group after it.                                   *)
Separated(state, all, parents, g, op, f, h) ==
  /\ Compared(state.shown, all, parents, g, op, f, h) /\ g.col \in all /\ g.topn.n \in 0..(Beyond - 1)
  /\ state.shown[f][g.col] # OthersLabel /\ state.shown[h][g.col] # OthersLabel
  /\ LET total == Totals(state.shown, parents \union {g.col}, g.topn, op)
     IN  state.shown[f][g.col] # state.shown[h][g.col] => total[f] # total[h]
PlaceTells(state, c, f, h) ==
  /\ state.place[f] \in Int /\ state.place[h] \in Int
  /\ state.place[f] = state.place[h] <=> state.shown[f][c] = state.shown[h][c]

LEMMA BucketTells ==
  ASSUME NEW state, NEW all, NEW parents, NEW g, NEW op, NEW f, NEW h, Separated(state, all, parents, g, op, f, h)
  PROVE  PlaceTells(Bucket(state, parents, g, op), g.col, f, h)
<1> DEFINE rank == RankOf(state.shown, parents, g, op)
           after == Bucket(state, parents, g, op)
<1>1. /\ rank[f] \in Nat /\ rank[f] >= 1 /\ rank[h] \in Nat /\ rank[h] >= 1
      /\ state.shown[f][g.col] = state.shown[h][g.col] <=> rank[f] = rank[h]
  <2>1. Compared(state.shown, all, parents, g, op, f, h)
    BY DEF Separated
  <2>2. Tells(state.shown, parents, g, op, f, h)
    BY <2>1, RanksTell
  <2>3. QED BY <2>2 DEF Tells, Separated
<1>2. f \in DOMAIN state.shown /\ h \in DOMAIN state.shown /\ Numbers(state.shown, all) /\ g.col \in all
  BY DEF Alike, Compared, Separated
<1>3. ASSUME NEW x \in DOMAIN state.shown
      PROVE  /\ after.place[x] = IF rank[x] <= g.topn.n THEN rank[x] ELSE Beyond
             /\ after.shown[x][g.col] = IF rank[x] <= g.topn.n THEN state.shown[x][g.col] ELSE OthersLabel
  <2> DEFINE shown == [y \in DOMAIN state.shown |-> IF rank[y] <= g.topn.n THEN state.shown[y]
                                                   ELSE [state.shown[y] EXCEPT ![g.col] = OthersLabel]]
             place == [y \in DOMAIN state.shown |-> IF rank[y] <= g.topn.n THEN rank[y] ELSE Beyond]
  <2>1. after = [shown |-> shown, place |-> place]
    BY DEF Bucket
  <2> HIDE DEF rank, after
  <2>2. after.place[x] = IF rank[x] <= g.topn.n THEN rank[x] ELSE Beyond
    BY <2>1
  <2>3. after.shown[x] = IF rank[x] <= g.topn.n THEN state.shown[x] ELSE [state.shown[x] EXCEPT ![g.col] = OthersLabel]
    BY <2>1
  <2>4. state.shown[x] \in [all -> Int]
    BY <1>2 DEF Numbers
  <2>5. QED BY <1>2, <2>2, <2>3, <2>4
<1> HIDE DEF rank, after
<1>4. g.topn.n \in Int /\ g.topn.n < Beyond /\ Beyond \in Int
  BY DEF Beyond, Separated
<1>5. state.shown[f][g.col] # OthersLabel /\ state.shown[h][g.col] # OthersLabel
  BY DEF Separated
<1>6. PlaceTells(after, g.col, f, h)
  BY <1>1, <1>2, <1>3, <1>4, <1>5 DEF PlaceTells
<1>7. QED BY <1>6 DEF after

(* What the rows show stays numbers, and a column stays as it was until    *)
(* the pass of a group of that column.                                     *)
Ranks(rep, among, all) == \A i \in among : rep.groups[i].col \in all

LEMMA StageKeeps ==
  ASSUME NEW rep, NEW among, NEW all, Ranks(rep, among, all), NEW state, Numbers(state.shown, all), NEW i, NEW ops
  PROVE  LET after == Stage(rep, among, state, i, ops)
         IN  /\ Numbers(after.shown, all) /\ DOMAIN after.shown = DOMAIN state.shown
             /\ \A c \in all : ~(i \in among /\ rep.groups[i].col = c) =>
                  \A f \in DOMAIN state.shown : after.shown[f][c] = state.shown[f][c]
<1> DEFINE after == Stage(rep, among, state, i, ops)
           g == rep.groups[i]
           rank == RankOf(state.shown, Parents(rep, i), g, ops[i])
           next == [f \in DOMAIN state.shown |-> IF rank[f] <= g.topn.n THEN state.shown[f]
                                                ELSE [state.shown[f] EXCEPT ![g.col] = OthersLabel]]
<1>1. CASE i \notin among
  BY <1>1 DEF Stage
<1>2. CASE i \in among
  <2>1. after.shown = next
    BY <1>2 DEF Stage, Bucket
  <2>2. g.col \in all
    BY <1>2 DEF Ranks
  <2>3. IsFiniteSet(DOMAIN state.shown) /\ \A f \in DOMAIN state.shown : state.shown[f] \in [all -> Int]
    BY DEF Numbers
  <2> HIDE DEF rank, after, g
  <2>4. \A f \in DOMAIN state.shown : next[f] \in [all -> Int]
    BY <2>2, <2>3, OthersAssumption
  <2>5. next \in [DOMAIN state.shown -> [all -> Int]] /\ DOMAIN next = DOMAIN state.shown
    BY <2>4
  <2>6. \A c \in all : c # g.col => \A f \in DOMAIN state.shown : next[f][c] = state.shown[f][c]
    BY <2>3
  <2> HIDE DEF next
  <2>7. Numbers(after.shown, all) /\ DOMAIN after.shown = DOMAIN state.shown
    BY <2>1, <2>3, <2>5 DEF Numbers
  <2>8. QED BY <1>2, <2>1, <2>6, <2>7 DEF after, g
<1>3. QED BY <1>1, <1>2

LEMMA StepFrom ==
  ASSUME NEW rep, NEW shown, NEW among, NEW ops, NEW i \in Nat, i > 0
  PROVE  Buckets(rep, shown, among, ops, i) = Stage(rep, among, Buckets(rep, shown, among, ops, i - 1), i, ops)
<1> DEFINE k == i - 1
<1>1. k \in Nat /\ k + 1 = i
  OBVIOUS
<1> HIDE DEF k
<1>2. Buckets(rep, shown, among, ops, k + 1) = Stage(rep, among, Buckets(rep, shown, among, ops, k), k + 1, ops)
  BY <1>1, BucketsStepwise
<1>3. QED BY <1>1, <1>2 DEF k

LEMMA BucketsNumbers ==
  ASSUME NEW rep, NEW shown, NEW among, NEW ops, NEW all, Ranks(rep, among, all), Numbers(shown, all), NEW n \in Nat
  PROVE  /\ Numbers(Buckets(rep, shown, among, ops, n).shown, all)
         /\ DOMAIN Buckets(rep, shown, among, ops, n).shown = DOMAIN shown
<1> DEFINE After(i) == Buckets(rep, shown, among, ops, i)
           Good(i) == Numbers(After(i).shown, all) /\ DOMAIN After(i).shown = DOMAIN shown
           Bad == {i \in Nat : ~Good(i)}
<1>1. Good(0)
  BY BucketsStepwise DEF Start
<1>2. ASSUME NEW i \in Nat, i > 0, Good(i - 1) PROVE Good(i)
  <2>1. After(i) = Stage(rep, among, After(i - 1), i, ops)
    BY <1>2, StepFrom
  <2> HIDE DEF After
  <2>2. QED BY <1>2, <2>1, StageKeeps
<1> HIDE DEF Good
<1>3. ASSUME Bad # {} PROVE FALSE
  <2>1. PICK i \in Bad : i > 0 => i - 1 \in Nat \ Bad
    <3> HIDE DEF Bad
    <3>1. Bad \in SUBSET Nat
      BY DEF Bad
    <3>2. QED BY <1>3, <3>1, LeastNumber
  <2>2. i \in Nat /\ ~Good(i)
    OBVIOUS
  <2>3. i > 0
    BY <1>1, <2>2
  <2>4. i - 1 \in Nat /\ ~(i - 1 \in Bad)
    <3> HIDE DEF Bad
    <3>1. QED BY <2>1, <2>2, <2>3
  <2>5. Good(i - 1)
    BY <2>4
  <2>6. QED BY <1>2, <2>2, <2>3, <2>5
<1>4. Good(n)
  BY <1>3
<1>5. QED BY <1>4 DEF Good

LEMMA ColumnKept ==
  ASSUME NEW rep, NEW shown, NEW among, NEW ops, NEW all, Ranks(rep, among, all), Numbers(shown, all),
         NEW i \in Nat, NEW n \in Nat, i <= n, NEW c \in all, NEW f \in DOMAIN shown,
         \A j \in among : i < j /\ j <= n => rep.groups[j].col # c
  PROVE  Buckets(rep, shown, among, ops, n).shown[f][c] = Buckets(rep, shown, among, ops, i).shown[f][c]
<1> DEFINE After(k) == Buckets(rep, shown, among, ops, k)
           Bad == {k \in Nat : i <= k /\ k <= n /\ After(k).shown[f][c] # After(i).shown[f][c]}
<1>1. ASSUME NEW k \in Nat, i < k, k <= n PROVE After(k).shown[f][c] = After(k - 1).shown[f][c]
  <2>1. After(k) = Stage(rep, among, After(k - 1), k, ops)
    BY <1>1, StepFrom
  <2>2. Numbers(After(k - 1).shown, all) /\ f \in DOMAIN After(k - 1).shown
    <3>1. k - 1 \in Nat
      BY <1>1
    <3>2. QED BY <3>1, BucketsNumbers
  <2>3. ~(k \in among /\ rep.groups[k].col = c)
    BY <1>1
  <2> HIDE DEF After
  <2>4. QED BY <2>1, <2>2, <2>3, StageKeeps
<1> HIDE DEF After
<1>2. ASSUME Bad # {} PROVE FALSE
  <2>1. PICK k \in Bad : k > 0 => k - 1 \in Nat \ Bad
    <3> HIDE DEF Bad
    <3>1. Bad \in SUBSET Nat
      BY DEF Bad
    <3>2. QED BY <1>2, <3>1, LeastNumber
  <2>2. k \in Nat /\ i <= k /\ k <= n /\ After(k).shown[f][c] # After(i).shown[f][c]
    OBVIOUS
  <2>3. i < k /\ k - 1 \in Nat /\ i <= k - 1 /\ k - 1 <= n
    BY <2>2
  <2>4. ~(k - 1 \in Bad)
    <3> HIDE DEF Bad
    <3>1. QED BY <2>1, <2>2, <2>3
  <2>5. After(k - 1).shown[f][c] = After(i).shown[f][c]
    BY <2>3, <2>4
  <2>6. QED BY <1>1, <2>2, <2>3, <2>5
<1>3. ~(n \in Bad)
  BY <1>2
<1>4. After(n).shown[f][c] = After(i).shown[f][c]
  BY <1>3
<1>5. QED BY <1>4 DEF After

-----------------------------------------------------------------------------
(* Order: rows that the terms up to a place take for one, and from which   *)
(* each other row differs in one of these terms, stay together.            *)
Ordered(order, rows) ==
  /\ DOMAIN order \in SUBSET Int /\ IsFiniteSet(DOMAIN order)
  /\ \A p \in DOMAIN order : \A f \in rows : order[p][f] \in Int

LEMMA NothingBetween ==
  ASSUME NEW order, NEW rows, Ordered(order, rows), NEW f \in rows, NEW g \in rows, NEW h \in rows, NEW last \in Int,
         \A p \in DOMAIN order : p <= last => order[p][f] = order[p][g],
         \E p \in DOMAIN order : p <= last /\ order[p][f] # order[p][h]
  PROVE  ~(NotAfter(order, f, h) /\ NotAfter(order, h, g))
<1> DEFINE Differ(x, y) == {p \in DOMAIN order : order[p][x] # order[p][y]}
<1>1. ASSUME NEW x \in rows, NEW y \in rows, Differ(x, y) # {}
      PROVE  /\ Min(Differ(x, y)) \in Differ(x, y) /\ \A p \in Differ(x, y) : Min(Differ(x, y)) <= p
             /\ NotAfter(order, x, y) => order[Min(Differ(x, y))][x] < order[Min(Differ(x, y))][y]
  <2> DEFINE D == Differ(x, y)
  <2>1. D \in SUBSET Int /\ IsFiniteSet(D)
    <3>1. D \in SUBSET DOMAIN order
      OBVIOUS
    <3> HIDE DEF D
    <3>2. QED BY <3>1, FS_Subset DEF Ordered
  <2>2. NotAfter(order, x, y) => order[Min(D)][x] < order[Min(D)][y]
    BY <1>1 DEF NotAfter
  <2>3. D # {}
    BY <1>1
  <2> HIDE DEF D
  <2>4. \E p \in D : \A r \in D : p =< r
    BY <2>1, <2>3, EndsExist
  <2>5. Min(D) \in D /\ \A p \in D : Min(D) <= p
    BY <2>4 DEF Min
  <2>6. QED BY <2>2, <2>5 DEF D
<1> SUFFICES ASSUME NotAfter(order, f, h), NotAfter(order, h, g) PROVE FALSE
  OBVIOUS
<1> DEFINE i == Min(Differ(f, h))
           j == Min(Differ(h, g))
<1>2. PICK p \in DOMAIN order : p <= last /\ order[p][f] # order[p][h]
  OBVIOUS
<1>3. /\ i \in DOMAIN order /\ order[i][f] # order[i][h] /\ i <= last
      /\ \A k \in DOMAIN order : order[k][f] # order[k][h] => i <= k
      /\ order[i][f] < order[i][h]
  <2>1. p \in Differ(f, h)
    BY <1>2
  <2>2. /\ i \in Differ(f, h) /\ \A k \in Differ(f, h) : i <= k
        /\ order[i][f] < order[i][h]
    BY <1>1, <2>1
  <2>3. i <= p /\ i \in Int /\ p \in Int
    BY <2>1, <2>2 DEF Ordered
  <2>4. i <= last
    <3> HIDE DEF i
    <3>1. QED BY <1>2, <2>3
  <2>5. QED BY <2>2, <2>4
<1>4. i \in Differ(h, g)
  BY <1>3
<1>5. /\ j \in DOMAIN order /\ order[j][h] # order[j][g] /\ j <= i
      /\ order[j][h] < order[j][g]
  BY <1>1, <1>4
<1> HIDE DEF i, j, Differ
<1>6. i \in Int /\ j \in Int
  BY <1>3, <1>5 DEF Ordered
<1>7. j <= last
  BY <1>3, <1>5, <1>6
<1>8. order[j][f] = order[j][g] /\ order[i][f] = order[i][g]
  BY <1>3, <1>5, <1>7
<1>9. i <= j
  BY <1>3, <1>5, <1>8
<1>10. i = j
  BY <1>5, <1>6, <1>9
<1>11. order[i][f] \in Int /\ order[i][h] \in Int
  BY <1>3 DEF Ordered
<1>12. QED BY <1>3, <1>5, <1>8, <1>10, <1>11

GroupColumns(rep, n) == {c \in {rep.groups[i].col : i \in 1..n} : IsColumn(rep, c)}
Same(shown, cols, f, g) == \A c \in cols : shown[f][c] = shown[g][c]

LEMMA WholeByOrder ==
  ASSUME NEW rep, NEW text, NEW n, NEW last \in Int, Ordered(text.order, Answer(text)),
         \A f, g \in Answer(text) :
           /\ Same(text.shown, GroupColumns(rep, n), f, g) =>
                \A p \in DOMAIN text.order : p <= last => text.order[p][f] = text.order[p][g]
           /\ ~Same(text.shown, GroupColumns(rep, n), f, g) =>
                \E p \in DOMAIN text.order : p <= last /\ text.order[p][f] # text.order[p][g]
  PROVE  Whole(rep, text, n)
<1> DEFINE cols == GroupColumns(rep, n)
<1>1. ASSUME NEW f \in Answer(text), NEW g \in Answer(text), NEW h \in Answer(text),
             Same(text.shown, cols, f, g), ~Same(text.shown, cols, f, h)
      PROVE  ~(NotAfter(text.order, f, h) /\ NotAfter(text.order, h, g))
  <2> HIDE DEF cols
  <2>1. \A p \in DOMAIN text.order : p <= last => text.order[p][f] = text.order[p][g]
    BY <1>1 DEF cols
  <2>2. \E p \in DOMAIN text.order : p <= last /\ text.order[p][f] # text.order[p][h]
    BY <1>1 DEF cols
  <2>3. QED BY <2>1, <2>2, NothingBetween
<1>2. QED BY <1>1 DEF Whole, Same, GroupColumns

-----------------------------------------------------------------------------
(* The columns a query shows, and the places of its keys.                  *)
Columns(rep) == UNION Range(rep.columns)

LEMMA KeyParts ==
  ASSUME NEW rep, IsQuery(rep)
  PROVE  /\ \A c : IsColumn(rep, c) => c \in Columns(rep)
         /\ Asked(rep) \in SUBSET (1..(Len(rep.groups) + Len(rep.sorts)))
         /\ \A p \in 1..Len(rep.groups) :
              /\ SortKeys(rep)[p] = rep.groups[p]
              /\ p \in Known(rep) <=> IsColumn(rep, rep.groups[p].col)
         /\ Len(rep.groups) \in Nat /\ Len(rep.sorts) \in Nat /\ DOMAIN rep.groups = 1..Len(rep.groups)
<1>1. ASSUME NEW c, IsColumn(rep, c) PROVE c \in Columns(rep)
  BY <1>1 DEF IsColumn, IsQuery, Columns, Range
<1> DEFINE S == Range(rep.groups)
           T == Range(rep.sorts)
<1>2. rep.groups \in Seq(S) /\ rep.sorts \in Seq(T)
  BY DEF IsQuery
<1> HIDE DEF S, T
<1>3. /\ Len(rep.groups) \in Nat /\ Len(rep.sorts) \in Nat /\ DOMAIN rep.groups = 1..Len(rep.groups)
      /\ DOMAIN SortKeys(rep) = 1..(Len(rep.groups) + Len(rep.sorts))
      /\ \A p \in 1..Len(rep.groups) : SortKeys(rep)[p] = rep.groups[p]
  <2>1. rep.groups \in Seq(S \union T) /\ rep.sorts \in Seq(S \union T)
    BY <1>2
  <2>2. /\ Len(rep.groups) \in Nat /\ Len(rep.sorts) \in Nat /\ DOMAIN rep.groups = 1..Len(rep.groups)
    BY <1>2
  <2>3. SortKeys(rep) \in Seq(S \union T) /\ Len(SortKeys(rep)) = Len(rep.groups) + Len(rep.sorts)
    BY <2>1 DEF SortKeys
  <2>4. \A p \in 1..Len(rep.groups) : SortKeys(rep)[p] = rep.groups[p]
    <3> DEFINE s == rep.groups
               t == rep.sorts
    <3>1. s \in Seq(S \union T) /\ t \in Seq(S \union T) /\ Len(s) \in Nat /\ Len(t) \in Nat
      BY <2>1, <2>2
    <3>2. SortKeys(rep) = s \o t
      BY DEF SortKeys
    <3> HIDE DEF s, t
    <3>3. \A p \in 1..Len(s) : (s \o t)[p] = s[p]
      BY <3>1
    <3>4. QED BY <3>2, <3>3 DEF s, t
  <2>5. DOMAIN SortKeys(rep) = 1..Len(SortKeys(rep))
    BY <2>3
  <2>6. QED BY <2>2, <2>3, <2>4, <2>5
<1>4. Asked(rep) \in SUBSET (1..(Len(rep.groups) + Len(rep.sorts)))
  BY <1>3 DEF Asked
<1>5. ASSUME NEW p \in 1..Len(rep.groups) PROVE p \in Known(rep) <=> IsColumn(rep, rep.groups[p].col)
  <2> DEFINE a == Len(rep.groups)
             b == Len(rep.sorts)
  <2>1. a \in Nat /\ b \in Nat /\ DOMAIN SortKeys(rep) = 1..(a + b) /\ p \in 1..a /\ SortKeys(rep)[p] = rep.groups[p]
    BY <1>3
  <2>2. Asked(rep) = {k \in DOMAIN SortKeys(rep) : k > a => SortKeys(rep)[k].col \notin {g.col : g \in Range(rep.groups)}}
    BY DEF Asked
  <2> HIDE DEF a, b
  <2>3. p \in 1..(a + b) /\ ~(p > a)
    BY <2>1
  <2>4. p \in Asked(rep)
    BY <2>1, <2>2, <2>3
  <2>5. QED BY <2>1, <2>4 DEF Known
<1>6. QED BY <1>1, <1>3, <1>4, <1>5

LEMMA TermsOrder ==
  ASSUME NEW rep, IsQuery(rep), NEW shown, Numbers(shown, Columns(rep)), NEW places \in SUBSET Known(rep)
  PROVE  /\ Ordered(Terms(rep, shown, places), DOMAIN shown) /\ DOMAIN Terms(rep, shown, places) = places
         /\ \A p \in places : \A f, h \in DOMAIN shown :
              Terms(rep, shown, places)[p][f] = Terms(rep, shown, places)[p][h]
                <=> shown[f][SortKeys(rep)[p].col] = shown[h][SortKeys(rep)[p].col]
<1> DEFINE order == Terms(rep, shown, places)
<1>1. order = [p \in places |-> By(shown, SortKeys(rep)[p].col, SortKeys(rep)[p].desc)]
  BY DEF Terms
<1> HIDE DEF order
<1>2. DOMAIN order = places /\ \A p \in places : order[p] = By(shown, SortKeys(rep)[p].col, SortKeys(rep)[p].desc)
  BY <1>1
<1>3. places \in SUBSET Int /\ IsFiniteSet(places)
  <2> DEFINE top == Len(rep.groups) + Len(rep.sorts)
  <2>1. places \in SUBSET (1..top) /\ top \in Int
    <3>1. Asked(rep) \in SUBSET (1..top) /\ Len(rep.groups) \in Nat /\ Len(rep.sorts) \in Nat
      BY KeyParts
    <3>2. Known(rep) \subseteq Asked(rep)
      BY DEF Known
    <3>3. top \in Int
      BY <3>1
    <3> HIDE DEF top
    <3>4. QED BY <3>1, <3>2, <3>3
  <2> HIDE DEF top
  <2>2. IsFiniteSet(1..top)
    BY <2>1, FS_Interval
  <2>3. places \in SUBSET Int
    BY <2>1
  <2>4. QED BY <2>1, <2>2, <2>3, FS_Subset
<1>4. ASSUME NEW p \in places, NEW f \in DOMAIN shown
      PROVE  /\ shown[f][SortKeys(rep)[p].col] \in Int
             /\ order[p][f] = IF SortKeys(rep)[p].desc THEN -shown[f][SortKeys(rep)[p].col]
                              ELSE shown[f][SortKeys(rep)[p].col]
  <2>1. SortKeys(rep)[p].col \in Columns(rep)
    BY KeyParts DEF Known
  <2>2. shown[f][SortKeys(rep)[p].col] \in Int
    BY <2>1 DEF Numbers
  <2>3. QED BY <1>2, <2>2 DEF By
<1>5. ASSUME NEW p \in places, NEW f \in DOMAIN shown PROVE order[p][f] \in Int
  <2>1. shown[f][SortKeys(rep)[p].col] \in Int
    BY <1>4
  <2>2. QED BY <1>4, <2>1
<1>6. ASSUME NEW p \in places, NEW f \in DOMAIN shown, NEW h \in DOMAIN shown
      PROVE  order[p][f] = order[p][h] <=> shown[f][SortKeys(rep)[p].col] = shown[h][SortKeys(rep)[p].col]
  <2> DEFINE a == shown[f][SortKeys(rep)[p].col]
             b == shown[h][SortKeys(rep)[p].col]
  <2>1. a \in Int /\ b \in Int
    BY <1>4
  <2>2. order[p][f] = (IF SortKeys(rep)[p].desc THEN -a ELSE a) /\ order[p][h] = (IF SortKeys(rep)[p].desc THEN -b ELSE b)
    BY <1>4
  <2> HIDE DEF a, b
  <2>3. QED BY <2>1, <2>2 DEF a, b
<1>7. QED BY <1>2, <1>3, <1>5, <1>6 DEF Ordered, order

-----------------------------------------------------------------------------
(* Groups: the text before Top-N, ordered only, and rolled up.             *)
Plain(rep, text) ==
  /\ {"shown", "where", "order"} \subseteq DOMAIN text
  /\ DOMAIN text.shown \subseteq Rows(rep) /\ text.shown = [f \in DOMAIN text.shown |-> Shown(rep, f)]
  /\ text.order = Terms(rep, text.shown, Known(rep))

LEMMA PlainParts ==
  ASSUME NEW rep, IsQuery(rep), NEW text, Plain(rep, text)
  PROVE  /\ Numbers(text.shown, Columns(rep)) /\ Numbers(Told(text), Columns(rep))
         /\ DOMAIN Told(text) = Answer(text) /\ Answer(text) \subseteq DOMAIN text.shown
         /\ \A f \in Answer(text) : Told(text)[f] = text.shown[f]
         /\ Told(text) = [f \in Answer(text) |-> Shown(rep, f)]
<1> DEFINE rows == DOMAIN text.shown
<1>1. \A f \in rows : text.shown[f] = Shown(rep, f) /\ text.shown[f] \in [Columns(rep) -> Int]
  BY DEF Plain, IsQuery, Columns
<1>2. IsFiniteSet(rows)
  <2>1. IsFiniteSet(Rows(rep)) /\ rows \in SUBSET Rows(rep)
    BY DEF IsQuery, Plain
  <2> HIDE DEF rows
  <2>2. QED BY <2>1, FS_Subset
<1>3. Answer(text) \subseteq rows
  BY DEF Answer
<1>4. text.shown = [f \in rows |-> text.shown[f]]
  BY <1>1 DEF Plain
<1>5. IsFiniteSet(Answer(text))
  <2> HIDE DEF rows
  <2>1. QED BY <1>2, <1>3, FS_Subset
<1> DEFINE a == Answer(text)
<1> HIDE DEF a
<1>6. Told(text) = [f \in a |-> text.shown[f]]
  BY DEF Told, a
<1>7. DOMAIN Told(text) = a /\ \A f \in a : Told(text)[f] = text.shown[f] /\ Told(text)[f] \in [Columns(rep) -> Int]
  BY <1>1, <1>3, <1>6 DEF a
<1>8. Numbers(text.shown, Columns(rep))
  BY <1>1, <1>2, <1>4 DEF Numbers
<1>9. Numbers(Told(text), Columns(rep))
  BY <1>5, <1>6, <1>7 DEF Numbers, a
<1>10. Told(text) = [f \in a |-> Shown(rep, f)]
  BY <1>1, <1>3, <1>6 DEF a
<1>11. QED BY <1>3, <1>7, <1>8, <1>9, <1>10 DEF a

(* The keys at the places of the first n groups tell their columns apart.  *)
LEMMA KeysTell ==
  ASSUME NEW rep, IsQuery(rep), NEW n \in 1..Len(rep.groups), NEW shown, Numbers(shown, Columns(rep)),
         NEW f \in DOMAIN shown, NEW g \in DOMAIN shown
  PROVE  LET order == Terms(rep, shown, Known(rep)) IN
         /\ Same(shown, GroupColumns(rep, n), f, g) => \A p \in Known(rep) : p <= n => order[p][f] = order[p][g]
         /\ \A i \in 1..n : IsColumn(rep, rep.groups[i].col) /\ shown[f][rep.groups[i].col] # shown[g][rep.groups[i].col]
              => i \in Known(rep) /\ order[i][f] # order[i][g]
<1> DEFINE order == Terms(rep, shown, Known(rep))
<1>1. \A p \in Known(rep) : order[p][f] = order[p][g] <=> shown[f][SortKeys(rep)[p].col] = shown[g][SortKeys(rep)[p].col]
  BY TermsOrder
<1>2. ASSUME NEW p \in Known(rep), p <= n
      PROVE  p \in 1..n /\ p \in 1..Len(rep.groups) /\ SortKeys(rep)[p] = rep.groups[p] /\ IsColumn(rep, rep.groups[p].col)
  <2>1. p \in Asked(rep)
    BY DEF Known
  <2>2. p \in 1..(Len(rep.groups) + Len(rep.sorts)) /\ Len(rep.groups) \in Nat /\ Len(rep.sorts) \in Nat
    BY <2>1, KeyParts
  <2> DEFINE a == Len(rep.groups)
             b == Len(rep.sorts)
  <2>3. p \in 1..n /\ p \in 1..a
    <3>1. p \in 1..(a + b) /\ a \in Nat /\ b \in Nat /\ n \in 1..a
      BY <2>2
    <3> HIDE DEF a, b
    <3>2. QED BY <1>2, <3>1
  <2>4. QED BY <2>3, KeyParts
<1>3. ASSUME NEW i \in 1..n
      PROVE  i \in 1..Len(rep.groups) /\ SortKeys(rep)[i] = rep.groups[i]
             /\ (i \in Known(rep) <=> IsColumn(rep, rep.groups[i].col))
  <2>1. Len(rep.groups) \in Nat
    BY KeyParts
  <2>2. i \in 1..Len(rep.groups)
    <3> DEFINE a == Len(rep.groups)
    <3>1. a \in Nat /\ n \in 1..a
      BY <2>1
    <3> HIDE DEF a
    <3>2. i \in 1..a
      BY <3>1
    <3>3. QED BY <3>2 DEF a
  <2>3. QED BY <2>2, KeyParts
<1> HIDE DEF order
<1>4. ASSUME Same(shown, GroupColumns(rep, n), f, g), NEW p \in Known(rep), p <= n PROVE order[p][f] = order[p][g]
  <2>1. rep.groups[p].col \in GroupColumns(rep, n)
    BY <1>2, <1>4 DEF GroupColumns
  <2>2. QED BY <1>1, <1>2, <1>4, <2>1 DEF Same
<1>5. ASSUME NEW i \in 1..n, IsColumn(rep, rep.groups[i].col), shown[f][rep.groups[i].col] # shown[g][rep.groups[i].col]
      PROVE  i \in Known(rep) /\ order[i][f] # order[i][g]
  BY <1>1, <1>3, <1>5
<1>6. QED BY <1>4, <1>5 DEF order

LEMMA PlainWhole ==
  ASSUME NEW rep, IsQuery(rep), NEW text, Plain(rep, text), NEW n \in 1..Len(rep.groups)
  PROVE  Whole(rep, text, n)
<1> DEFINE order == Terms(rep, text.shown, Known(rep))
<1>1. Numbers(text.shown, Columns(rep)) /\ Answer(text) \subseteq DOMAIN text.shown
  BY PlainParts
<1>2. text.order = order
  BY DEF Plain
<1>3. Ordered(order, DOMAIN text.shown) /\ DOMAIN order = Known(rep)
  BY <1>1, TermsOrder
<1>4. Ordered(text.order, Answer(text))
  BY <1>1, <1>2, <1>3 DEF Ordered
<1>5. n \in Int
  OBVIOUS
<1>6. ASSUME NEW f \in Answer(text), NEW g \in Answer(text)
      PROVE  /\ Same(text.shown, GroupColumns(rep, n), f, g) =>
                  \A p \in DOMAIN text.order : p <= n => text.order[p][f] = text.order[p][g]
             /\ ~Same(text.shown, GroupColumns(rep, n), f, g) =>
                  \E p \in DOMAIN text.order : p <= n /\ text.order[p][f] # text.order[p][g]
  <2>1. f \in DOMAIN text.shown /\ g \in DOMAIN text.shown
    BY <1>1
  <2> HIDE DEF order
  <2>2. /\ Same(text.shown, GroupColumns(rep, n), f, g) => \A p \in Known(rep) : p <= n => order[p][f] = order[p][g]
        /\ \A i \in 1..n : IsColumn(rep, rep.groups[i].col) /\ text.shown[f][rep.groups[i].col] # text.shown[g][rep.groups[i].col]
              => i \in Known(rep) /\ order[i][f] # order[i][g]
    BY <1>1, <2>1, KeysTell DEF order
  <2>3. ASSUME ~Same(text.shown, GroupColumns(rep, n), f, g)
        PROVE  \E i \in 1..n : IsColumn(rep, rep.groups[i].col)
                               /\ text.shown[f][rep.groups[i].col] # text.shown[g][rep.groups[i].col]
    BY <2>3 DEF Same, GroupColumns
  <2>4. \A i \in 1..n : i <= n
    OBVIOUS
  <2>5. QED BY <1>2, <1>3, <2>2, <2>3, <2>4
<1>7. QED BY <1>4, <1>5, <1>6, WholeByOrder

-----------------------------------------------------------------------------
(* The ranked groups are groups with a Top-N over columns of the query.    *)
LEMMA RankableParts ==
  ASSUME NEW rep, IsQuery(rep), NEW i \in Rankable(rep)
  PROVE  /\ i \in 1..Len(rep.groups) /\ i \in Nat /\ i - 1 \in Nat /\ i > 0 /\ i <= Len(rep.groups)
         /\ IsColumn(rep, rep.groups[i].col) /\ rep.groups[i].col \in Columns(rep)
         /\ rep.groups[i].topn.measure \in Columns(rep) /\ rep.groups[i].topn.n \in 0..(Beyond - 1)
         /\ OwnOps(rep)[i] = rep.groups[i].topn.op /\ OwnOps(rep)[i] \in {"Sum", "Count", "Maximum"}
<1>1. i \in Ranked(rep) /\ IsColumn(rep, rep.groups[i].col) /\ IsColumn(rep, rep.groups[i].topn.measure)
  BY DEF Rankable
<1>2. i \in 1..Len(rep.groups) /\ Len(rep.groups) \in Nat
  BY <1>1, KeyParts DEF Ranked
<1>3. i \in Nat /\ i - 1 \in Nat /\ i > 0 /\ i <= Len(rep.groups)
  <2> DEFINE a == Len(rep.groups)
  <2>1. a \in Nat /\ i \in 1..a
    BY <1>2
  <2> HIDE DEF a
  <2>2. i \in Nat /\ i - 1 \in Nat /\ i > 0 /\ i <= a
    BY <2>1
  <2>3. QED BY <2>2 DEF a
<1>4. rep.groups[i].topn.n \in 0..(Beyond - 1) /\ rep.groups[i].topn.op \in {"Sum", "Count", "Maximum"}
  BY <1>1 DEF IsQuery
<1>5. OwnOps(rep)[i] = rep.groups[i].topn.op
  BY <1>1 DEF OwnOps
<1>6. rep.groups[i].col \in Columns(rep) /\ rep.groups[i].topn.measure \in Columns(rep)
  BY <1>1, KeyParts
<1>7. QED BY <1>1, <1>2, <1>3, <1>4, <1>5, <1>6

(* Only ordered: the measure at place 0 is one within each outer group.    *)
LEMMA OrderedOnlyParts ==
  ASSUME NEW rep, IsQuery(rep), NEW text, Plain(rep, text), Min(Rankable(rep)) \in Rankable(rep)
  PROVE  LET g == rep.groups[Min(Rankable(rep))]
             order == OrderedOnly(rep, text).order
         IN  /\ OrderedOnly(rep, text).shown = Told(text)
             /\ DOMAIN order = {0} \union Known(rep)
             /\ \A p \in Known(rep) : p # 0 => order[p] = Terms(rep, Told(text), Known(rep))[p]
             /\ \A f \in Answer(text) :
                  /\ order[0][f] \in Int
                  /\ \A h \in Answer(text) : Told(text)[f][g.col] = Told(text)[h][g.col] => order[0][f] = order[0][h]
<1> DEFINE i == Min(Rankable(rep))
           g == rep.groups[i]
           shown == Told(text)
           total == Totals(shown, {g.col}, g.topn, g.topn.op)
           measure == [f \in DOMAIN total |-> IF g.topn.desc THEN -total[f] ELSE total[f]]
           terms == Terms(rep, shown, Known(rep))
           order == OrderedOnly(rep, text).order
<1>1. \E runs : LET inner == Wrapped(rep, text, Known(rep), runs)
                    sum == Totals(inner.shown, {g.col}, g.topn, g.topn.op)
                    m == [f \in DOMAIN sum |-> IF g.topn.desc THEN -sum[f] ELSE sum[f]]
                IN  OrderedOnly(rep, text) = [inner EXCEPT !.order = [p \in {0} \union DOMAIN @ |-> IF p = 0 THEN m ELSE @[p]]]
  BY DEF OrderedOnly
<1>2. PICK runs : LET inner == Wrapped(rep, text, Known(rep), runs)
                      sum == Totals(inner.shown, {g.col}, g.topn, g.topn.op)
                      m == [f \in DOMAIN sum |-> IF g.topn.desc THEN -sum[f] ELSE sum[f]]
                  IN  OrderedOnly(rep, text) = [inner EXCEPT !.order = [p \in {0} \union DOMAIN @ |-> IF p = 0 THEN m ELSE @[p]]]
  BY <1>1
<1> DEFINE inner == Wrapped(rep, text, Known(rep), runs)
<1>3. inner.shown = shown /\ inner.order = terms /\ DOMAIN inner = {"shown", "where", "order", "runs"}
  BY WrapAnswers
<1> HIDE DEF inner, shown, terms
<1>4. OrderedOnly(rep, text) = [inner EXCEPT !.order = [p \in {0} \union DOMAIN terms |-> IF p = 0 THEN measure ELSE terms[p]]]
  BY <1>2, <1>3 DEF inner
<1> HIDE DEF measure
<1>5. /\ OrderedOnly(rep, text).shown = shown
      /\ order = [p \in {0} \union DOMAIN terms |-> IF p = 0 THEN measure ELSE terms[p]]
  BY <1>3, <1>4
<1>6. DOMAIN terms = Known(rep)
  BY DEF terms, Terms
<1> HIDE DEF order
<1>7. DOMAIN order = {0} \union Known(rep) /\ order[0] = measure /\ \A p \in Known(rep) : p # 0 => order[p] = terms[p]
  BY <1>5, <1>6
<1>8. Numbers(shown, Columns(rep)) /\ DOMAIN shown = Answer(text)
  BY PlainParts DEF shown
<1>9. ASSUME NEW f \in Answer(text)
      PROVE  total[f] \in Int /\ measure[f] = IF g.topn.desc THEN -total[f] ELSE total[f]
  <2>1. g.topn.measure \in Columns(rep) /\ g.topn.op \in {"Sum", "Count", "Maximum"}
    BY RankableParts
  <2> DEFINE topn == g.topn
             op == g.topn.op
             cols == {g.col}
  <2>2. Totals(shown, cols, topn, op)[f] \in Int
    <3>1. topn.measure \in Columns(rep) /\ op \in {"Sum", "Count", "Maximum"} /\ f \in DOMAIN shown
      BY <1>8, <2>1
    <3> HIDE DEF topn, op, cols
    <3>2. QED BY <1>8, <3>1, TotalsAreInt
  <2>3. DOMAIN total = Answer(text)
    BY <1>8 DEF Totals
  <2> HIDE DEF total
  <2>4. measure[f] = IF g.topn.desc THEN -total[f] ELSE total[f]
    BY <2>3 DEF measure
  <2>5. QED BY <2>2, <2>4 DEF total
<1>10. ASSUME NEW f \in Answer(text), NEW h \in Answer(text), shown[f][g.col] = shown[h][g.col]
       PROVE  total[f] = total[h]
  <2>1. h \in Alike(shown, f, {g.col}) /\ f \in DOMAIN shown
    BY <1>8, <1>10 DEF Alike
  <2> DEFINE cols == {g.col}
  <2>2. h \in Alike(shown, f, cols)
    BY <2>1
  <2> HIDE DEF cols
  <2>3. \A topn, op : Totals(shown, cols, topn, op)[h] = Totals(shown, cols, topn, op)[f]
    BY <2>1, <2>2, AlikeAsOne
  <2>4. QED BY <2>3 DEF cols
<1> HIDE DEF total
<1>11. ASSUME NEW f \in Answer(text) PROVE order[0][f] \in Int
  BY <1>7, <1>9
<1>12. ASSUME NEW f \in Answer(text), NEW h \in Answer(text), shown[f][g.col] = shown[h][g.col]
       PROVE  order[0][f] = order[0][h]
  BY <1>7, <1>9, <1>10, <1>12
<1>13. QED BY <1>5, <1>7, <1>11, <1>12 DEF order, shown, terms

(* The first group is ranked: its ties are broken by its own key.          *)
LEMMA OrderedWhole ==
  ASSUME NEW rep, IsQuery(rep), NEW text, Plain(rep, text), Min(Rankable(rep)) = 1, 1 \in Rankable(rep),
         NEW n \in 1..Len(rep.groups)
  PROVE  Whole(rep, OrderedOnly(rep, text), n)
<1> DEFINE shown == Told(text)
           after == OrderedOnly(rep, text)
           terms == Terms(rep, shown, Known(rep))
           col == rep.groups[1].col
<1>1. Numbers(shown, Columns(rep)) /\ DOMAIN shown = Answer(text)
  BY PlainParts
<1>2. Answer(after) = Answer(text)
  <2>1. \E runs, order : OrderedOnly(rep, text) = [Wrapped(rep, text, Known(rep), runs) EXCEPT !.order = order]
    BY DEF OrderedOnly
  <2>2. PICK runs, order : OrderedOnly(rep, text) = [Wrapped(rep, text, Known(rep), runs) EXCEPT !.order = order]
    BY <2>1
  <2> DEFINE inner == Wrapped(rep, text, Known(rep), runs)
  <2>3. DOMAIN inner.shown = Answer(text) /\ inner.where = <<>>
    BY WrapAnswers
  <2> HIDE DEF inner
  <2>4. after.shown = inner.shown /\ after.where = <<>>
    BY <2>2, <2>3 DEF inner
  <2>5. QED BY <2>3, <2>4 DEF Answer
<1>3. Min(Rankable(rep)) \in Rankable(rep)
  OBVIOUS
<1>4. /\ after.shown = shown
      /\ DOMAIN after.order = {0} \union Known(rep)
      /\ \A p \in Known(rep) : p # 0 => after.order[p] = terms[p]
      /\ \A f \in Answer(text) :
           /\ after.order[0][f] \in Int
           /\ \A h \in Answer(text) : shown[f][col] = shown[h][col] => after.order[0][f] = after.order[0][h]
  BY <1>3, OrderedOnlyParts
<1>5. Ordered(terms, DOMAIN shown) /\ DOMAIN terms = Known(rep)
  BY <1>1, TermsOrder
<1>6. IsColumn(rep, col)
  BY RankableParts
<1>7. \A p \in Known(rep) : p # 0
  <2>1. Known(rep) \in SUBSET (1..(Len(rep.groups) + Len(rep.sorts)))
    BY KeyParts DEF Known
  <2> DEFINE top == Len(rep.groups) + Len(rep.sorts)
  <2> HIDE DEF top
  <2>2. Known(rep) \in SUBSET (1..top)
    BY <2>1 DEF top
  <2>3. QED BY <2>2
<1> HIDE DEF shown, after, terms, col
<1>8. Ordered(after.order, Answer(after))
  <2>1. DOMAIN after.order \in SUBSET Int /\ IsFiniteSet(DOMAIN after.order)
    <3>1. Known(rep) \in SUBSET Int /\ IsFiniteSet(Known(rep))
      BY <1>5 DEF Ordered
    <3>2. IsFiniteSet(Known(rep) \union {0})
      BY <3>1, FS_AddElement
    <3>3. {0} \union Known(rep) = Known(rep) \union {0}
      OBVIOUS
    <3>4. DOMAIN after.order = Known(rep) \union {0}
      BY <1>4, <3>3
    <3>5. Known(rep) \union {0} \in SUBSET Int
      BY <3>1
    <3>6. QED BY <3>2, <3>4, <3>5
  <2>2. \A p \in DOMAIN after.order : \A f \in Answer(after) : after.order[p][f] \in Int
    BY <1>1, <1>2, <1>4, <1>5, <1>7 DEF Ordered
  <2>3. QED BY <2>1, <2>2 DEF Ordered
<1>9. 1 \in 1..n /\ n \in Int /\ 0 <= n /\ \A i \in 1..n : i <= n
  BY KeyParts
<1>10. ASSUME NEW f \in Answer(after), NEW g \in Answer(after)
       PROVE  /\ Same(after.shown, GroupColumns(rep, n), f, g) =>
                   \A p \in DOMAIN after.order : p <= n => after.order[p][f] = after.order[p][g]
              /\ ~Same(after.shown, GroupColumns(rep, n), f, g) =>
                   \E p \in DOMAIN after.order : p <= n /\ after.order[p][f] # after.order[p][g]
  <2>1. f \in DOMAIN shown /\ g \in DOMAIN shown
    BY <1>1, <1>2
  <2>2. /\ Same(shown, GroupColumns(rep, n), f, g) => \A p \in Known(rep) : p <= n => terms[p][f] = terms[p][g]
        /\ \A i \in 1..n : IsColumn(rep, rep.groups[i].col) /\ shown[f][rep.groups[i].col] # shown[g][rep.groups[i].col]
              => i \in Known(rep) /\ terms[i][f] # terms[i][g]
    BY <1>1, <2>1, KeysTell DEF terms
  <2>3. ASSUME Same(shown, GroupColumns(rep, n), f, g) PROVE shown[f][col] = shown[g][col]
    <3>1. col \in GroupColumns(rep, n)
      BY <1>6, <1>9 DEF GroupColumns, col
    <3>2. QED BY <2>3, <3>1 DEF Same
  <2>4. ASSUME ~Same(shown, GroupColumns(rep, n), f, g)
        PROVE  \E i \in 1..n : IsColumn(rep, rep.groups[i].col)
                               /\ shown[f][rep.groups[i].col] # shown[g][rep.groups[i].col]
    BY <2>4 DEF Same, GroupColumns
  <2>5. ASSUME ~Same(shown, GroupColumns(rep, n), f, g)
        PROVE  \E p \in DOMAIN after.order : p <= n /\ after.order[p][f] # after.order[p][g]
    BY <1>4, <1>7, <1>9, <2>2, <2>4, <2>5
  <2>6. ASSUME Same(shown, GroupColumns(rep, n), f, g), NEW p \in DOMAIN after.order, p <= n
        PROVE  after.order[p][f] = after.order[p][g]
    BY <1>2, <1>4, <1>7, <2>2, <2>3, <2>6
  <2>7. QED BY <1>4, <2>5, <2>6
<1>11. Whole(rep, after, n)
  BY <1>8, <1>9, <1>10, WholeByOrder
<1>12. QED BY <1>11 DEF after

-----------------------------------------------------------------------------
(* Rolled up: each pass numbers the groups that its rows are shown under.  *)
Passes(rep, base, n) == Buckets(rep, base, Rankable(rep), OwnOps(rep), n)
Bucketed(rep, base) == Passes(rep, base, Len(rep.groups))
OwnColumns(rep) ==
  \A i \in Rankable(rep), j \in 1..Len(rep.groups) : rep.groups[i].col = rep.groups[j].col => i = j
Apart(rep, base, i) ==
  LET g == rep.groups[i]
      before == Passes(rep, base, i - 1).shown
      total == Totals(before, Parents(rep, i) \union {g.col}, g.topn, g.topn.op)
  IN  \A f \in DOMAIN base : /\ before[f][g.col] # OthersLabel
                             /\ \A h \in Alike(before, f, Parents(rep, i)) :
                                  before[f][g.col] # before[h][g.col] => total[f] # total[h]

LEMMA RankableColumns ==
  ASSUME NEW rep, IsQuery(rep)
  PROVE  Ranks(rep, Rankable(rep), Columns(rep))
<1>1. ASSUME NEW i \in Rankable(rep) PROVE rep.groups[i].col \in Columns(rep)
  BY RankableParts
<1>2. QED BY <1>1 DEF Ranks

(* After the pass of its group, a column stays.                            *)
LEMMA GroupKept ==
  ASSUME NEW rep, IsQuery(rep), OwnColumns(rep), NEW base, Numbers(base, Columns(rep)), NEW k \in Nat, k <= Len(rep.groups),
         NEW j \in 1..k, IsColumn(rep, rep.groups[j].col), NEW f \in DOMAIN base
  PROVE  Bucketed(rep, base).shown[f][rep.groups[j].col] = Passes(rep, base, k).shown[f][rep.groups[j].col]
<1> DEFINE size == Len(rep.groups)
           c == rep.groups[j].col
<1>1. size \in Nat /\ c \in Columns(rep) /\ k <= size
  BY KeyParts
<1>2. j \in 1..size /\ j <= k /\ j \in Int
  <2>1. size \in Nat /\ k <= size /\ j \in 1..k
    BY <1>1
  <2> HIDE DEF size
  <2>2. QED BY <2>1
<1>3. ASSUME NEW i \in Rankable(rep), k < i PROVE rep.groups[i].col # c
  <2>1. rep.groups[i].col = rep.groups[j].col => i = j
    BY <1>2 DEF OwnColumns
  <2>2. i \in Nat
    BY RankableParts
  <2>3. i # j
    BY <1>2, <1>3, <2>2
  <2>4. QED BY <2>1, <2>3
<1>4. \A i \in Rankable(rep) : k < i /\ i <= size => rep.groups[i].col # c
  BY <1>3
<1> HIDE DEF size, c
<1> DEFINE among == Rankable(rep)
           ops == OwnOps(rep)
           all == Columns(rep)
<1>5. Ranks(rep, among, all)
  BY RankableColumns
<1>6. Numbers(base, all) /\ c \in all /\ \A i \in among : k < i /\ i <= size => rep.groups[i].col # c
  BY <1>1, <1>4
<1> HIDE DEF among, ops, all
<1>7. Buckets(rep, base, among, ops, size).shown[f][c] = Buckets(rep, base, among, ops, k).shown[f][c]
  BY <1>1, <1>5, <1>6, ColumnKept
<1>8. QED BY <1>7 DEF Bucketed, Passes, among, ops, size, c

PassTells(rep, base, i, f, h) ==
  LET place == Passes(rep, base, i).place
      shown == Bucketed(rep, base).shown
      c == rep.groups[i].col
  IN  /\ place[f] \in Int /\ place[h] \in Int
      /\ place[f] = place[h] <=> shown[f][c] = shown[h][c]

LEMMA PassesTell ==
  ASSUME NEW rep, IsQuery(rep), OwnColumns(rep), NEW base, Numbers(base, Columns(rep)),
         NEW i \in Rankable(rep), Apart(rep, base, i), NEW f \in DOMAIN base, NEW h \in DOMAIN base,
         \A j \in 1..(i - 1) : IsColumn(rep, rep.groups[j].col) =>
            Bucketed(rep, base).shown[f][rep.groups[j].col] = Bucketed(rep, base).shown[h][rep.groups[j].col]
  PROVE  PassTells(rep, base, i, f, h)
<1> DEFINE g == rep.groups[i]
           before == Passes(rep, base, i - 1)
           parents == Parents(rep, i)
           op == OwnOps(rep)[i]
           all == Columns(rep)
<1>1. /\ i \in Nat /\ i - 1 \in Nat /\ i > 0 /\ i <= Len(rep.groups) /\ i \in 1..Len(rep.groups)
      /\ IsColumn(rep, g.col) /\ g.col \in all /\ g.topn.measure \in all /\ g.topn.n \in 0..(Beyond - 1)
      /\ op = g.topn.op /\ op \in {"Sum", "Count", "Maximum"}
  BY RankableParts
<1>2. Len(rep.groups) \in Nat
  BY KeyParts
<1>3. Numbers(before.shown, all) /\ DOMAIN before.shown = DOMAIN base
  <2> DEFINE among == Rankable(rep)
             ops == OwnOps(rep)
             n == i - 1
  <2>1. Ranks(rep, among, all) /\ n \in Nat /\ Numbers(base, all)
    BY <1>1, RankableColumns
  <2> HIDE DEF among, ops, all, n
  <2>2. /\ Numbers(Buckets(rep, base, among, ops, n).shown, all)
        /\ DOMAIN Buckets(rep, base, among, ops, n).shown = DOMAIN base
    BY <2>1, BucketsNumbers
  <2>3. QED BY <2>2 DEF Passes, among, ops, n
<1>4. Passes(rep, base, i) = Bucket(before, parents, g, op)
  <2>1. Passes(rep, base, i) = Stage(rep, Rankable(rep), before, i, OwnOps(rep))
    BY <1>1, StepFrom DEF Passes
  <2>2. QED BY <2>1 DEF Stage
<1>5. h \in Alike(before.shown, f, parents)
  <2>1. ASSUME NEW c \in parents PROVE before.shown[h][c] = before.shown[f][c]
    <3>1. PICK j \in 1..(i - 1) : c = rep.groups[j].col /\ IsColumn(rep, c)
      BY DEF Parents, Outer
    <3> DEFINE k == i - 1
    <3>2. k \in Nat /\ k <= Len(rep.groups) /\ j \in 1..k
      <4> DEFINE a == Len(rep.groups)
      <4>1. a \in Nat /\ i <= a /\ i \in Nat
        BY <1>1, <1>2
      <4> HIDE DEF a
      <4>2. k <= a
        BY <4>1
      <4>3. QED BY <1>1, <4>2 DEF a
    <3>3. /\ before.shown = Passes(rep, base, k).shown
          /\ Bucketed(rep, base).shown[f][rep.groups[j].col] = Bucketed(rep, base).shown[h][rep.groups[j].col]
      BY <3>1
    <3> HIDE DEF k, before
    <3>4. /\ Bucketed(rep, base).shown[f][rep.groups[j].col] = Passes(rep, base, k).shown[f][rep.groups[j].col]
          /\ Bucketed(rep, base).shown[h][rep.groups[j].col] = Passes(rep, base, k).shown[h][rep.groups[j].col]
      BY <3>1, <3>2, GroupKept
    <3>5. QED BY <3>1, <3>3, <3>4
  <2>2. QED BY <1>3, <2>1 DEF Alike
<1>6. Separated(before, all, parents, g, op, f, h)
  <2>1. Compared(before.shown, all, parents, g, op, f, h)
    <3> HIDE DEF before, parents, g, op, all
    <3>1. QED BY <1>1, <1>3, <1>5 DEF Compared
  <2>2. /\ before.shown[f][g.col] # OthersLabel /\ before.shown[h][g.col] # OthersLabel
        /\ before.shown[f][g.col] # before.shown[h][g.col] =>
             Totals(before.shown, parents \union {g.col}, g.topn, g.topn.op)[f]
               # Totals(before.shown, parents \union {g.col}, g.topn, g.topn.op)[h]
    BY <1>5 DEF Apart
  <2> HIDE DEF before, parents, g, op, all
  <2>3. QED BY <1>1, <2>1, <2>2 DEF Separated
<1>7. PlaceTells(Bucket(before, parents, g, op), g.col, f, h)
  <2> HIDE DEF before, parents, g, op, all
  <2>1. QED BY <1>6, BucketTells
<1>8. \A x \in DOMAIN base : Bucketed(rep, base).shown[x][g.col] = Passes(rep, base, i).shown[x][g.col]
  <2>1. i \in 1..i
    BY <1>1
  <2>2. QED BY <1>1, <2>1, GroupKept
<1>9. PlaceTells(Passes(rep, base, i), g.col, f, h)
  BY <1>4, <1>7
<1>10. QED BY <1>8, <1>9 DEF PlaceTells, PassTells

(* The order of a query rolled up: the ordering columns, then other keys.  *)
KeysLeft(rep) == {p \in Known(rep) : SortKeys(rep)[p].col \notin {rep.groups[i].col : i \in Rankable(rep)}}

LEMMA RolledParts ==
  ASSUME NEW rep, Len(rep.groups) \in Nat, NEW text
  PROVE  LET after == RolledUp(rep, text)
             base == Told(text)
         IN  /\ after.shown = Bucketed(rep, base).shown /\ Answer(after) = Answer(text)
             /\ DOMAIN after.order = {i - Len(rep.groups) : i \in Rankable(rep)} \union KeysLeft(rep)
             /\ \A p \in DOMAIN after.order :
                  after.order[p] = IF p <= 0 THEN Passes(rep, base, p + Len(rep.groups)).place
                                   ELSE Terms(rep, Bucketed(rep, base).shown, KeysLeft(rep))[p]
<1> DEFINE base == Told(text)
           inner == Wrapped(rep, text, {}, TRUE)
           after == RolledUp(rep, text)
           final == Bucketed(rep, base).shown
           order == [p \in {i - Len(rep.groups) : i \in Rankable(rep)} \union KeysLeft(rep) |->
                       IF p <= 0 THEN Passes(rep, base, p + Len(rep.groups)).place ELSE Terms(rep, final, KeysLeft(rep))[p]]
<1>1. inner.shown = base /\ DOMAIN base = Answer(text)
  <2>1. PICK runs : inner = Wrapped(rep, text, {}, runs)
    OBVIOUS
  <2> HIDE DEF inner, base
  <2>2. DOMAIN inner.shown = Answer(text) /\ inner.shown = Told(text)
    BY <2>1, WrapAnswers
  <2>3. QED BY <2>2 DEF base
<1>2. after = [shown |-> final, where |-> <<>>, runs |-> TRUE, order |-> order]
  BY <1>1 DEF RolledUp, Bucketed, Passes, KeysLeft
<1> HIDE DEF inner, base, order
<1>3. after.shown = final /\ after.where = <<>> /\ after.order = order
  <2> HIDE DEF final, after
  <2>1. QED BY <1>2
<1>4. DOMAIN final = DOMAIN base
  <2>1. Len(rep.groups) \in Nat
    OBVIOUS
  <2>2. QED BY <2>1, BucketsKeepRows DEF Bucketed, Passes
<1>5. Answer(after) = Answer(text)
  <2> HIDE DEF final, after
  <2>1. QED BY <1>1, <1>3, <1>4 DEF Answer
<1>6. QED BY <1>3, <1>5 DEF order, base

(* With the Top-N on the outermost groups, the terms up to a place tell    *)
(* exactly the groups up to it apart.                                      *)
RolledTells(rep, base, n, f, g) ==
  LET shown == Bucketed(rep, base).shown
      alike == Same(shown, GroupColumns(rep, n), f, g)
  IN  /\ \A i \in Rankable(rep) : alike /\ i <= n => Passes(rep, base, i).place[f] = Passes(rep, base, i).place[g]
      /\ ~alike => \/ \E i \in Rankable(rep) : i <= n /\ Passes(rep, base, i).place[f] # Passes(rep, base, i).place[g]
                   \/ \E i \in 1..n : /\ i \notin Rankable(rep) /\ IsColumn(rep, rep.groups[i].col)
                                      /\ shown[f][rep.groups[i].col] # shown[g][rep.groups[i].col]

LEMMA RankedTell ==
  ASSUME NEW rep, IsQuery(rep), OwnColumns(rep), NEW base, Numbers(base, Columns(rep)),
         \A i \in Rankable(rep) : Apart(rep, base, i) /\ \A j \in 1..i : j \in Rankable(rep),
         NEW n \in 1..Len(rep.groups), NEW f \in DOMAIN base, NEW g \in DOMAIN base
  PROVE  RolledTells(rep, base, n, f, g)
<1> DEFINE shown == Bucketed(rep, base).shown
           alike == Same(shown, GroupColumns(rep, n), f, g)
           place(i) == Passes(rep, base, i).place
           col(i) == rep.groups[i].col
<1>1. /\ alike => \A i \in 1..n : IsColumn(rep, col(i)) => shown[f][col(i)] = shown[g][col(i)]
      /\ ~alike => \E i \in 1..n : IsColumn(rep, col(i)) /\ shown[f][col(i)] # shown[g][col(i)]
  BY DEF Same, GroupColumns
<1>2. ASSUME NEW i \in Rankable(rep), \A j \in 1..(i - 1) : IsColumn(rep, col(j)) => shown[f][col(j)] = shown[g][col(j)]
      PROVE  place(i)[f] = place(i)[g] <=> shown[f][col(i)] = shown[g][col(i)]
  <2>1. PassTells(rep, base, i, f, g)
    BY <1>2, PassesTell
  <2>2. QED BY <2>1 DEF PassTells
<1>3. \A i \in Rankable(rep) : i \in Nat /\ i > 0 /\ IsColumn(rep, col(i)) /\ \A j \in 1..(i - 1) : j \in Rankable(rep)
  <2> SUFFICES ASSUME NEW i \in Rankable(rep)
               PROVE  i \in Nat /\ i > 0 /\ IsColumn(rep, col(i)) /\ \A j \in 1..(i - 1) : j \in Rankable(rep)
    OBVIOUS
  <2>1. i \in Nat /\ i > 0 /\ IsColumn(rep, col(i))
    BY RankableParts
  <2>2. \A j \in 1..(i - 1) : j \in 1..i
    BY <2>1
  <2>3. QED BY <2>1, <2>2
<1>4. n \in Int /\ n > 0 /\ \A i \in 1..n : i \in Nat /\ i <= n
  BY KeyParts
<1> HIDE DEF alike, shown, place, col
<1>5. ASSUME alike, NEW i \in Rankable(rep), i <= n PROVE place(i)[f] = place(i)[g]
  <2>1. i \in 1..n /\ \A j \in 1..(i - 1) : j \in 1..n
    BY <1>3, <1>4, <1>5
  <2>2. QED BY <1>1, <1>2, <1>3, <1>5, <2>1
<1>6. ASSUME ~alike, \A i \in 1..n : i \notin Rankable(rep) => ~(IsColumn(rep, col(i)) /\ shown[f][col(i)] # shown[g][col(i)])
      PROVE  \E i \in Rankable(rep) : i <= n /\ place(i)[f] # place(i)[g]
  <2> DEFINE Differ == {i \in 1..n : IsColumn(rep, col(i)) /\ shown[f][col(i)] # shown[g][col(i)]}
  <2>1. Differ # {} /\ Differ \in SUBSET Nat
    BY <1>1, <1>4, <1>6
  <2>2. PICK i \in Differ : \A j \in Differ : i <= j
    <3> HIDE DEF Differ
    <3>1. QED BY <2>1, LeastNumber
  <2>3. i \in Rankable(rep) /\ i \in 1..n /\ i <= n /\ shown[f][col(i)] # shown[g][col(i)]
    BY <1>4, <1>6
  <2>4. ASSUME NEW j \in 1..(i - 1), IsColumn(rep, col(j)) PROVE shown[f][col(j)] = shown[g][col(j)]
    <3>1. j \in 1..n /\ ~(i <= j)
      BY <1>4, <2>3
    <3>2. QED BY <2>2, <2>4, <3>1
  <2>5. place(i)[f] # place(i)[g]
    BY <1>2, <2>3, <2>4
  <2>6. QED BY <2>3, <2>5
<1>7. QED BY <1>5, <1>6 DEF RolledTells, alike, shown, place, col

LEMMA RolledOrdered ==
  ASSUME NEW rep, IsQuery(rep), OwnColumns(rep), NEW text, Plain(rep, text), \A i \in Rankable(rep) : Apart(rep, Told(text), i)
  PROVE  LET after == RolledUp(rep, text)
             size == Len(rep.groups)
             terms == Terms(rep, after.shown, Known(rep))
         IN  /\ Ordered(after.order, Answer(after)) /\ Numbers(after.shown, Columns(rep)) /\ DOMAIN after.shown = Answer(after)
             /\ \A i \in Rankable(rep) : /\ i - size \in DOMAIN after.order /\ i - size <= 0
                                         /\ after.order[i - size] = Passes(rep, Told(text), i).place
             /\ KeysLeft(rep) \subseteq DOMAIN after.order
             /\ \A p \in KeysLeft(rep) : p > 0 /\ after.order[p] = terms[p]
             /\ DOMAIN after.order = {i - size : i \in Rankable(rep)} \union KeysLeft(rep)
<1> DEFINE after == RolledUp(rep, text)
           base == Told(text)
           size == Len(rep.groups)
           all == Columns(rep)
           left == KeysLeft(rep)
           shown == Bucketed(rep, base).shown
           terms == Terms(rep, shown, Known(rep))
           place(i) == Passes(rep, base, i).place
           ranks == {i - size : i \in Rankable(rep)}
<1>1. size \in Nat
  BY KeyParts
<1>2. /\ after.shown = shown /\ Answer(after) = Answer(text)
      /\ DOMAIN after.order = ranks \union left
      /\ \A p \in DOMAIN after.order : after.order[p] = IF p <= 0 THEN place(p + size) ELSE Terms(rep, shown, left)[p]
  BY <1>1, RolledParts
<1>3. Numbers(base, all) /\ DOMAIN base = Answer(text)
  BY PlainParts
<1>4. Numbers(shown, all) /\ DOMAIN shown = DOMAIN base
  <2> DEFINE among == Rankable(rep)
             ops == OwnOps(rep)
  <2>1. Ranks(rep, among, all)
    BY RankableColumns
  <2> HIDE DEF among, ops, all, size
  <2>2. /\ Numbers(Buckets(rep, base, among, ops, size).shown, all)
        /\ DOMAIN Buckets(rep, base, among, ops, size).shown = DOMAIN base
    BY <1>1, <1>3, <2>1, BucketsNumbers
  <2>3. QED BY <2>2 DEF Bucketed, Passes, among, ops, size
<1>5. \A i \in Rankable(rep) : i \in Nat /\ i > 0 /\ i <= size
  BY RankableParts
<1>6. left \in SUBSET Known(rep) /\ \A p \in left : p \in Int /\ p > 0
  <2>1. Known(rep) \in SUBSET (1..(Len(rep.groups) + Len(rep.sorts)))
    BY KeyParts DEF Known
  <2> DEFINE top == Len(rep.groups) + Len(rep.sorts)
  <2>2. Known(rep) \in SUBSET (1..top)
    BY <2>1
  <2> HIDE DEF top
  <2>3. QED BY <2>2 DEF KeysLeft
<1>7. Ordered(terms, DOMAIN shown) /\ DOMAIN terms = Known(rep)
  BY <1>4, TermsOrder
<1>8. \A p \in left : Terms(rep, shown, left)[p] = terms[p]
  BY <1>6 DEF Terms
<1>9. \A i \in Rankable(rep) : \A f \in DOMAIN base : place(i)[f] \in Int
  <2> SUFFICES ASSUME NEW i \in Rankable(rep), NEW f \in DOMAIN base PROVE place(i)[f] \in Int
    OBVIOUS
  <2>1. Apart(rep, base, i)
    OBVIOUS
  <2> HIDE DEF base
  <2>2. PassTells(rep, base, i, f, f)
    BY <1>3, <2>1, PassesTell
  <2>3. QED BY <2>2 DEF PassTells
<1> HIDE DEF after, base, size, all, left, shown, terms, place
<1>10. \A i \in Rankable(rep) : i - size <= 0 /\ i - size \in Int /\ (i - size) + size = i /\ i - size \in (1 - size)..0
  BY <1>1, <1>5
<1>11. \A i \in Rankable(rep) : i - size \in DOMAIN after.order /\ after.order[i - size] = place(i)
  BY <1>2, <1>10
<1>12. \A p \in left : p \in DOMAIN after.order /\ after.order[p] = terms[p]
  BY <1>2, <1>6, <1>8
<1>13. DOMAIN after.order \in SUBSET Int /\ IsFiniteSet(DOMAIN after.order)
  <2>1. ranks \in SUBSET ((1 - size)..0)
    BY <1>10
  <2>2. IsFiniteSet((1 - size)..0)
    BY <1>1, FS_Interval
  <2> HIDE DEF ranks
  <2>3. IsFiniteSet(ranks)
    BY <2>1, <2>2, FS_Subset
  <2>4. IsFiniteSet(left) /\ left \in SUBSET Int
    <3>1. IsFiniteSet(Known(rep))
      BY <1>7 DEF Ordered
    <3>2. QED BY <1>6, <3>1, FS_Subset
  <2>5. IsFiniteSet(ranks \union left)
    BY <2>3, <2>4, FS_Union
  <2>6. ranks \in SUBSET Int
    BY <1>1, <2>1
  <2>7. QED BY <1>2, <2>4, <2>5, <2>6
<1>14. \A p \in DOMAIN after.order : \A f \in Answer(after) : after.order[p][f] \in Int
  <2> SUFFICES ASSUME NEW p \in DOMAIN after.order, NEW f \in Answer(after) PROVE after.order[p][f] \in Int
    OBVIOUS
  <2>1. f \in DOMAIN base /\ f \in DOMAIN shown
    BY <1>2, <1>3, <1>4
  <2>2. CASE p \in left
    BY <1>6, <1>7, <1>12, <2>1, <2>2 DEF Ordered
  <2>3. CASE p \in ranks
    BY <1>9, <1>11, <2>1, <2>3
  <2>4. QED BY <1>2, <2>2, <2>3
<1>15. Ordered(after.order, Answer(after))
  BY <1>13, <1>14 DEF Ordered
<1>16. DOMAIN shown = Answer(after)
  BY <1>2, <1>3, <1>4
<1>17. QED BY <1>2, <1>4, <1>6, <1>10, <1>11, <1>12, <1>15, <1>16 DEF after, base, size, all, left, terms, place

LEMMA RolledWhole ==
  ASSUME NEW rep, IsQuery(rep), OwnColumns(rep), NEW text, Plain(rep, text),
         \A i \in Rankable(rep) : Apart(rep, Told(text), i) /\ \A j \in 1..i : j \in Rankable(rep),
         NEW n \in 1..Len(rep.groups)
  PROVE  Whole(rep, RolledUp(rep, text), n)
<1> DEFINE after == RolledUp(rep, text)
           base == Told(text)
           size == Len(rep.groups)
           left == KeysLeft(rep)
           terms == Terms(rep, after.shown, Known(rep))
           place(i) == Passes(rep, base, i).place
           last == IF n \in Rankable(rep) THEN n - size ELSE n
<1>1. \A i \in Rankable(rep) : Apart(rep, Told(text), i)
  OBVIOUS
<1>2. /\ Ordered(after.order, Answer(after)) /\ Numbers(after.shown, Columns(rep)) /\ DOMAIN after.shown = Answer(after)
      /\ \A i \in Rankable(rep) : /\ i - size \in DOMAIN after.order /\ i - size <= 0
                                  /\ after.order[i - size] = place(i)
      /\ left \subseteq DOMAIN after.order
      /\ \A p \in left : p > 0 /\ after.order[p] = terms[p]
      /\ DOMAIN after.order = {i - size : i \in Rankable(rep)} \union left
  BY <1>1, RolledOrdered
<1>3. size \in Nat /\ n \in 1..size
  BY KeyParts
<1>4. \A i \in Rankable(rep) : i \in Nat /\ i > 0 /\ i <= size /\ \A j \in 1..i : j \in Rankable(rep)
  BY RankableParts
<1>5. after.shown = Bucketed(rep, base).shown /\ DOMAIN base = Answer(after) /\ Numbers(base, Columns(rep))
  <2>1. after.shown = Bucketed(rep, base).shown /\ Answer(after) = Answer(text)
    BY <1>3, RolledParts
  <2>2. DOMAIN base = Answer(text) /\ Numbers(base, Columns(rep))
    BY PlainParts
  <2>3. QED BY <2>1, <2>2
<1>6. left \subseteq Known(rep)
  BY DEF KeysLeft
<1>7. \A i \in 1..n : i \notin Rankable(rep) /\ i \in Known(rep) => i \in left
  <2> SUFFICES ASSUME NEW i \in 1..n, i \notin Rankable(rep), i \in Known(rep) PROVE i \in left
    OBVIOUS
  <2>1. i \in 1..size
    <3> HIDE DEF size
    <3>1. QED BY <1>3
  <2>2. SortKeys(rep)[i] = rep.groups[i]
    BY <2>1, KeyParts
  <2>3. \A j \in Rankable(rep) : rep.groups[j].col # rep.groups[i].col
    BY <2>1 DEF OwnColumns
  <2>4. QED BY <2>2, <2>3 DEF KeysLeft
<1>8. ASSUME NEW f \in Answer(after), NEW g \in Answer(after)
      PROVE  RolledTells(rep, base, n, f, g)
  <2>1. f \in DOMAIN base /\ g \in DOMAIN base
    BY <1>5
  <2> HIDE DEF base
  <2>2. \A i \in Rankable(rep) : Apart(rep, base, i) /\ \A j \in 1..i : j \in Rankable(rep)
    BY DEF base
  <2>3. QED BY <1>5, <2>1, <2>2, RankedTell
<1>9. ASSUME NEW f \in Answer(after), NEW g \in Answer(after)
      PROVE  /\ Same(after.shown, GroupColumns(rep, n), f, g) => \A p \in Known(rep) : p <= n => terms[p][f] = terms[p][g]
             /\ \A i \in 1..n : IsColumn(rep, rep.groups[i].col) /\ after.shown[f][rep.groups[i].col] # after.shown[g][rep.groups[i].col]
                  => i \in Known(rep) /\ terms[i][f] # terms[i][g]
  <2> DEFINE shown == after.shown
  <2>1. Numbers(shown, Columns(rep)) /\ f \in DOMAIN shown /\ g \in DOMAIN shown
    BY <1>2
  <2>2. terms = Terms(rep, shown, Known(rep))
    OBVIOUS
  <2> HIDE DEF shown, terms
  <2>3. /\ Same(shown, GroupColumns(rep, n), f, g) => \A p \in Known(rep) : p <= n => terms[p][f] = terms[p][g]
        /\ \A i \in 1..n : IsColumn(rep, rep.groups[i].col) /\ shown[f][rep.groups[i].col] # shown[g][rep.groups[i].col]
             => i \in Known(rep) /\ terms[i][f] # terms[i][g]
    BY <2>1, <2>2, KeysTell
  <2>4. QED BY <2>3 DEF shown
<1> HIDE DEF after, base, size, left, terms, place
<1>10. \A i \in Rankable(rep) : i - size <= last <=> i <= n
  <2>1. CASE n \in Rankable(rep)
    BY <1>3, <1>4, <2>1
  <2>2. CASE n \notin Rankable(rep)
    <3>1. \A i \in Rankable(rep) : ~(n <= i)
      BY <1>3, <1>4, <2>2
    <3>2. QED BY <1>2, <1>3, <1>4, <2>2, <3>1
  <2>3. QED BY <2>1, <2>2
<1>11. \A p \in left : p <= last => p <= n /\ n \notin Rankable(rep)
  <2>1. \A p \in left : p \in Int /\ p > 0
    BY <1>2 DEF Ordered
  <2>2. n \in Rankable(rep) => n - size <= 0
    BY <1>2
  <2>3. QED BY <1>3, <2>1, <2>2
<1>12. last \in Int
  BY <1>3
<1>13. \A i \in 1..n : i \notin Rankable(rep) => i <= last
  BY <1>3, <1>4
<1> HIDE DEF last
<1>14. ASSUME NEW f \in Answer(after), NEW g \in Answer(after)
       PROVE  /\ Same(after.shown, GroupColumns(rep, n), f, g) =>
                   \A p \in DOMAIN after.order : p <= last => after.order[p][f] = after.order[p][g]
              /\ ~Same(after.shown, GroupColumns(rep, n), f, g) =>
                   \E p \in DOMAIN after.order : p <= last /\ after.order[p][f] # after.order[p][g]
  <2> DEFINE alike == Same(after.shown, GroupColumns(rep, n), f, g)
  <2>1. /\ \A i \in Rankable(rep) : alike /\ i <= n => place(i)[f] = place(i)[g]
        /\ ~alike => \/ \E i \in Rankable(rep) : i <= n /\ place(i)[f] # place(i)[g]
                     \/ \E i \in 1..n : /\ i \notin Rankable(rep) /\ IsColumn(rep, rep.groups[i].col)
                                        /\ after.shown[f][rep.groups[i].col] # after.shown[g][rep.groups[i].col]
    BY <1>5, <1>8 DEF RolledTells, place
  <2>2. /\ alike => \A p \in Known(rep) : p <= n => terms[p][f] = terms[p][g]
        /\ \A i \in 1..n : IsColumn(rep, rep.groups[i].col) /\ after.shown[f][rep.groups[i].col] # after.shown[g][rep.groups[i].col]
             => i \in Known(rep) /\ terms[i][f] # terms[i][g]
    BY <1>9
  <2> HIDE DEF alike
  <2>3. ASSUME alike, NEW p \in DOMAIN after.order, p <= last PROVE after.order[p][f] = after.order[p][g]
    <3>1. CASE p \in left
      BY <1>2, <1>6, <1>11, <2>2, <2>3, <3>1
    <3>2. CASE p \notin left
      <4>1. PICK i \in Rankable(rep) : p = i - size
        BY <1>2, <3>2
      <4>2. QED BY <1>2, <1>10, <2>1, <2>3, <4>1
    <3>3. QED BY <3>1, <3>2
  <2>4. ASSUME ~alike PROVE \E p \in DOMAIN after.order : p <= last /\ after.order[p][f] # after.order[p][g]
    <3>1. CASE \E i \in Rankable(rep) : i <= n /\ place(i)[f] # place(i)[g]
      BY <1>2, <1>10, <3>1
    <3>2. CASE \E i \in 1..n : /\ i \notin Rankable(rep) /\ IsColumn(rep, rep.groups[i].col)
                               /\ after.shown[f][rep.groups[i].col] # after.shown[g][rep.groups[i].col]
      BY <1>2, <1>7, <1>13, <2>2, <3>2
    <3>3. QED BY <2>1, <2>4, <3>1, <3>2
  <2>5. QED BY <2>3, <2>4 DEF alike
<1>15. Whole(rep, after, n)
  BY <1>2, <1>12, <1>14, WholeByOrder
<1>16. QED BY <1>15 DEF after

-----------------------------------------------------------------------------
(* Before Top-N every text is plain: rows as the tables show them, ordered *)
(* by the known keys.                                                      *)
LEMMA BaseIsPlain ==
  ASSUME NEW rep
  PROVE  Plain(rep, Generate(rep, FALSE)) /\ Plain(rep, Command(rep))
<1>1. ASSUME NEW rows, rows \subseteq Rows(rep), NEW where, NEW runs, NEW shown, shown = [f \in rows |-> Shown(rep, f)],
             NEW text, text = [shown |-> shown, where |-> where, order |-> Terms(rep, shown, Known(rep)), runs |-> runs]
      PROVE  Plain(rep, text)
  <2>1. text.shown = shown /\ text.order = Terms(rep, shown, Known(rep)) /\ {"shown", "where", "order"} \subseteq DOMAIN text
    BY <1>1
  <2>2. DOMAIN shown = rows
    BY <1>1
  <2>3. QED BY <1>1, <2>1, <2>2 DEF Plain
<1>2. Plain(rep, Generate(rep, FALSE))
  <2> DEFINE from == {f \in Rows(rep) : \A i \in Joins(rep) : Satisfies(f, rep.links[i])}
             shown == [f \in from |-> Shown(rep, f)]
  <2>1. \E runs : Generate(rep, FALSE) = [shown |-> shown, where |-> <<>>, order |-> Terms(rep, shown, Known(rep)), runs |-> runs]
    BY DEF Generate
  <2>2. from \subseteq Rows(rep)
    OBVIOUS
  <2> HIDE DEF from
  <2>3. shown = [f \in from |-> Shown(rep, f)]
    OBVIOUS
  <2> HIDE DEF shown
  <2>4. QED BY <1>1, <2>1, <2>2, <2>3
<1>3. Plain(rep, Command(rep))
  <2> DEFINE shown == [f \in Linked(rep) |-> Shown(rep, f)]
             Alternative(keeps) == {f \in DOMAIN shown : \A c \in DOMAIN keeps : shown[f][c] \in keeps[c]}
             where == [i \in DOMAIN rep.command |-> Alternative(rep.command[i])]
             text == Command(rep)
  <2>1. text = [shown |-> shown, where |-> where, order |-> Terms(rep, shown, Known(rep)), runs |-> TRUE]
    BY DEF Command
  <2>2. Linked(rep) \subseteq Rows(rep)
    BY DEF Linked
  <2>3. shown = [f \in Linked(rep) |-> Shown(rep, f)]
    OBVIOUS
  <2> HIDE DEF shown, where, text
  <2>4. PICK runs : text = [shown |-> shown, where |-> where, order |-> Terms(rep, shown, Known(rep)), runs |-> runs]
    BY <2>1
  <2>5. Plain(rep, text)
    BY <1>1, <2>2, <2>3, <2>4
  <2>6. QED BY <2>5 DEF text
<1>4. QED BY <1>2, <1>3

LEMMA FoldIsPlain ==
  ASSUME NEW rep, NEW text, Plain(rep, text), NEW clauses
  PROVE  Plain(rep, Fold(text, clauses))
<1>1. \E where : Fold(text, clauses) = [text EXCEPT !.where = where]
  BY DEF Fold
<1>2. PICK where : Fold(text, clauses) = [text EXCEPT !.where = where]
  BY <1>1
<1>3. {"shown", "where", "order"} \subseteq DOMAIN text
  BY DEF Plain
<1>4. DOMAIN Fold(text, clauses) = DOMAIN text /\ Fold(text, clauses).shown = text.shown /\ Fold(text, clauses).order = text.order
  BY <1>2
<1>5. QED BY <1>3, <1>4 DEF Plain

LEMMA WindowIsPlain ==
  ASSUME NEW rep, IsQuery(rep), NEW text, Plain(rep, text)
  PROVE  Plain(rep, WithWindow(rep, text))
<1>1. PICK r : WithWindow(rep, text) = Wrapped(rep, text, Known(rep), r)
  BY DEF WithWindow
<1>2. LET wrapped == Wrapped(rep, text, Known(rep), r)
      IN  /\ wrapped.shown = Told(text) /\ wrapped.order = Terms(rep, Told(text), Known(rep))
          /\ DOMAIN wrapped = {"shown", "where", "order", "runs"}
  BY WrapAnswers
<1>3. /\ Told(text) = [f \in Answer(text) |-> Shown(rep, f)] /\ DOMAIN Told(text) = Answer(text)
      /\ Answer(text) \subseteq DOMAIN text.shown
  BY PlainParts
<1>4. Answer(text) \subseteq Rows(rep)
  BY <1>3 DEF Plain
<1>5. QED BY <1>1, <1>2, <1>3, <1>4 DEF Plain

(* A record selection of no clauses keeps every row.                       *)
LEMMA UnselectedBase ==
  ASSUME IsQuery(dump.query), Foldless, dump.query.selection = <<>>
  PROVE  Answer(BaseSql) = SelectionAsked
<1> DEFINE q == dump.query
           rows == [f \in Linked(q) |-> Shown(q, f)]
<1>1. Keeps(rows, <<>>) = Linked(q)
  BY DEF Keeps
<1>2. CASE q.command = NoCommand
  <2>1. Generate(q, FALSE).shown = rows /\ Generate(q, FALSE).where = <<>>
    BY GenerateReads DEF Foldless
  <2>2. Answer(Generate(q, FALSE)) = DOMAIN rows
    <3> HIDE DEF rows
    <3>1. QED BY <2>1 DEF Answer
  <2>3. AuthorsRows = DOMAIN rows /\ BaseSql = Generate(q, FALSE) /\ DOMAIN rows = Linked(q)
    BY <1>2 DEF AuthorsRows, BaseSql
  <2>4. QED BY <1>1, <2>2, <2>3 DEF SelectionAsked
<1>3. CASE q.command # NoCommand
  <2>1. AuthorsRows = Answer(Command(q)) /\ BaseSql = Command(q)
    BY <1>3 DEF AuthorsRows, BaseSql
  <2>2. Command(q).shown = rows
    BY DEF Command
  <2>3. Answer(Command(q)) \subseteq Linked(q)
    <3>1. DOMAIN rows = Linked(q)
      OBVIOUS
    <3> HIDE DEF rows
    <3>2. QED BY <2>2, <3>1 DEF Answer
  <2>4. QED BY <1>1, <2>1, <2>3 DEF SelectionAsked
<1>4. QED BY <1>2, <1>3

(* From the base to the bundle: a plain text until apply_topn, then what   *)
(* it made of one, with the rows asked for; the saved rows as written.     *)
Final == {"stack", "fit", "write", "triage"}
Finished(rep, text) == IF Rankable(rep) # {} THEN WithTopN(rep, text) ELSE text
Offline(rep) == IF ~SavedApplies(rep) THEN Recovered(rep) ELSE [Recovered(rep) EXCEPT !.shown = Saved(rep, @)]
SavedInv ==
  /\ dump \in Dumps
  /\ step = "select" => sql = BaseSql
  /\ step \in {"select", "window", "rank"} => Plain(dump.query, sql)
  /\ step \in Final => \E text : Plain(dump.query, text) /\ sql = Finished(dump.query, text)
  /\ step \in {"window", "rank"} \union Final /\ Foldless /\ (folded \/ dump.query.selection = <<>>)
       => Answer(sql) = SelectionAsked
  /\ step = "triage" /\ dump.saved => offline = Offline(dump.query)

LEMMA SavedInvStep == SavedInv /\ [ReportNext]_reportVars => SavedInv'
<1> SUFFICES ASSUME SavedInv, [ReportNext]_reportVars PROVE SavedInv'
  OBVIOUS
<1> DEFINE q == dump.query
<1>1. IsQuery(q)
  BY DumpsAssumption DEF SavedInv
<1>2. ASSUME dump' = dump
      PROVE  /\ BaseSql' = BaseSql /\ SelectionAsked' = SelectionAsked /\ Foldless' = Foldless
             /\ Offline(q)' = Offline(q)
             /\ \A text : Plain(q, text)' = Plain(q, text) /\ Finished(q, text)' = Finished(q, text)
  BY <1>2 DEF BaseSql, SelectionAsked, AuthorsRows, Foldless
<1>3. Answer(sql)' = Answer(sql') /\ Plain(q, sql)' = (IF dump' = dump THEN Plain(q, sql') ELSE Plain(q, sql)')
  BY DEF Answer
<1>4. CASE Parse
  BY <1>4 DEF Parse, SavedInv, Final
<1>5. CASE TranslateAll
  BY <1>5 DEF TranslateAll, Goes, SavedInv, Final
<1>6. CASE Query
  <2>1. dump' = dump /\ step' = "select" /\ sql' = BaseSql
    BY <1>6 DEF Query, Goes, BaseSql
  <2>2. Plain(q, BaseSql)
    BY BaseIsPlain DEF BaseSql
  <2>3. Plain(q, sql)'
    BY <1>3, <2>1, <2>2
  <2>4. QED BY <1>2, <2>1, <2>3 DEF SavedInv, Final
<1>7. CASE Select
  <2>1. /\ dump' = dump /\ step = "select" /\ step' = "window" /\ folded' = Folds(q) /\ sql = BaseSql /\ Plain(q, sql)
        /\ sql' = IF Folds(q) THEN Fold(sql, q.selection) ELSE sql
    BY <1>7 DEF Select, Goes, SavedInv
  <2>2. ASSUME Foldless, folded' \/ q.selection = <<>> PROVE Answer(sql') = SelectionAsked
    <3>1. CASE Folds(q)
      BY <1>1, <2>1, <2>2, <3>1, FoldedBase
    <3>2. CASE ~Folds(q)
      <4>1. q.selection = <<>> /\ sql' = BaseSql
        BY <2>1, <2>2, <3>2
      <4>2. QED BY <1>1, <2>2, <4>1, UnselectedBase
    <3>3. QED BY <3>1, <3>2
  <2>3. Plain(q, sql')
    BY <2>1, FoldIsPlain
  <2>4. QED BY <1>2, <1>3, <2>1, <2>2, <2>3 DEF SavedInv, Final
<1>8. CASE Window
  <2>1. /\ dump' = dump /\ folded' = folded /\ step = "window" /\ step' = "rank" /\ Plain(q, sql)
        /\ sql' = IF q.window THEN WithWindow(q, sql) ELSE sql
    BY <1>8 DEF Window, Goes, SavedInv
  <2>2. Answer(WithWindow(q, sql)) = Answer(sql)
    BY WrapAnswers DEF WithWindow
  <2>3. Plain(q, WithWindow(q, sql))
    BY <1>1, <2>1, WindowIsPlain
  <2>4. Answer(sql') = Answer(sql) /\ Plain(q, sql')
    BY <2>1, <2>2, <2>3
  <2>5. QED BY <1>2, <1>3, <2>1, <2>4 DEF SavedInv, Final
<1>9. CASE Rank
  <2>1. /\ dump' = dump /\ folded' = folded /\ step = "rank" /\ step' = "stack" /\ Plain(q, sql) /\ sql' = Finished(q, sql)
    BY <1>9 DEF Rank, Goes, SavedInv, Finished
  <2>2. Len(q.groups) \in Nat
    BY <1>1, QueryParts
  <2>3. Answer(WithTopN(q, sql)) = Answer(sql)
    BY <2>2, TopNAnswers
  <2>4. Answer(sql') = Answer(sql)
    BY <2>1, <2>3 DEF Finished
  <2>5. \E text : Plain(q, text) /\ sql' = Finished(q, text)
    BY <2>1
  <2>6. QED BY <1>2, <1>3, <2>1, <2>4, <2>5 DEF SavedInv, Final
<1>10. ASSUME dump' = dump, folded' = folded, sql' = sql, step \in Final, step' \in Final \union {"over"},
              step' = "triage" /\ dump.saved => offline' = Offline(q)
       PROVE  SavedInv'
  <2>1. \E text : Plain(q, text) /\ sql' = Finished(q, text)
    BY <1>10 DEF SavedInv
  <2>2. Answer(sql') = Answer(sql)
    BY <1>10
  <2>3. QED BY <1>2, <1>3, <1>10, <2>1, <2>2 DEF SavedInv, Final
<1>11. CASE Stack
  BY <1>10, <1>11 DEF Stack, Goes, Final
<1>12. CASE Fit
  BY <1>10, <1>12 DEF Fit, Goes, Final
<1>13. CASE Write
  BY <1>10, <1>13 DEF Write, Goes, Final, Offline
<1>14. CASE Triage
  BY <1>10, <1>14 DEF Triage, Goes, Final
<1>15. CASE UNCHANGED reportVars
  <2>1. UNCHANGED <<dump, step, sql, folded, offline>>
    BY <1>15 DEF reportVars
  <2>2. QED BY <1>2, <1>3, <2>1 DEF SavedInv
<1>16. QED BY <1>4, <1>5, <1>6, <1>7, <1>8, <1>9, <1>11, <1>12, <1>13, <1>14, <1>15 DEF ReportNext

LEMMA FinishedAnswers ==
  ASSUME NEW rep, IsQuery(rep), NEW text, Plain(rep, text)
  PROVE  /\ Answer(Finished(rep, text)) = Answer(text)
         /\ Told(text) = [f \in Answer(Finished(rep, text)) |-> Shown(rep, f)]
<1>1. Answer(WithTopN(rep, text)) = Answer(text)
  BY KeyParts, TopNAnswers
<1>2. Answer(Finished(rep, text)) = Answer(text)
  BY <1>1 DEF Finished
<1>3. Told(text) = [f \in Answer(text) |-> Shown(rep, f)]
  BY PlainParts
<1>4. QED BY <1>2, <1>3

LEMMA WholeInv == SavedInv => GroupsAreWhole
<1> DEFINE q == dump.query
<1> SUFFICES ASSUME SavedInv, Queried, Rankable(q) = Ranked(q), Leading, ColumnsOfTheirOwn, TotalsDiffer,
                    NEW n \in DOMAIN q.groups
             PROVE  Whole(q, sql, n)
  BY DEF GroupsAreWhole
<1>1. IsQuery(q)
  BY DumpsAssumption DEF SavedInv
<1>2. PICK text : Plain(q, text) /\ sql = Finished(q, text)
  BY DEF SavedInv, Queried, Final
<1>3. Base = Told(text)
  <2>1. Told(text) = [f \in Answer(sql) |-> Shown(q, f)]
    BY <1>1, <1>2, FinishedAnswers
  <2>2. QED BY <2>1 DEF Base
<1>4. n \in 1..Len(q.groups) /\ DOMAIN q.groups = 1..Len(q.groups) /\ Len(q.groups) \in Nat
  BY <1>1, KeyParts
<1>5. \A i \in Rankable(q) : \A j \in 1..i : j \in Rankable(q)
  BY DEF Leading
<1>6. OwnColumns(q)
  BY <1>4 DEF ColumnsOfTheirOwn, OwnColumns
<1>7. \A i \in Rankable(q) : Apart(q, Told(text), i)
  BY <1>3 DEF TotalsDiffer, Apart, Passes
<1>8. CASE Rankable(q) = {}
  <2>1. sql = text
    BY <1>2, <1>8 DEF Finished
  <2>2. QED BY <1>1, <1>2, <1>4, <2>1, PlainWhole
<1>9. CASE Rankable(q) # {} /\ Bucketable(q)
  <2>1. sql = RolledUp(q, text)
    BY <1>2, <1>9 DEF Finished, WithTopN
  <2>2. \A i \in Rankable(q) : Apart(q, Told(text), i) /\ \A j \in 1..i : j \in Rankable(q)
    BY <1>5, <1>7
  <2> DEFINE rep == q
  <2>3. IsQuery(rep) /\ OwnColumns(rep) /\ Plain(rep, text) /\ n \in 1..Len(rep.groups)
        /\ \A i \in Rankable(rep) : Apart(rep, Told(text), i) /\ \A j \in 1..i : j \in Rankable(rep)
    BY <1>1, <1>2, <1>4, <1>6, <2>2
  <2> HIDE DEF rep
  <2>4. Whole(rep, RolledUp(rep, text), n)
    BY <2>3, RolledWhole
  <2>5. QED BY <2>1, <2>4 DEF rep
<1>10. CASE Rankable(q) # {} /\ ~Bucketable(q)
  <2>1. sql = OrderedOnly(q, text)
    BY <1>2, <1>10 DEF Finished, WithTopN
  <2>2. \A i \in Rankable(q) : i \in Nat /\ i > 0
    BY <1>1, RankableParts
  <2>3. 1 \in Rankable(q)
    <3>1. PICK i \in Rankable(q) : TRUE
      BY <1>10
    <3>2. 1 \in 1..i
      BY <2>2
    <3>3. QED BY <1>5, <3>2
  <2>4. Min(Rankable(q)) = 1
    <3> DEFINE S == Rankable(q)
    <3>1. 1 \in S /\ \A i \in S : i \in Nat /\ 1 <= i
      BY <2>2, <2>3
    <3> HIDE DEF S
    <3>2. \A x \in S : (\A y \in S : x <= y) => x = 1
      BY <3>1
    <3>3. Min(S) = 1
      BY <3>1, <3>2 DEF Min
    <3>4. QED BY <3>3 DEF S
  <2>5. QED BY <1>1, <1>2, <1>4, <2>1, <2>3, <2>4, OrderedWhole
<1>11. QED BY <1>8, <1>9, <1>10

LEMMA OfflineInv == SavedInv => OfflineShowsLive
<1> DEFINE q == dump.query
<1> SUFFICES ASSUME SavedInv, step = "triage", dump.saved, Bucketable(q), Rankable(q) = Ranked(q),
                    q.selection = <<>> \/ folded, Tree(q.links, q.tables),
                    \A i \in Ranked(q) : q.groups[i].topn.op = "Sum"
             PROVE  Told(sql) = offline.shown
  BY DEF OfflineShowsLive, Told
<1>1. IsQuery(q)
  BY DumpsAssumption DEF SavedInv
<1>2. PICK text : Plain(q, text) /\ sql = Finished(q, text)
  BY DEF SavedInv, Final
<1>3. q.command = NoCommand
  BY DEF Bucketable
<1>4. Answer(sql) = SelectionAsked
  BY <1>3 DEF SavedInv, Final, Foldless
<1>5. Told(text) = Recovered(q).shown
  <2> DEFINE rows == [f \in Linked(q) |-> Shown(q, f)]
             kept == Keeps(rows, q.selection)
  <2>1. SelectionAsked = Linked(q) \intersect kept
    BY <1>3 DEF SelectionAsked, AuthorsRows
  <2>2. kept \subseteq Linked(q)
    BY DEF Keeps
  <2>3. Answer(sql) = kept
    BY <1>4, <2>1, <2>2
  <2>4. Told(text) = [f \in kept |-> Shown(q, f)]
    BY <1>1, <1>2, <2>3, FinishedAnswers
  <2>5. Recovered(q).shown = [f \in kept |-> rows[f]]
    BY DEF Recovered
  <2>6. \A f \in kept : rows[f] = Shown(q, f)
    BY <2>2
  <2> HIDE DEF kept, rows
  <2>7. [f \in kept |-> rows[f]] = [f \in kept |-> Shown(q, f)]
    BY <2>6
  <2>8. QED BY <2>4, <2>5, <2>7
<1>6. offline = Offline(q)
  BY DEF SavedInv
<1>7. CASE Ranked(q) = {}
  <2>1. sql = text /\ offline = Recovered(q)
    BY <1>2, <1>6, <1>7 DEF Finished, Offline, SavedApplies
  <2>2. QED BY <1>5, <2>1
<1>8. CASE Ranked(q) # {}
  <2> DEFINE base == Told(text)
  <2>1. sql = RolledUp(q, text)
    BY <1>2, <1>8 DEF Finished, WithTopN
  <2>2. Len(q.groups) \in Nat
    BY <1>1, KeyParts
  <2>3. sql.shown = Bucketed(q, base).shown /\ Answer(sql) = Answer(text) /\ DOMAIN base = Answer(text)
    BY <1>1, <1>2, <2>1, <2>2, RolledParts, PlainParts
  <2>4. Numbers(Bucketed(q, base).shown, Columns(q)) /\ DOMAIN Bucketed(q, base).shown = DOMAIN base
    <3> DEFINE among == Rankable(q)
               ops == OwnOps(q)
               all == Columns(q)
               n == Len(q.groups)
    <3>1. Ranks(q, among, all) /\ Numbers(base, all) /\ n \in Nat
      BY <1>1, <1>2, <2>2, RankableColumns, PlainParts
    <3> HIDE DEF among, ops, all, n, base
    <3>2. Numbers(Buckets(q, base, among, ops, n).shown, all) /\ DOMAIN Buckets(q, base, among, ops, n).shown = DOMAIN base
      BY <3>1, BucketsNumbers
    <3>3. QED BY <3>2 DEF Bucketed, Passes, among, ops, all, n
  <2>5. Told(sql) = sql.shown
    <3> DEFINE shown == Bucketed(q, base).shown
    <3>1. shown = [f \in Answer(sql) |-> shown[f]] /\ sql.shown = shown
      BY <2>3, <2>4 DEF Numbers
    <3> HIDE DEF shown
    <3>2. QED BY <3>1 DEF Told
  <2>6. OwnOps(q) = SumOps(q)
    BY DEF OwnOps, SumOps
  <2>7. offline.shown = Saved(q, Recovered(q).shown)
    <3>1. offline = [Recovered(q) EXCEPT !.shown = Saved(q, @)]
      BY <1>6, <1>8 DEF Offline, SavedApplies
    <3>2. "shown" \in DOMAIN Recovered(q)
      BY DEF Recovered
    <3>3. QED BY <3>1, <3>2
  <2>8. Saved(q, base) = Bucketed(q, base).shown
    BY <2>6 DEF Saved, Bucketed, Passes
  <2>9. QED BY <1>5, <2>3, <2>5, <2>7, <2>8
<1>9. QED BY <1>7, <1>8

(* Of any tables, selection, groups and Top-N, and any N below Beyond:     *)
(* with Top-N on the outermost groups, each of a column of its own with no *)
(* value called Others, and no tie as apply_topn ranks them, the order of  *)
(* the query lets no band start twice for one group, Others included. And  *)
(* for Top-N by Sum the saved rows that bucket_saved_rows_topn writes are, *)
(* row by row and under the same group names, what the query answers.      *)
THEOREM SavedRowsTheorem == ReportSpec => []SavedRowsMatch
<1>1. ReportInit => SavedInv
  BY DEF ReportInit, SavedInv, Final
<1>2. SavedInv => SavedRowsMatch
  BY WholeInv, OfflineInv DEF SavedRowsMatch
<1>3. QED BY <1>1, <1>2, SavedInvStep, PTL DEF ReportSpec

-----------------------------------------------------------------------------
(* InKeyOrder lists each of the keyed things once, by its key.             *)
LEMMA KeyOrder ==
  ASSUME NEW key, IsFiniteSet(DOMAIN key), \A i \in DOMAIN key : key[i] \in Int,
         \A i, j \in DOMAIN key : key[i] = key[j] => i = j
  PROVE  LET order == InKeyOrder(key)
             n == Cardinality(DOMAIN key)
         IN  /\ n \in Nat /\ DOMAIN order = 1..n
             /\ \A k \in 1..n : order[k] \in DOMAIN key
             /\ \A i \in DOMAIN key : \E k \in 1..n : order[k] = i
             /\ \A k, l \in 1..n : key[order[k]] < key[order[l]] => k < l
<1> DEFINE S == DOMAIN key
           n == Cardinality(S)
           Upto(i) == {j \in S : key[j] <= key[i]}
           rank == [i \in S |-> Cardinality(Upto(i))]
           order == InKeyOrder(key)
<1>1. n \in Nat
  BY FS_CardinalityType
<1>2. ASSUME NEW i \in S PROVE rank[i] \in 1..n /\ IsFiniteSet(Upto(i))
  <2>1. Upto(i) \in SUBSET S /\ i \in Upto(i)
    OBVIOUS
  <2> HIDE DEF Upto
  <2>2. IsFiniteSet(Upto(i)) /\ Cardinality(Upto(i)) <= n
    BY <2>1, FS_Subset
  <2>3. Cardinality(Upto(i)) \in Nat /\ Cardinality(Upto(i)) # 0
    BY <2>1, <2>2, FS_CardinalityType, FS_EmptySet
  <2> DEFINE c == Cardinality(Upto(i))
  <2>4. c \in Nat /\ c # 0 /\ c <= n /\ rank[i] = c
    BY <2>2, <2>3
  <2> HIDE DEF n, c, rank
  <2>5. QED BY <1>1, <2>2, <2>4
<1>3. ASSUME NEW i \in S, NEW j \in S, key[i] < key[j] PROVE rank[i] < rank[j]
  <2>1. Upto(i) \in SUBSET Upto(j) /\ Upto(i) # Upto(j)
    BY <1>3
  <2>2. IsFiniteSet(Upto(j)) /\ rank[i] \in 1..n /\ rank[j] \in 1..n
    BY <1>2
  <2> DEFINE low == Upto(i)
             high == Upto(j)
  <2>3. rank[i] = Cardinality(low) /\ rank[j] = Cardinality(high)
    OBVIOUS
  <2> HIDE DEF low, high, rank, n
  <2>4. Cardinality(low) <= Cardinality(high) /\ (Cardinality(low) = Cardinality(high) => low = high)
    BY <2>1, <2>2, FS_Subset DEF low, high
  <2>5. low # high
    BY <2>1 DEF low, high
  <2>6. QED BY <1>1, <2>2, <2>3, <2>4, <2>5
<1>4. \A i, j \in S : rank[i] = rank[j] => i = j
  <2> SUFFICES ASSUME NEW i \in S, NEW j \in S, rank[i] = rank[j] PROVE i = j
    OBVIOUS
  <2>1. rank[i] \in 1..n /\ rank[j] \in 1..n
    BY <1>2
  <2>2. ~(key[i] < key[j]) /\ ~(key[j] < key[i])
    <3> HIDE DEF rank, n
    <3>1. QED BY <1>1, <1>3, <2>1
  <2>3. QED BY <2>2
<1>5. \A k \in 1..n : \E i \in S : rank[i] = k
  <2>1. rank \in Injection(S, 1..n)
    BY <1>2, <1>4 DEF Injection, IsInjective
  <2>2. IsFiniteSet(1..n) /\ Cardinality(1..n) = n
    <3> HIDE DEF n
    <3>1. QED BY <1>1, FS_Interval
  <2> HIDE DEF rank
  <2>3. rank \in Surjection(S, 1..n)
    BY <2>1, <2>2, FS_Injection
  <2>4. QED BY <2>3 DEF Surjection
<1>6. DOMAIN order = 1..n
  BY DEF InKeyOrder
<1>7. ASSUME NEW k \in 1..n PROVE order[k] \in S /\ rank[order[k]] = k
  <2>1. PICK i \in S : rank[i] = k
    BY <1>5
  <2>2. i \in DOMAIN key /\ Cardinality({j \in DOMAIN key : key[j] <= key[i]}) = k
    BY <2>1
  <2>3. order[k] = CHOOSE h \in DOMAIN key : Cardinality({j \in DOMAIN key : key[j] <= key[h]}) = k
    BY DEF InKeyOrder
  <2>4. order[k] \in DOMAIN key /\ Cardinality({j \in DOMAIN key : key[j] <= key[order[k]]}) = k
    <3> HIDE DEF order
    <3>1. QED BY <2>2, <2>3
  <2> HIDE DEF order
  <2>5. QED BY <2>4
<1> HIDE DEF order, rank
<1>8. \A i \in S : \E k \in 1..n : order[k] = i
  <2> SUFFICES ASSUME NEW i \in S PROVE \E k \in 1..n : order[k] = i
    OBVIOUS
  <2>1. rank[i] \in 1..n
    BY <1>2
  <2>2. order[rank[i]] \in S /\ rank[order[rank[i]]] = rank[i]
    BY <1>7, <2>1
  <2>3. QED BY <1>4, <2>1, <2>2
<1>9. ASSUME NEW k \in 1..n, NEW l \in 1..n, key[order[k]] < key[order[l]] PROVE k < l
  <2>1. order[k] \in S /\ order[l] \in S /\ rank[order[k]] = k /\ rank[order[l]] = l
    BY <1>7
  <2>2. QED BY <1>3, <1>9, <2>1
<1>10. QED BY <1>1, <1>6, <1>7, <1>8, <1>9 DEF order

-----------------------------------------------------------------------------
(* The slots after an underlay, section by section.                        *)
SlotAt(layout, i, j, before) ==
  IF j = i THEN [gap |-> 0, run |-> 0, start |-> 0]
  ELSE CASE ~Follows(layout, i, j) -> before
         [] Follows(layout, i, j) /\ layout[j].underlay -> [before EXCEPT !.start = -1]
         [] Follows(layout, i, j) /\ ~layout[j].underlay /\ layout[j].conditional ->
              [gap |-> before.gap, start |-> before.gap, run |-> Max({before.run, layout[j].height})]
         [] OTHER -> [gap |-> before.gap + before.run + layout[j].height, start |-> before.gap, run |-> 0]
SlotsFrom(at, layout, i, n) == at = [j \in i..n |-> SlotAt(layout, i, j, at[j - 1])]

Walked(at, layout, i, n) == \A j \in i..n : at[j] = SlotAt(layout, i, j, at[j - 1])
Alternatives(layout, i, low, high) ==
  \A k \in low..high : Follows(layout, i, k) /\ layout[k].conditional /\ ~layout[k].underlay

LEMMA SlotsExist ==
  ASSUME NEW layout, NEW i \in Nat, NEW n \in Nat
  PROVE  \E at : SlotsFrom(at, layout, i, n)
<1> DEFINE Bad == {k \in Nat : ~\E at : SlotsFrom(at, layout, i, k)}
<1>1. ASSUME Bad # {} PROVE FALSE
  <2>1. PICK m \in Bad : m > 0 => m - 1 \in Nat \ Bad
    <3> HIDE DEF Bad
    <3>1. Bad \in SUBSET Nat
      BY DEF Bad
    <3>2. QED BY <1>1, <3>1, LeastNumber
  <2>2. CASE m < i
    <3>1. SlotsFrom([j \in i..m |-> 0], layout, i, m)
      BY <2>2 DEF SlotsFrom
    <3>2. QED BY <3>1
  <2>3. CASE m >= i /\ m = 0
    <3> DEFINE at == [j \in i..m |-> [gap |-> 0, run |-> 0, start |-> 0]]
    <3>1. \A j \in i..m : SlotAt(layout, i, j, at[j - 1]) = [gap |-> 0, run |-> 0, start |-> 0]
      BY <2>3 DEF SlotAt
    <3>2. at = [j \in i..m |-> SlotAt(layout, i, j, at[j - 1])]
      BY <3>1
    <3> HIDE DEF at
    <3>3. SlotsFrom(at, layout, i, m)
      BY <3>2 DEF SlotsFrom
    <3>4. QED BY <3>3
  <2>4. CASE m >= i /\ m > 0
    <3>1. m - 1 \in Nat /\ ~(m - 1 \in Bad)
      <4> HIDE DEF Bad
      <4>1. QED BY <2>1, <2>4
    <3>2. PICK before : SlotsFrom(before, layout, i, m - 1)
      BY <3>1
    <3> DEFINE at == [j \in i..m |-> IF j < m THEN before[j] ELSE SlotAt(layout, i, m, before[m - 1])]
    <3>3. \A j \in i..(m - 1) : before[j] = SlotAt(layout, i, j, before[j - 1])
      BY <3>2 DEF SlotsFrom
    <3>4. ASSUME NEW j \in i..m PROVE at[j] = SlotAt(layout, i, j, at[j - 1])
      <4>1. CASE j = i
        <5>1. SlotAt(layout, i, j, at[j - 1]) = SlotAt(layout, i, j, before[j - 1])
          BY <4>1 DEF SlotAt
        <5>2. QED BY <3>3, <4>1, <5>1
      <4>2. CASE j # i
        <5>1. j - 1 \in i..m /\ j - 1 < m /\ (j < m => j \in i..(m - 1))
          BY <4>2
        <5>2. at[j - 1] = before[j - 1]
          BY <5>1
        <5>3. QED BY <3>3, <5>1, <5>2
      <4>3. QED BY <4>1, <4>2
    <3> HIDE DEF at
    <3>5. at = [j \in i..m |-> at[j]]
      BY DEF at
    <3>6. SlotsFrom(at, layout, i, m)
      BY <3>4, <3>5 DEF SlotsFrom
    <3>7. QED BY <3>6
  <2>5. QED BY <2>2, <2>3, <2>4
<1>2. QED BY <1>1

LEMMA SpansStepwise ==
  ASSUME NEW layout, NEW i \in Nat, Len(layout) \in Nat
  PROVE  \E at : /\ Spans(layout, i) = [j \in {k \in DOMAIN layout : Follows(layout, i, k) /\ ~layout[k].underlay} |-> at[j].start]
                 /\ Walked(at, layout, i, Len(layout))
<1> DEFINE at == CHOOSE g : SlotsFrom(g, layout, i, Len(layout))
<1>1. SlotsFrom(at, layout, i, Len(layout))
  BY SlotsExist
<1>2. Spans(layout, i) = [j \in {k \in DOMAIN layout : Follows(layout, i, k) /\ ~layout[k].underlay} |-> at[j].start]
  BY DEF Spans, SlotsFrom, SlotAt
<1> HIDE DEF at
<1>3. QED BY <1>1, <1>2 DEF SlotsFrom, Walked

(* Conditional sections that follow one another start where the first does.*)
LEMMA OneSlotOneStart ==
  ASSUME NEW layout, NEW at, NEW i \in Nat, NEW n \in Nat,
         Walked(at, layout, i, n),
         NEW low \in Nat, NEW high \in Nat, i < low, low <= high, high <= n,
         Alternatives(layout, i, low, high)
  PROVE  at[high].start = at[low].start
<1> DEFINE Bad == {k \in Nat : k \in low..high /\ ~(at[k].start = at[low].start /\ at[k].gap = at[low].gap)}
<1>1. ASSUME NEW k \in low..high
      PROVE  at[k].gap = at[k - 1].gap /\ at[k].start = at[k - 1].gap
  <2>1. k \in i..n /\ k # i
    OBVIOUS
  <2>2. at[k] = SlotAt(layout, i, k, at[k - 1])
    BY <2>1 DEF Walked
  <2>3. at[k] = [gap |-> at[k - 1].gap, start |-> at[k - 1].gap, run |-> Max({at[k - 1].run, layout[k].height})]
    BY <2>1, <2>2 DEF SlotAt, Alternatives
  <2>4. QED BY <2>3
<1>2. ASSUME Bad # {} PROVE FALSE
  <2>1. PICK m \in Bad : m > 0 => m - 1 \in Nat \ Bad
    <3> HIDE DEF Bad
    <3>1. Bad \in SUBSET Nat
      BY DEF Bad
    <3>2. QED BY <1>2, <3>1, LeastNumber
  <2>2. m # low /\ m \in low..high
    OBVIOUS
  <2>3. m - 1 \in low..high /\ m > 0
    BY <2>2
  <2>4. at[m - 1].gap = at[low].gap
    <3>1. m - 1 \in Nat /\ ~(m - 1 \in Bad)
      <4> HIDE DEF Bad
      <4>1. QED BY <2>1, <2>3
    <3>2. QED BY <2>3, <3>1
  <2>5. at[low].start = at[low].gap
    <3>1. low \in low..high
      BY <2>2
    <3>2. QED BY <1>1, <3>1
  <2>6. at[m].start = at[low].start /\ at[m].gap = at[low].gap
    BY <1>1, <2>2, <2>4, <2>5
  <2>7. QED BY <2>6
<1>3. QED BY <1>1, <1>2

-----------------------------------------------------------------------------
(* What is painted, and where.                                             *)
LEMMA PaintedWhere ==
  ASSUME NEW layout, NEW groups, NEW level, NEW p
  PROVE  p \in Painted(layout, groups, level) <=>
           \E i \in {h \in DOMAIN layout : Visible(layout[h]) /\ layout[h].group <= groups} :
             \E k \in DOMAIN layout[i].objects :
               \E j \in PaintedIn(layout, i, layout[i].objects[k]) :
                 p = [from |-> i, object |-> k, into |-> j,
                      as |-> Written(layout[i].objects[k], layout[i].area, level)]
<1> DEFINE printed == {i \in DOMAIN layout : Visible(layout[i]) /\ layout[i].group <= groups}
           Of(i, k) == {[from |-> i, object |-> k, into |-> j,
                         as |-> Written(layout[i].objects[k], layout[i].area, level)] :
                          j \in PaintedIn(layout, i, layout[i].objects[k])}
<1>1. Painted(layout, groups, level) = UNION {UNION {Of(i, k) : k \in DOMAIN layout[i].objects} : i \in printed}
  BY DEF Painted
<1>2. \A i, k : p \in Of(i, k) <=>
        \E j \in PaintedIn(layout, i, layout[i].objects[k]) :
          p = [from |-> i, object |-> k, into |-> j, as |-> Written(layout[i].objects[k], layout[i].area, level)]
  OBVIOUS
<1>3. p \in Painted(layout, groups, level) <=> \E i \in printed : \E k \in DOMAIN layout[i].objects : p \in Of(i, k)
  <2> HIDE DEF printed, Of
  <2>1. QED BY <1>1
<1> HIDE DEF Of
<1>4. QED BY <1>2, <1>3

OneSlot(layout, i, j) ==
  LET between == {k \in DOMAIN layout : (i <= k /\ k <= j) \/ (j <= k /\ k <= i)}
  IN  \A k \in between : /\ layout[k].area = layout[i].area /\ layout[k].group = layout[i].group
                         /\ layout[k].conditional /\ ~layout[k].underlay /\ Visible(layout[k])
                         /\ layout[k].height = layout[i].height

LEMMA SlotSharesTarget ==
  ASSUME NEW layout, Len(layout) \in Nat, DOMAIN layout = 1..Len(layout),
         NEW i \in DOMAIN layout, NEW o, NEW t \in Targets(layout, i, o),
         NEW j \in DOMAIN layout, i < j, OneSlot(layout, t, j)
  PROVE  j \in Targets(layout, i, o)
<1> DEFINE n == Len(layout)
           spans == Spans(layout, i)
           after == {k \in DOMAIN layout : Follows(layout, i, k) /\ ~layout[k].underlay}
           Cover(k) == Max({0, Min({o.y - spans[k] + o.height, layout[k].height}) - Max({o.y - spans[k], 0})})
           best == Max({0} \union {Cover(k) : k \in DOMAIN spans})
<1>1. Targets(layout, i, o) = IF best = 0 THEN {} ELSE {k \in DOMAIN spans : Cover(k) >= best - 1}
  BY DEF Targets
<1>2. i \in Nat /\ n \in Nat
  OBVIOUS
<1>3. PICK at : /\ spans = [k \in after |-> at[k].start]
                /\ Walked(at, layout, i, n)
  BY <1>2, SpansStepwise
<1>4. t \in DOMAIN spans /\ best # 0 /\ Cover(t) >= best - 1
  <2> HIDE DEF Cover, best, spans
  <2>1. QED BY <1>1
<1>5. t \in after
  BY <1>3, <1>4
<1>6. t \in 1..n /\ j \in 1..n /\ i < t /\ i < j /\ Follows(layout, i, t)
  BY <1>5 DEF Follows
<1>7. ASSUME NEW k \in 1..n, (t <= k /\ k <= j) \/ (j <= k /\ k <= t)
      PROVE  /\ Follows(layout, i, k) /\ layout[k].conditional /\ ~layout[k].underlay
             /\ layout[k].height = layout[t].height
  <2>1. i < k
    BY <1>2, <1>6, <1>7
  <2>2. /\ layout[k].area = layout[t].area /\ layout[k].group = layout[t].group
        /\ layout[k].conditional /\ ~layout[k].underlay /\ Visible(layout[k])
        /\ layout[k].height = layout[t].height
    BY <1>7 DEF OneSlot
  <2>3. QED BY <1>6, <2>1, <2>2 DEF Follows
<1>8. j \in after /\ layout[j].height = layout[t].height
  BY <1>6, <1>7
<1>9. at[t].start = at[j].start
  <2>1. CASE t <= j
    <3>1. Alternatives(layout, i, t, j)
      BY <1>2, <1>6, <1>7 DEF Alternatives
    <3>2. at[j].start = at[t].start
      <4>1. t \in Nat /\ j \in Nat /\ i < t /\ t <= j /\ j <= n
        BY <1>6, <2>1
      <4>2. Walked(at, layout, i, n)
        BY <1>3
      <4> HIDE DEF n, spans, after, Cover, best
      <4>3. QED BY <1>2, <3>1, <4>1, <4>2, OneSlotOneStart
    <3>3. QED BY <1>6, <2>1, <3>2
  <2>2. CASE j <= t
    <3>1. Alternatives(layout, i, j, t)
      BY <1>2, <1>6, <1>7 DEF Alternatives
    <3>2. at[t].start = at[j].start
      <4>1. j \in Nat /\ t \in Nat /\ i < j /\ j <= t /\ t <= n
        BY <1>6, <2>2
      <4>2. Walked(at, layout, i, n)
        BY <1>3
      <4> HIDE DEF n, spans, after, Cover, best
      <4>3. QED BY <1>2, <3>1, <4>1, <4>2, OneSlotOneStart
    <3>3. QED BY <1>6, <2>2, <3>2
  <2>3. QED BY <1>6, <2>1, <2>2
<1>10. spans[t] = spans[j] /\ j \in DOMAIN spans
  BY <1>3, <1>5, <1>8, <1>9
<1>11. Cover(j) = Cover(t)
  BY <1>8, <1>10
<1>12. QED
  <2> HIDE DEF Cover, best, spans
  <2>1. QED BY <1>1, <1>4, <1>10, <1>11

LEMMA PaintedThroughout ==
  ASSUME NEW layout, Len(layout) \in Nat, DOMAIN layout = 1..Len(layout), NEW groups, NEW level,
         NEW p \in Painted(layout, groups, level), layout[p.from].underlay,
         NEW j \in DOMAIN layout, p.from < j, OneSlot(layout, p.into, j)
  PROVE  \E q \in Painted(layout, groups, level) : q.from = p.from /\ q.object = p.object /\ q.into = j
<1>1. PICK i \in {h \in DOMAIN layout : Visible(layout[h]) /\ layout[h].group <= groups} :
             \E k \in DOMAIN layout[i].objects :
               \E t \in PaintedIn(layout, i, layout[i].objects[k]) :
                 p = [from |-> i, object |-> k, into |-> t,
                      as |-> Written(layout[i].objects[k], layout[i].area, level)]
  BY PaintedWhere
<1>2. PICK k \in DOMAIN layout[i].objects :
             \E t \in PaintedIn(layout, i, layout[i].objects[k]) :
                 p = [from |-> i, object |-> k, into |-> t,
                      as |-> Written(layout[i].objects[k], layout[i].area, level)]
  BY <1>1
<1> DEFINE o == layout[i].objects[k]
           q == [from |-> i, object |-> k, into |-> j, as |-> Written(o, layout[i].area, level)]
<1>3. p.from = i /\ p.object = k /\ p.into \in PaintedIn(layout, i, o)
  BY <1>2
<1>4. PaintedIn(layout, i, o) = Targets(layout, i, o)
  BY <1>3 DEF PaintedIn
<1>5. j \in PaintedIn(layout, i, o)
  <2>1. i \in DOMAIN layout /\ i < j /\ p.into \in Targets(layout, i, o) /\ OneSlot(layout, p.into, j)
    BY <1>3, <1>4
  <2> HIDE DEF o, q
  <2>2. j \in Targets(layout, i, o)
    BY <2>1, SlotSharesTarget
  <2>3. QED BY <1>4, <2>2
<1>6. q \in Painted(layout, groups, level)
  BY <1>1, <1>5, PaintedWhere
<1>7. QED BY <1>3, <1>6

-----------------------------------------------------------------------------
(* Promoted: the same objects, and every backdrop before all text.         *)
LEMMA PromoteParts ==
  ASSUME NEW objects \in Seq(Element)
  PROVE  LET P == PromoteBackdrops(objects)
         IN  /\ P \in Seq(Element) /\ Len(P) = Len(objects)
             /\ \A k \in DOMAIN P : \E i \in DOMAIN objects : P[k] = objects[i]
             /\ \A i \in DOMAIN objects : \E k \in DOMAIN P : P[k] = objects[i]
             /\ \A i, j, k \in DOMAIN P :
                  KindOf(P[i]) \in Texts /\ KindOf(P[k]) \in Texts /\ IsBackdrop(P[j], P[k]) => j < i
<1> DEFINE n == Len(objects)
           back == {i \in DOMAIN objects : \E j \in DOMAIN objects \ {i} :
                      KindOf(objects[j]) \in Texts \union {"image"} /\ IsBackdrop(objects[i], objects[j])}
           moved == {i \in back : \E j \in 1..(i - 1) : KindOf(objects[j]) # "image"}
           key == [i \in DOMAIN objects |-> IF i \in moved THEN -i ELSE i]
           order == InKeyOrder(key)
           P == PromoteBackdrops(objects)
<1>1. n \in Nat /\ DOMAIN objects = 1..n /\ \A i \in 1..n : objects[i] \in Element
  OBVIOUS
<1>2. P = IF moved = {} THEN objects ELSE [k \in DOMAIN order |-> objects[order[k]]]
  BY DEF PromoteBackdrops
<1>3. \A b, c, t \in 1..n : KindOf(objects[t]) \in Texts /\ KindOf(objects[c]) \in Texts /\ IsBackdrop(objects[b], objects[c])
        => b \in back /\ KindOf(objects[b]) = "image" /\ KindOf(objects[t]) # "image" /\ (t < b => b \in moved)
  <2> SUFFICES ASSUME NEW b \in 1..n, NEW c \in 1..n, NEW t \in 1..n,
                      KindOf(objects[t]) \in Texts, KindOf(objects[c]) \in Texts, IsBackdrop(objects[b], objects[c])
               PROVE  b \in back /\ KindOf(objects[b]) = "image" /\ KindOf(objects[t]) # "image" /\ (t < b => b \in moved)
    OBVIOUS
  <2>1. KindOf(objects[b]) = "image" /\ KindOf(objects[t]) # "image" /\ KindOf(objects[c]) # "image"
    BY DEF IsBackdrop, Texts
  <2>2. c # b
    BY <2>1
  <2>3. b \in back
    BY <1>1, <2>2
  <2>4. t < b => t \in 1..(b - 1)
    BY <1>1
  <2>5. QED BY <2>1, <2>3, <2>4
<1> HIDE DEF P, back
<1>4. CASE moved = {}
  <2>1. P = objects
    BY <1>2, <1>4
  <2>2. ASSUME NEW i \in 1..n, NEW j \in 1..n, NEW k \in 1..n,
               KindOf(P[i]) \in Texts, KindOf(P[k]) \in Texts, IsBackdrop(P[j], P[k])
        PROVE  j < i
    <3>1. KindOf(objects[j]) = "image" /\ KindOf(objects[i]) # "image" /\ ~(i < j)
      <4> HIDE DEF moved
      <4>1. QED BY <1>3, <1>4, <2>1, <2>2
    <3>2. j # i
      BY <3>1
    <3>3. QED BY <3>1, <3>2
  <2>3. QED BY <1>1, <2>1, <2>2 DEF P
<1>5. CASE moved # {}
  <2>1. moved \subseteq 1..n
    BY <1>1 DEF back
  <2>2. IsFiniteSet(DOMAIN key) /\ Cardinality(DOMAIN key) = n /\ DOMAIN key = 1..n
    <3>1. IsFiniteSet(1..n) /\ Cardinality(1..n) = n
      <4> HIDE DEF n
      <4>1. QED BY <1>1, FS_Interval
    <3>2. QED BY <1>1, <3>1
  <2>3. \A i \in DOMAIN key : key[i] \in Int /\ key[i] = (IF i \in moved THEN -i ELSE i)
    BY <1>1
  <2>4. \A i, j \in DOMAIN key : key[i] = key[j] => i = j
    BY <1>1
  <2> HIDE DEF moved, key
  <2>5. DOMAIN order = 1..n /\ \A k \in 1..n : order[k] \in 1..n
    BY <2>2, <2>3, <2>4, KeyOrder
  <2>6. \A i \in 1..n : \E k \in 1..n : order[k] = i
    BY <2>2, <2>3, <2>4, KeyOrder
  <2>7. \A k, l \in 1..n : key[order[k]] < key[order[l]] => k < l
    BY <2>2, <2>3, <2>4, KeyOrder
  <2> HIDE DEF order
  <2>8. P = [k \in 1..n |-> objects[order[k]]]
    BY <1>2, <1>5, <2>5
  <2>9. P \in Seq(Element) /\ Len(P) = n /\ DOMAIN P = 1..n /\ \A k \in 1..n : P[k] = objects[order[k]]
    <3> HIDE DEF n
    <3>1. QED BY <1>1, <2>5, <2>8
  <2>10. ASSUME NEW i \in 1..n, NEW j \in 1..n, NEW k \in 1..n,
                KindOf(P[i]) \in Texts, KindOf(P[k]) \in Texts, IsBackdrop(P[j], P[k])
         PROVE  j < i
    <3>1. order[i] \in 1..n /\ order[j] \in 1..n /\ order[k] \in 1..n
      BY <2>5
    <3>2. /\ KindOf(objects[order[j]]) = "image" /\ KindOf(objects[order[i]]) # "image"
          /\ order[i] < order[j] => order[j] \in moved
      BY <1>3, <2>9, <2>10, <3>1
    <3>3. order[i] \notin moved
      BY <3>2 DEF moved, back, IsBackdrop
    <3>4. order[i] # order[j]
      BY <3>2
    <3>5. key[order[j]] < key[order[i]]
      BY <1>1, <2>2, <2>3, <3>1, <3>2, <3>3, <3>4
    <3>6. QED BY <2>7, <3>5
  <2>11. \A k \in 1..n : \E i \in 1..n : P[k] = objects[i]
    BY <2>5, <2>9
  <2>12. ASSUME NEW i \in 1..n PROVE \E k \in 1..n : P[k] = objects[i]
    <3>1. PICK k \in 1..n : order[k] = i
      BY <2>6
    <3>2. P[k] = objects[i]
      BY <2>9, <3>1
    <3>3. QED BY <3>2
  <2> HIDE DEF n
  <2>13. \A i, j, k \in DOMAIN P :
            KindOf(P[i]) \in Texts /\ KindOf(P[k]) \in Texts /\ IsBackdrop(P[j], P[k]) => j < i
    BY <2>9, <2>10
  <2>14. QED BY <1>1, <2>9, <2>11, <2>12, <2>13 DEF P, n
<1>6. QED BY <1>4, <1>5 DEF P

-----------------------------------------------------------------------------
(* Nudging moves text only, and changes neither what an object is nor how  *)
(* wide it is.                                                             *)
Near(objects, now) ==
  /\ now \in [DOMAIN objects -> Element]
  /\ \A k \in DOMAIN objects :
       /\ now[k].tag = objects[k].tag /\ now[k].is = objects[k].is
       /\ KindOf(objects[k]) \notin Texts => now[k] = objects[k]
TextOf(objects) == {k \in DOMAIN objects : KindOf(objects[k]) \in Texts}

LEMMA NudgedParts ==
  ASSUME NEW a \in Element, NEW b \in Element
  PROVE  Nudged(a, b) \in Element /\ Nudged(a, b).tag = b.tag /\ Nudged(a, b).is = b.is
<1> DEFINE right == a.x + a.width - b.x + Gap
           down == a.y + a.height - b.y + Gap
<1>1. b.x + right \in Int /\ b.y + down \in Int
  BY DEF Element, Gap
<1> DEFINE v == b.x + right
           w == b.y + down
<1>2. Nudged(a, b) = b \/ Nudged(a, b) = [b EXCEPT !.x = v] \/ Nudged(a, b) = [b EXCEPT !.y = w]
  BY DEF Nudged
<1>3. v \in Int /\ w \in Int
  BY <1>1
<1> HIDE DEF right, down, v, w
<1>4. CASE Nudged(a, b) = [b EXCEPT !.x = v]
  BY <1>3, <1>4 DEF Element
<1>5. CASE Nudged(a, b) = [b EXCEPT !.y = w]
  BY <1>3, <1>5 DEF Element
<1>6. QED BY <1>2, <1>4, <1>5

LEMMA LookedNear ==
  ASSUME NEW objects, NEW now, Near(objects, now), NEW due, due \subseteq TextOf(objects) \X TextOf(objects)
  PROVE  Near(objects, Looked(now, due))
<1>1. CASE due = {}
  BY <1>1 DEF Looked
<1>2. CASE due # {}
  <2> DEFINE p == CHOOSE p \in due : TRUE
             a == now[p[1]]
             b == now[p[2]]
  <2>1. p \in due
    BY <1>2
  <2>2. p[1] \in TextOf(objects) /\ p[2] \in TextOf(objects)
    BY <2>1
  <2>3. Looked(now, due) = [now EXCEPT ![p[2]] = Nudged(now[p[1]], now[p[2]])]
    BY <1>2 DEF Looked
  <2> HIDE DEF p
  <2>4. a \in Element /\ b \in Element /\ p[2] \in DOMAIN objects /\ KindOf(objects[p[2]]) \in Texts
    BY <2>2 DEF Near, TextOf
  <2>5. Nudged(a, b) \in Element /\ Nudged(a, b).tag = b.tag /\ Nudged(a, b).is = b.is
    <3> HIDE DEF a, b
    <3>1. QED BY <2>4, NudgedParts
  <2> DEFINE then == Looked(now, due)
  <2>6. then \in [DOMAIN objects -> Element] /\ \A k \in DOMAIN objects : then[k] = IF k = p[2] THEN Nudged(a, b) ELSE now[k]
    BY <2>3, <2>4, <2>5 DEF Near
  <2> HIDE DEF then
  <2>7. Near(objects, then)
    BY <2>4, <2>5, <2>6 DEF Near
  <2>8. QED BY <2>7 DEF then
<1>3. QED BY <1>1, <1>2

(* A sweep, pair by pair.                                                  *)
DueAt(place, t) ==
  {p \in (DOMAIN place) \X (DOMAIN place) :
     place[p[1]] < place[p[2]] /\ place[p[1]] * Cardinality(DOMAIN place) + place[p[2]] = t}
Sweeping(after, objects, place, n) ==
  after = [t \in 0..n |-> IF t = 0 THEN objects ELSE Looked(after[t - 1], DueAt(place, t))]

LEMMA SweepsExist ==
  ASSUME NEW objects, NEW place, NEW n \in Nat
  PROVE  \E after : Sweeping(after, objects, place, n)
<1> DEFINE Bad == {k \in Nat : ~\E after : Sweeping(after, objects, place, k)}
<1>1. ASSUME Bad # {} PROVE FALSE
  <2>1. PICK m \in Bad : m > 0 => m - 1 \in Nat \ Bad
    <3> HIDE DEF Bad
    <3>1. Bad \in SUBSET Nat
      BY DEF Bad
    <3>2. QED BY <1>1, <3>1, LeastNumber
  <2>2. CASE m = 0
    <3> DEFINE after == [t \in 0..m |-> objects]
    <3>1. \A t \in 0..m : t = 0
      BY <2>2
    <3>2. Sweeping(after, objects, place, m)
      BY <3>1 DEF Sweeping
    <3>3. QED BY <3>2
  <2>3. CASE m > 0
    <3>1. m - 1 \in Nat /\ ~(m - 1 \in Bad)
      <4> HIDE DEF Bad
      <4>1. QED BY <2>1, <2>3
    <3>2. PICK before : Sweeping(before, objects, place, m - 1)
      BY <3>1
    <3> DEFINE after == [t \in 0..m |-> IF t < m THEN before[t] ELSE Looked(before[m - 1], DueAt(place, m))]
    <3>3. \A t \in 0..(m - 1) : before[t] = IF t = 0 THEN objects ELSE Looked(before[t - 1], DueAt(place, t))
      BY <3>2 DEF Sweeping
    <3>4. ASSUME NEW t \in 0..m PROVE after[t] = IF t = 0 THEN objects ELSE Looked(after[t - 1], DueAt(place, t))
      <4>1. CASE t = 0
        BY <2>3, <3>3, <4>1
      <4>2. CASE t # 0
        <5>1. t - 1 \in 0..m /\ t - 1 < m /\ (t < m => t \in 0..(m - 1))
          BY <4>2
        <5>2. after[t - 1] = before[t - 1]
          BY <5>1
        <5>3. QED BY <3>3, <4>2, <5>1, <5>2
      <4>3. QED BY <4>1, <4>2
    <3> HIDE DEF after
    <3>5. after = [t \in 0..m |-> after[t]]
      BY DEF after
    <3>6. Sweeping(after, objects, place, m)
      BY <3>4, <3>5 DEF Sweeping
    <3>7. QED BY <3>6
  <2>4. QED BY <2>2, <2>3
<1>2. QED BY <1>1

LEMMA SweepNear ==
  ASSUME NEW objects, NEW now, Near(objects, now), NEW place,
         DOMAIN place \subseteq TextOf(objects), IsFiniteSet(DOMAIN place)
  PROVE  Near(objects, Sweep(now, place))
<1> DEFINE m == Cardinality(DOMAIN place)
           n == m * m
           after == CHOOSE g : Sweeping(g, now, place, n)
<1>1. n \in Nat
  <2>1. m \in Nat
    BY FS_CardinalityType
  <2> HIDE DEF m
  <2>2. QED BY <2>1
<1>2. Sweep(now, place) = after[n]
  BY DEF Sweep, Sweeping, DueAt
<1>3. Sweeping(after, now, place, n)
  <2> HIDE DEF n
  <2>1. QED BY <1>1, SweepsExist
<1> HIDE DEF after, n
<1>4. \A t \in 0..n : after[t] = IF t = 0 THEN now ELSE Looked(after[t - 1], DueAt(place, t))
  BY <1>3 DEF Sweeping
<1>5. \A t : DueAt(place, t) \subseteq TextOf(objects) \X TextOf(objects)
  BY DEF DueAt
<1> DEFINE Bad == {t \in Nat : t <= n /\ ~Near(objects, after[t])}
<1>6. ASSUME Bad # {} PROVE FALSE
  <2>1. PICK t \in Bad : t > 0 => t - 1 \in Nat \ Bad
    <3> HIDE DEF Bad
    <3>1. Bad \in SUBSET Nat
      BY DEF Bad
    <3>2. QED BY <1>6, <3>1, LeastNumber
  <2>2. t \in 0..n /\ 0 \in 0..n
    BY <1>1
  <2>3. t # 0
    BY <1>4, <2>2
  <2>4. t - 1 \in Nat /\ t - 1 <= n /\ t > 0
    BY <1>1, <2>2, <2>3
  <2>5. Near(objects, after[t - 1])
    <3>1. ~(t - 1 \in Bad)
      <4> HIDE DEF Bad
      <4>1. QED BY <2>1, <2>4
    <3>2. QED BY <2>4, <3>1
  <2>6. after[t] = Looked(after[t - 1], DueAt(place, t))
    BY <1>4, <2>2, <2>3
  <2>7. Near(objects, after[t])
    BY <1>5, <2>5, <2>6, LookedNear
  <2>8. QED BY <2>7
<1>7. Near(objects, after[n])
  BY <1>1, <1>6
<1>8. QED BY <1>2, <1>7

(* The sweeps: what each leaves, and the text in its reading order.        *)
After(before) ==
  LET swept == Sweep(before.objects, before.place)
  IN  IF swept = before.objects THEN before
      ELSE [objects |-> swept, place |-> Reading(swept, before.place)]
First(objects) == [objects |-> objects, place |-> Reading(objects, [i \in Movable(objects) |-> i])]
Rounds(after, objects) ==
  after = [n \in 0..Sweeps |-> IF n = 0 THEN First(objects) ELSE After(after[n - 1])]

LEMMA DeoverlapNear ==
  ASSUME NEW objects \in Seq(Element)
  PROVE  Near(objects, Deoverlapped(objects))
<1> DEFINE one == After(First(objects))
           two == After(one)
           three == After(two)
           four == After(three)
           rounds == [n \in 0..Sweeps |-> CASE n = 0 -> First(objects) [] n = 1 -> one [] n = 2 -> two
                                            [] n = 3 -> three [] OTHER -> four]
           after == CHOOSE g : Rounds(g, objects)
           Good(state) == Near(objects, state.objects) /\ DOMAIN state.place = Movable(objects)
<1>1. Rounds(rounds, objects)
  <2>1. \A n \in 0..Sweeps : n = 0 \/ n = 1 \/ n = 2 \/ n = 3 \/ n = 4
    BY DEF Sweeps
  <2>2. 0 \in 0..Sweeps /\ 1 \in 0..Sweeps /\ 2 \in 0..Sweeps /\ 3 \in 0..Sweeps
    BY DEF Sweeps
  <2>3. rounds[0] = First(objects) /\ rounds[1] = one /\ rounds[2] = two /\ rounds[3] = three
    BY <2>2
  <2>4. ASSUME NEW n \in 0..Sweeps
        PROVE  rounds[n] = IF n = 0 THEN First(objects) ELSE After(rounds[n - 1])
    <3> HIDE DEF one, two, three
    <3>1. n = 0 \/ n = 1 \/ n = 2 \/ n = 3 \/ n = 4
      BY <2>1
    <3>2. CASE n = 0
      BY <3>2
    <3>3. CASE n = 1
      BY <2>3, <3>3 DEF one
    <3>4. CASE n = 2
      BY <2>3, <3>4 DEF two
    <3>5. CASE n = 3
      BY <2>3, <3>5 DEF three
    <3>6. CASE n = 4
      BY <2>3, <3>6
    <3>7. QED BY <3>1, <3>2, <3>3, <3>4, <3>5, <3>6
  <2>5. rounds = [n \in 0..Sweeps |-> rounds[n]]
    OBVIOUS
  <2> HIDE DEF rounds
  <2>6. QED BY <2>4, <2>5 DEF Rounds
<1>2. Deoverlapped(objects) = after[Sweeps].objects
  BY DEF Deoverlapped, Rounds, First, After
<1>3. Rounds(after, objects)
  BY <1>1
<1> HIDE DEF after, rounds, one, two, three, four
<1>4. \A n \in 0..Sweeps : after[n] = IF n = 0 THEN First(objects) ELSE After(after[n - 1])
  BY <1>3 DEF Rounds
<1>5. Good(First(objects))
  <2>1. objects \in [DOMAIN objects -> Element]
    OBVIOUS
  <2>2. QED BY <2>1 DEF First, Reading, Near
<1>6. Movable(objects) \subseteq TextOf(objects) /\ IsFiniteSet(Movable(objects))
  <2>1. Movable(objects) \subseteq TextOf(objects)
    BY DEF Movable, TextOf
  <2>2. Movable(objects) \subseteq 1..Len(objects) /\ Len(objects) \in Nat
    BY DEF Movable
  <2>3. IsFiniteSet(1..Len(objects))
    BY <2>2, FS_Interval
  <2>4. QED BY <2>1, <2>2, <2>3, FS_Subset
<1>7. ASSUME NEW state, Good(state) PROVE Good(After(state))
  <2> DEFINE swept == Sweep(state.objects, state.place)
  <2>1. Near(objects, swept)
    BY <1>6, <1>7, SweepNear
  <2>2. DOMAIN Reading(swept, state.place) = Movable(objects)
    BY <1>7 DEF Reading
  <2>3. After(state) = state \/ After(state) = [objects |-> swept, place |-> Reading(swept, state.place)]
    BY DEF After
  <2> HIDE DEF swept
  <2>4. QED BY <1>7, <2>1, <2>2, <2>3
<1> HIDE DEF Good
<1>8. Good(after[0]) /\ Good(after[1]) /\ Good(after[2]) /\ Good(after[3]) /\ Good(after[4])
  <2>1. 0 \in 0..Sweeps /\ 1 \in 0..Sweeps /\ 2 \in 0..Sweeps /\ 3 \in 0..Sweeps /\ 4 \in 0..Sweeps
    BY DEF Sweeps
  <2>2. /\ after[0] = First(objects) /\ after[1] = After(after[0]) /\ after[2] = After(after[1])
        /\ after[3] = After(after[2]) /\ after[4] = After(after[3])
    BY <1>4, <2>1
  <2>3. QED BY <1>5, <1>7, <2>2
<1>9. QED BY <1>2, <1>8 DEF Good, Sweeps

-----------------------------------------------------------------------------
LEMMA LintFinds ==
  ASSUME NEW s, NEW width, NEW f \in Lint(s, width)
  PROVE  /\ ~s.suppressed
         /\ f.code = "page-overflow" => \E i \in DOMAIN s.objects : s.objects[i].x + s.objects[i].width > width + 5
         /\ f.code = "font-clip" => \E i \in DOMAIN s.objects : Clips(s.objects[i])
         /\ f.code = "band-overflow" => \E i \in DOMAIN s.objects : s.objects[i].y + s.objects[i].height > s.height + 5
<1> DEFINE prints == {i \in DOMAIN s.objects : s.objects[i].drawn}
           Off(o) == o.x < 0 \/ o.y < 0
           Over(o) == o.x + o.width > width + 5
           Leaves(o) == o.y + o.height > s.height + 5 /\ ~o.grows /\ KindOf(o) \in Content
           Empty(o) == KindOf(o) = "chart" /\ o.is = "no value"
           lapped == \E i, j \in prints : /\ i < j
                       /\ KindOf(s.objects[i]) \in Content /\ KindOf(s.objects[j]) \in Content
                       /\ Overprints(s.objects[i], s.objects[j])
           off == IF \E i \in prints : Off(s.objects[i]) THEN {[severity |-> "error", code |-> "off-page"]} ELSE {}
           over == IF \E i \in prints : Over(s.objects[i]) THEN {[severity |-> "error", code |-> "page-overflow"]} ELSE {}
           leaves == IF \E i \in prints : Leaves(s.objects[i]) THEN {[severity |-> "warning", code |-> "band-overflow"]} ELSE {}
           clips == IF \E i \in prints : Clips(s.objects[i]) THEN {[severity |-> "warning", code |-> "font-clip"]} ELSE {}
           empty == IF \E i \in prints : Empty(s.objects[i]) THEN {[severity |-> "error", code |-> "chart-columns"]} ELSE {}
           laps == IF lapped THEN {[severity |-> "warning", code |-> "overlap"]} ELSE {}
<1>1. Lint(s, width) = IF s.suppressed THEN {} ELSE UNION {off, over, leaves, clips, empty, laps}
  BY DEF Lint
<1>2. /\ \A g \in off : g.code = "off-page"
      /\ \A g \in over : g.code = "page-overflow" /\ \E i \in prints : Over(s.objects[i])
      /\ \A g \in leaves : g.code = "band-overflow" /\ \E i \in prints : Leaves(s.objects[i])
      /\ \A g \in clips : g.code = "font-clip" /\ \E i \in prints : Clips(s.objects[i])
      /\ \A g \in empty : g.code = "chart-columns"
      /\ \A g \in laps : g.code = "overlap"
  <2> HIDE DEF prints, Off, Over, Leaves, Empty, lapped
  <2>1. QED OBVIOUS
<1>3. ~s.suppressed /\ (f \in off \/ f \in over \/ f \in leaves \/ f \in clips \/ f \in empty \/ f \in laps)
  <2> HIDE DEF off, over, leaves, clips, empty, laps
  <2>1. QED BY <1>1
<1> HIDE DEF off, over, leaves, clips, empty, laps
<1>4. /\ f.code = "page-overflow" => \E i \in prints : Over(s.objects[i])
      /\ f.code = "font-clip" => \E i \in prints : Clips(s.objects[i])
      /\ f.code = "band-overflow" => \E i \in prints : Leaves(s.objects[i])
  <2> HIDE DEF prints, Over, Leaves
  <2>1. QED BY <1>2, <1>3
<1>5. QED BY <1>3, <1>4

LEMMA FiniteValues ==
  ASSUME NEW n \in Nat, NEW f, DOMAIN f = 1..n
  PROVE  IsFiniteSet({f[k] : k \in 1..n})
<1> DEFINE T == {f[k] : k \in 1..n}
<1>2. [k \in 1..n |-> f[k]] \in Surjection(1..n, T)
  BY DEF Surjection
<1>3. IsFiniteSet(1..n)
  BY FS_Interval
<1> HIDE DEF T
<1>4. IsFiniteSet(T)
  BY <1>2, <1>3, FS_Surjection
<1>5. QED BY <1>4 DEF T

LEMMA MaxBounds ==
  ASSUME NEW S \in SUBSET Int, IsFiniteSet(S), S # {}
  PROVE  Max(S) \in S /\ \A x \in S : x <= Max(S)
<1>1. \E x \in S : \A y \in S : x >= y
  BY EndsExist
<1>2. Max(S) \in S /\ \A y \in S : Max(S) >= y
  BY <1>1 DEF Max
<1>3. QED BY <1>2

LEMMA MaxOfTwo ==
  ASSUME NEW a \in Int, NEW b \in Int
  PROVE  Max({a, b}) \in {a, b} /\ a <= Max({a, b}) /\ b <= Max({a, b})
<1>1. IsFiniteSet({a, b})
  <2>1. IsFiniteSet({a})
    BY FS_Singleton
  <2>2. IsFiniteSet({a} \union {b})
    BY <2>1, FS_AddElement
  <2>3. {a} \union {b} = {a, b}
    OBVIOUS
  <2>4. QED BY <2>2, <2>3
<1> DEFINE S == {a, b}
<1>2. S \in SUBSET Int /\ S # {} /\ a \in S /\ b \in S /\ IsFiniteSet(S)
  BY <1>1
<1> HIDE DEF S
<1>3. Max(S) \in S /\ a <= Max(S) /\ b <= Max(S)
  BY <1>2, MaxBounds
<1>4. QED BY <1>3 DEF S

(* A bound of what the objects of a band reach.                            *)
LEMMA ExtentBounds ==
  ASSUME NEW objects \in Seq(Element)
  PROVE  /\ Extent(objects) \in Nat
         /\ \A k \in DOMAIN objects : objects[k].x + objects[k].width <= Extent(objects)
<1> DEFINE n == Len(objects)
           ends == [k \in 1..n |-> objects[k].x + objects[k].width]
           S == {0} \union {o.x + o.width : o \in Range(objects)}
<1>1. n \in Nat /\ DOMAIN objects = 1..n /\ \A k \in 1..n : objects[k] \in Element
  OBVIOUS
<1>2. \A k \in 1..n : objects[k].x + objects[k].width \in Int
  BY <1>1 DEF Element
<1>3. S = {0} \union {ends[k] : k \in 1..n}
  BY <1>1 DEF Range
<1>4. S \in SUBSET Int /\ IsFiniteSet(S) /\ 0 \in S /\ \A k \in 1..n : ends[k] \in S
  <2>1. S \in SUBSET Int /\ 0 \in S /\ \A k \in 1..n : ends[k] \in S
    <3>1. \A k \in 1..n : ends[k] \in Int
      BY <1>2
    <3> HIDE DEF S, ends, n
    <3>2. QED BY <1>3, <3>1
  <2>2. IsFiniteSet({ends[k] : k \in 1..n})
    <3>1. DOMAIN ends = 1..n
      OBVIOUS
    <3> HIDE DEF ends, n
    <3>2. QED BY <1>1, <3>1, FiniteValues
  <2> HIDE DEF ends, S, n
  <2>3. QED BY <1>3, <2>1, <2>2, FS_Singleton, FS_Union
<1>5. Extent(objects) = Max(S)
  BY DEF Extent
<1>6. \A k \in 1..n : ends[k] = objects[k].x + objects[k].width
  OBVIOUS
<1> HIDE DEF S, ends, n
<1>7. Max(S) \in S /\ \A x \in S : x <= Max(S)
  BY <1>4, MaxBounds
<1>8. Extent(objects) \in Nat
  <2>1. Max(S) \in Int
    BY <1>4, <1>7
  <2>2. 0 <= Max(S)
    BY <1>4, <1>7
  <2>3. QED BY <1>5, <2>1, <2>2
<1>9. \A k \in 1..n : objects[k].x + objects[k].width <= Extent(objects)
  <2>1. \A k \in 1..n : ends[k] <= Extent(objects)
    BY <1>4, <1>5, <1>7
  <2>2. QED BY <1>6, <2>1
<1>10. QED BY <1>1, <1>8, <1>9

Bottom(objects) == Max({o.y + o.height : o \in Range(objects)} \union {0})
LEMMA BottomBounds ==
  ASSUME NEW objects \in Seq(Element)
  PROVE  /\ Bottom(objects) \in Nat
         /\ \A k \in DOMAIN objects : objects[k].y + objects[k].height <= Bottom(objects)
<1> DEFINE n == Len(objects)
           ends == [k \in 1..n |-> objects[k].y + objects[k].height]
           S == {o.y + o.height : o \in Range(objects)} \union {0}
<1>1. n \in Nat /\ DOMAIN objects = 1..n /\ \A k \in 1..n : objects[k] \in Element
  OBVIOUS
<1>2. \A k \in 1..n : objects[k].y + objects[k].height \in Int
  BY <1>1 DEF Element
<1>3. S = {0} \union {ends[k] : k \in 1..n}
  BY <1>1 DEF Range
<1>4. S \in SUBSET Int /\ IsFiniteSet(S) /\ 0 \in S /\ \A k \in 1..n : ends[k] \in S
  <2>1. S \in SUBSET Int /\ 0 \in S /\ \A k \in 1..n : ends[k] \in S
    <3>1. \A k \in 1..n : ends[k] \in Int
      BY <1>2
    <3> HIDE DEF S, ends, n
    <3>2. QED BY <1>3, <3>1
  <2>2. IsFiniteSet({ends[k] : k \in 1..n})
    <3>1. DOMAIN ends = 1..n
      OBVIOUS
    <3> HIDE DEF ends, n
    <3>2. QED BY <1>1, <3>1, FiniteValues
  <2> HIDE DEF ends, S, n
  <2>3. QED BY <1>3, <2>1, <2>2, FS_Singleton, FS_Union
<1>5. Bottom(objects) = Max(S)
  BY DEF Bottom
<1>6. \A k \in 1..n : ends[k] = objects[k].y + objects[k].height
  OBVIOUS
<1> HIDE DEF S, ends, n
<1>7. Max(S) \in S /\ \A x \in S : x <= Max(S)
  BY <1>4, MaxBounds
<1>8. Bottom(objects) \in Nat
  <2>1. Max(S) \in Int
    BY <1>4, <1>7
  <2>2. 0 <= Max(S)
    BY <1>4, <1>7
  <2>3. QED BY <1>5, <2>1, <2>2
<1>9. \A k \in 1..n : objects[k].y + objects[k].height <= Bottom(objects)
  <2>1. \A k \in 1..n : ends[k] <= Bottom(objects)
    BY <1>4, <1>5, <1>7
  <2>2. QED BY <1>6, <2>1
<1>10. QED BY <1>1, <1>8, <1>9

(* Rounding to the nearest: a length that shrinks keeps its side of zero,  *)
(* and two that add up to no more than the whole gain at most one.         *)
LEMMA RoundParts ==
  ASSUME NEW n \in Int, NEW d \in Nat, d > 0
  PROVE  /\ Round(n, d) \in Int
         /\ 2 * d * Round(n, d) <= 2 * n + d
         /\ 2 * n + d < 2 * d * (Round(n, d) + 1)
  BY DEF Round

LEMMA Shrinks ==
  ASSUME NEW x \in Int, NEW W \in Nat, NEW E \in Nat, W < E
  PROVE  LET r == Round(x * W, E)
         IN  r \in Int /\ (x >= 0 => 0 <= r /\ r <= x) /\ (x <= 0 => x <= r /\ r <= 0)
<1> DEFINE r == Round(x * W, E)
           p == x * W
           e == x * E
           q == E * r
<1>1. p \in Int /\ e \in Int
  OBVIOUS
<1>2. r \in Int /\ 2 * E * r <= 2 * p + E /\ 2 * p + E < 2 * E * (r + 1)
  BY <1>1, RoundParts
<1> HIDE DEF r
<1>3. q \in Int /\ 2 * q <= 2 * p + E /\ 2 * p + E < 2 * q + 2 * E
  BY <1>2
<1>4. CASE x >= 0
  <2>1. 0 <= p /\ p <= e
    BY <1>4
  <2>2. ~(r < 0)
    <3>1. r < 0 => q <= -E
      BY <1>2
    <3> HIDE DEF q, p
    <3>2. QED BY <1>1, <1>3, <2>1, <3>1
  <2>3. ~(r > x)
    <3>1. r > x => q >= e + E
      BY <1>2
    <3> HIDE DEF q, p, e
    <3>2. QED BY <1>1, <1>3, <2>1, <3>1
  <2>4. x <= 0 => x = 0
    BY <1>4
  <2>5. QED BY <1>2, <1>4, <2>2, <2>3, <2>4 DEF r
<1>5. CASE x < 0
  <2>1. p <= 0 /\ e <= p
    BY <1>5
  <2>2. ~(r > 0)
    <3>1. r > 0 => q >= E
      BY <1>2
    <3> HIDE DEF q, p
    <3>2. QED BY <1>1, <1>3, <2>1, <3>1
  <2>3. ~(r < x)
    <3>1. r < x => q <= e - E
      BY <1>2
    <3> HIDE DEF q, p, e
    <3>2. QED BY <1>1, <1>3, <2>1, <3>1
  <2>4. QED BY <1>2, <1>5, <2>2, <2>3 DEF r
<1>6. QED BY <1>4, <1>5

LEMMA FitsTogether ==
  ASSUME NEW x \in Int, NEW w \in Int, NEW W \in Nat, NEW E \in Nat, W < E, x + w <= E
  PROVE  Round(x * W, E) + Round(w * W, E) <= W + 1
<1> DEFINE p == x * W
           u == w * W
           r == Round(p, E)
           s == Round(u, E)
<1>1. p \in Int /\ u \in Int /\ p + u <= W * E
  <2>1. p + u = W * (x + w)
    OBVIOUS
  <2>2. W * (x + w) <= W * E
    OBVIOUS
  <2>3. QED BY <2>1, <2>2
<1> HIDE DEF p, u
<1>2. /\ r \in Int /\ 2 * E * r <= 2 * p + E
      /\ s \in Int /\ 2 * E * s <= 2 * u + E
  BY <1>1, RoundParts
<1> HIDE DEF r, s
<1> DEFINE q == E * r
           t == E * s
           whole == W * E
<1>3. q \in Int /\ t \in Int /\ whole \in Int /\ 2 * q <= 2 * p + E /\ 2 * t <= 2 * u + E /\ p + u <= whole
  BY <1>1, <1>2
<1>4. q + t = E * (r + s)
  BY <1>2
<1>5. q + t <= whole + E
  <2> HIDE DEF q, t, whole
  <2>1. QED BY <1>1, <1>3
<1>6. r + s > W + 1 => E * (r + s) >= E * (W + 2)
  BY <1>2
<1>7. E * (W + 2) = whole + 2 * E
  OBVIOUS
<1>8. r + s <= W + 1
  <2> DEFINE v == E * (r + s)
             z == E * (W + 2)
  <2>1. v \in Int /\ z \in Int /\ v <= whole + E /\ z = whole + 2 * E /\ (r + s > W + 1 => v >= z)
    BY <1>2, <1>4, <1>5, <1>6, <1>7
  <2> HIDE DEF v, z, whole
  <2>2. QED BY <1>2, <1>3, <2>1
<1>9. QED BY <1>8 DEF r, s, p, u

-----------------------------------------------------------------------------
Squeezed(o, W, E) == [o EXCEPT !.x = Round(@ * W, E), !.width = Round(@ * W, E)]

LEMMA SqueezedParts ==
  ASSUME NEW o \in Element, NEW W \in Nat, NEW E \in Nat, W < E
  PROVE  LET c == Squeezed(o, W, E)
         IN  /\ c \in Element /\ c.tag = o.tag /\ c.is = o.is /\ c.y = o.y /\ c.height = o.height
             /\ c.x = Round(o.x * W, E) /\ c.width = Round(o.width * W, E)
<1>1. o.x \in Int /\ o.width \in Int
  BY DEF Element
<1> DEFINE v == Round(o.x * W, E)
           w == Round(o.width * W, E)
<1>2. v \in Int /\ w \in Int
  BY <1>1, Shrinks
<1>3. Squeezed(o, W, E) = [o EXCEPT !.x = v, !.width = w]
  BY DEF Squeezed, Element
<1> HIDE DEF v, w
<1>4. LET c == [o EXCEPT !.x = v, !.width = w]
      IN  /\ c \in Element /\ c.tag = o.tag /\ c.is = o.is /\ c.y = o.y /\ c.height = o.height
          /\ c.x = v /\ c.width = w
  BY <1>2 DEF Element
<1>5. QED BY <1>3, <1>4 DEF v, w

LEMMA ScaledParts ==
  ASSUME NEW objects \in Seq(Element), NEW W \in Nat
  PROVE  LET C == Scaled(objects, W)
         IN  /\ C \in Seq(Element) /\ DOMAIN C = DOMAIN objects
             /\ \A k \in DOMAIN objects :
                  /\ C[k].tag = objects[k].tag /\ C[k].is = objects[k].is
                  /\ C[k].y = objects[k].y /\ C[k].height = objects[k].height
                  /\ C[k].x + C[k].width <= W + 1
             /\ C = objects \/ \E E \in Nat : W < E /\ \A k \in DOMAIN objects : C[k] = Squeezed(objects[k], W, E)
<1> DEFINE n == Len(objects)
           E == Extent(objects)
           C == Scaled(objects, W)
<1>1. n \in Nat /\ DOMAIN objects = 1..n /\ \A k \in 1..n : objects[k] \in Element
  OBVIOUS
<1>2. E \in Nat /\ \A k \in 1..n : objects[k].x + objects[k].width <= E
  BY <1>1, ExtentBounds
<1>3. C = IF E <= W THEN objects ELSE [k \in 1..n |-> Squeezed(objects[k], W, E)]
  BY <1>1 DEF Scaled, Squeezed
<1> HIDE DEF E, C
<1>4. CASE E <= W
  <2>1. C = objects
    BY <1>3, <1>4
  <2>2. \A k \in 1..n : objects[k].x \in Int /\ objects[k].width \in Int
    BY <1>1 DEF Element
  <2>3. \A k \in 1..n : objects[k].x + objects[k].width <= W + 1
    BY <1>2, <1>4, <2>2
  <2>4. QED BY <1>1, <2>1, <2>3 DEF C
<1>5. CASE ~(E <= W)
  <2>1. C = [k \in 1..n |-> Squeezed(objects[k], W, E)] /\ W < E
    BY <1>2, <1>3, <1>5
  <2>2. ASSUME NEW k \in 1..n
        PROVE  /\ C[k] = Squeezed(objects[k], W, E) /\ C[k] \in Element
               /\ C[k].tag = objects[k].tag /\ C[k].is = objects[k].is
               /\ C[k].y = objects[k].y /\ C[k].height = objects[k].height
               /\ C[k].x + C[k].width <= W + 1
    <3> DEFINE o == objects[k]
    <3>1. o \in Element /\ o.x \in Int /\ o.width \in Int /\ o.x + o.width <= E
      BY <1>1, <1>2 DEF Element
    <3>2. C[k] = Squeezed(o, W, E)
      BY <2>1
    <3> HIDE DEF o
    <3>3. /\ C[k] \in Element /\ C[k].tag = o.tag /\ C[k].is = o.is /\ C[k].y = o.y /\ C[k].height = o.height
          /\ C[k].x = Round(o.x * W, E) /\ C[k].width = Round(o.width * W, E)
      BY <1>2, <2>1, <3>1, <3>2, SqueezedParts
    <3>4. C[k].x + C[k].width <= W + 1
      BY <1>2, <2>1, <3>1, <3>3, FitsTogether
    <3>5. QED BY <3>2, <3>3, <3>4 DEF o
  <2>3. C \in Seq(Element) /\ DOMAIN C = 1..n
    <3>1. \A k \in 1..n : Squeezed(objects[k], W, E) \in Element
      BY <2>1, <2>2
    <3> HIDE DEF n
    <3>2. QED BY <1>1, <2>1, <3>1
  <2>4. \E F \in Nat : W < F /\ \A k \in 1..n : C[k] = Squeezed(objects[k], W, F)
    BY <1>2, <2>1, <2>2
  <2> HIDE DEF n
  <2>5. QED BY <1>1, <2>2, <2>3, <2>4 DEF C
<1>6. QED BY <1>4, <1>5

LEMMA GrownParts ==
  ASSUME NEW objects \in Seq(Element)
  PROVE  LET G == Grown(objects)
         IN  /\ G \in Seq(Element) /\ DOMAIN G = DOMAIN objects
             /\ \A k \in DOMAIN objects :
                  /\ G[k].tag = objects[k].tag /\ G[k].is = objects[k].is
                  /\ G[k].x = objects[k].x /\ G[k].width = objects[k].width
                  /\ ~Clips(G[k])
                  /\ KindOf(objects[k]) \notin Texts => G[k] = objects[k]
<1> DEFINE n == Len(objects)
           G == Grown(objects)
           Tall(o) == IF Clips(o) THEN [o EXCEPT !.height = o.font + 20] ELSE o
<1>1. n \in Nat /\ DOMAIN objects = 1..n /\ \A k \in 1..n : objects[k] \in Element
  OBVIOUS
<1>2. G = [k \in 1..n |-> Tall(objects[k])]
  BY <1>1 DEF Grown
<1>3. ASSUME NEW o \in Element
      PROVE  /\ Tall(o) \in Element /\ Tall(o).tag = o.tag /\ Tall(o).is = o.is
             /\ Tall(o).x = o.x /\ Tall(o).width = o.width /\ ~Clips(Tall(o))
             /\ KindOf(o) \notin Texts => Tall(o) = o
  <2>1. CASE ~Clips(o)
    BY <2>1
  <2>2. CASE Clips(o)
    <3> DEFINE h == o.font + 20
               c == [o EXCEPT !.height = h]
    <3>1. h \in Int
      BY DEF Element
    <3>2. Tall(o) = c
      BY <2>2
    <3>3. /\ c \in Element /\ c.tag = o.tag /\ c.is = o.is /\ c.x = o.x /\ c.width = o.width
          /\ c.height = h /\ c.font = o.font
      <4> HIDE DEF h
      <4>1. QED BY <3>1 DEF Element
    <3>4. c.font + 20 = c.height
      BY <3>3
    <3> HIDE DEF c, h
    <3>5. ~Clips(c)
      BY <3>1, <3>3, <3>4 DEF Clips
    <3>6. KindOf(o) \in Texts
      BY <2>2 DEF Clips, Texts
    <3> HIDE DEF Tall
    <3>7. QED BY <3>2, <3>3, <3>5, <3>6
  <2>3. QED BY <2>1, <2>2
<1> HIDE DEF Tall, G
<1>4. \A k \in 1..n : Tall(objects[k]) \in Element
  BY <1>1, <1>3
<1>5. G \in Seq(Element) /\ DOMAIN G = 1..n
  <2> HIDE DEF n
  <2>1. QED BY <1>1, <1>2, <1>4
<1>6. ASSUME NEW k \in 1..n
      PROVE  /\ G[k].tag = objects[k].tag /\ G[k].is = objects[k].is
             /\ G[k].x = objects[k].x /\ G[k].width = objects[k].width
             /\ ~Clips(G[k])
             /\ KindOf(objects[k]) \notin Texts => G[k] = objects[k]
  <2>1. G[k] = Tall(objects[k]) /\ objects[k] \in Element
    BY <1>1, <1>2
  <2>2. QED BY <1>3, <2>1
<1> HIDE DEF n
<1>7. QED BY <1>1, <1>5, <1>6 DEF G

LEMMA SameKind ==
  ASSUME NEW a, NEW b, a.tag = b.tag, a.is = b.is
  PROVE  KindOf(a) = KindOf(b)
  BY DEF KindOf

(* What the repair leaves of a band that is not suppressed.                *)
LEMMA FittedParts ==
  ASSUME NEW s \in Section, NEW W \in Nat, ~s.suppressed
  PROVE  LET F == Fitted(s, W)
             P == PromoteBackdrops(s.objects)
         IN  /\ F \in Section /\ ~F.suppressed /\ DOMAIN F.objects = DOMAIN P
             /\ \A k \in DOMAIN P : /\ ~Clips(F.objects[k]) /\ F.objects[k].x + F.objects[k].width <= W + 1
                                    /\ KindOf(F.objects[k]) = KindOf(P[k])
             /\ \/ \A k \in DOMAIN P : F.objects[k].y + F.objects[k].height <= F.height
                \/ /\ F.height = s.height
                   /\ \A k \in DOMAIN P : F.objects[k].y = P[k].y /\ F.objects[k].height = P[k].height
             /\ \/ \A k \in DOMAIN P : KindOf(P[k]) \notin Texts => F.objects[k] = P[k]
                \/ \E E \in Nat : /\ W < E
                                  /\ \A k \in DOMAIN P : KindOf(P[k]) \notin Texts => F.objects[k] = Squeezed(P[k], W, E)
<1> DEFINE P == PromoteBackdrops(s.objects)
           N == Deoverlapped(P)
           C == Scaled(N, W)
           G == Grown(C)
           bottom == Bottom(G)
           touched == N # P \/ G # C
           height == IF touched THEN Max({s.height, bottom}) ELSE s.height
           F == Fitted(s, W)
           D == DOMAIN P
<1>1. s.objects \in Seq(Element) /\ s.height \in Int
  BY DEF Section
<1>2. F = [s EXCEPT !.objects = G, !.height = height]
  BY DEF Fitted, Bottom
<1>3. P \in Seq(Element)
  BY <1>1, PromoteParts
<1> HIDE DEF P
<1>4. Near(P, N)
  BY <1>3, DeoverlapNear
<1>5. N \in Seq(Element) /\ DOMAIN N = D
  <2>1. D = 1..Len(P) /\ Len(P) \in Nat
    BY <1>3
  <2>2. N \in [1..Len(P) -> Element]
    BY <1>4, <2>1 DEF Near
  <2>3. QED BY <2>1, <2>2
<1>6. /\ C \in Seq(Element) /\ DOMAIN C = D
      /\ \A k \in D : /\ C[k].tag = N[k].tag /\ C[k].is = N[k].is
                      /\ C[k].y = N[k].y /\ C[k].height = N[k].height
                      /\ C[k].x + C[k].width <= W + 1
      /\ C = N \/ \E E \in Nat : W < E /\ \A k \in D : C[k] = Squeezed(N[k], W, E)
  <2> HIDE DEF N
  <2>1. QED BY <1>5, ScaledParts
<1>7. /\ G \in Seq(Element) /\ DOMAIN G = D
      /\ \A k \in D : /\ G[k].tag = C[k].tag /\ G[k].is = C[k].is
                      /\ G[k].x = C[k].x /\ G[k].width = C[k].width
                      /\ ~Clips(G[k])
                      /\ KindOf(C[k]) \notin Texts => G[k] = C[k]
  <2> HIDE DEF N, C
  <2>1. QED BY <1>6, GrownParts
<1>8. bottom \in Nat /\ \A k \in D : G[k].y + G[k].height <= bottom
  <2> HIDE DEF G
  <2>1. QED BY <1>7, BottomBounds
<1> HIDE DEF N, C, G, bottom, D
<1>9. height \in Int /\ (touched => bottom <= height)
  <2>1. Max({s.height, bottom}) \in {s.height, bottom} /\ bottom <= Max({s.height, bottom})
    <3> DEFINE a == s.height
    <3>1. a \in Int /\ bottom \in Int
      BY <1>1, <1>8
    <3> HIDE DEF a
    <3>2. Max({a, bottom}) \in {a, bottom} /\ bottom <= Max({a, bottom})
      BY <3>1, MaxOfTwo
    <3>3. QED BY <3>2 DEF a
  <2>2. QED BY <1>1, <1>8, <2>1
<1> HIDE DEF F
<1>10. F \in Section /\ ~F.suppressed /\ F.objects = G /\ F.height = height
  <2> HIDE DEF height
  <2>1. QED BY <1>2, <1>7, <1>9 DEF Section
<1>11. ASSUME NEW k \in D
       PROVE  /\ ~Clips(G[k]) /\ G[k].x + G[k].width <= W + 1
              /\ KindOf(G[k]) = KindOf(P[k]) /\ KindOf(C[k]) = KindOf(P[k])
  <2>1. G[k].tag = P[k].tag /\ G[k].is = P[k].is /\ C[k].tag = P[k].tag /\ C[k].is = P[k].is
    BY <1>4, <1>6, <1>7 DEF Near, D
  <2>2. QED BY <1>6, <1>7, <2>1, SameKind
<1>12. ASSUME NEW k \in D, KindOf(P[k]) \notin Texts PROVE G[k] = C[k] /\ N[k] = P[k]
  BY <1>4, <1>7, <1>11, <1>12 DEF Near, D
<1>13. \/ \A k \in D : G[k].y + G[k].height <= height
       \/ height = s.height /\ \A k \in D : G[k].y = P[k].y /\ G[k].height = P[k].height
  <2>1. CASE touched
    <3>1. \A k \in D : G[k] \in Element
      BY <1>7
    <3>2. \A k \in D : G[k].y \in Int /\ G[k].height \in Int
      BY <3>1 DEF Element
    <3> HIDE DEF height, touched
    <3>3. QED BY <1>8, <1>9, <2>1, <3>2
  <2>2. CASE ~touched
    <3>1. N = P /\ G = C /\ height = s.height
      BY <2>2
    <3>2. QED BY <1>6, <3>1
  <2>3. QED BY <2>1, <2>2
<1>14. \/ \A k \in D : KindOf(P[k]) \notin Texts => G[k] = P[k]
       \/ \E E \in Nat : W < E /\ \A k \in D : KindOf(P[k]) \notin Texts => G[k] = Squeezed(P[k], W, E)
  <2>1. CASE C = N
    BY <1>12, <2>1
  <2>2. CASE C # N
    <3>1. PICK E \in Nat : W < E /\ \A k \in D : C[k] = Squeezed(N[k], W, E)
      BY <1>6, <2>2
    <3>2. \A k \in D : KindOf(P[k]) \notin Texts => G[k] = Squeezed(P[k], W, E)
      BY <1>12, <3>1
    <3>3. QED BY <3>1, <3>2
  <2>3. QED BY <2>1, <2>2
<1>15. D = DOMAIN P /\ DOMAIN F.objects = D
  BY <1>7, <1>10 DEF D
<1> HIDE DEF height, touched
<1>16. QED BY <1>10, <1>11, <1>13, <1>14, <1>15 DEF F, P

-----------------------------------------------------------------------------
LEMMA Greatest ==
  ASSUME NEW n \in Nat, NEW f \in [1..n -> Int], NEW A \in SUBSET (1..n), A # {}
  PROVE  \E a \in A : \A b \in A : f[b] <= f[a]
<1> DEFINE T == {f[k] : k \in 1..n}
           V == {f[k] : k \in A}
<1>1. IsFiniteSet(T)
  <2>1. DOMAIN f = 1..n
    OBVIOUS
  <2>2. QED BY <2>1, FiniteValues
<1>2. V \in SUBSET T /\ V \in SUBSET Int /\ V # {}
  OBVIOUS
<1>3. IsFiniteSet(V)
  <2> HIDE DEF T, V
  <2>1. QED BY <1>1, <1>2, FS_Subset
<1>4. \E x \in V : \A y \in V : x >= y
  <2> HIDE DEF V
  <2>1. QED BY <1>2, <1>3, EndsExist
<1>5. PICK a \in A : \A y \in V : f[a] >= y
  BY <1>4
<1>6. \A b \in A : f[b] \in V /\ f[b] \in Int /\ f[a] \in Int
  OBVIOUS
<1> HIDE DEF V
<1>7. QED BY <1>5, <1>6

LEMMA Least ==
  ASSUME NEW n \in Nat, n > 0, NEW f \in [1..n -> Int]
  PROVE  Min({f[k] : k \in 1..n}) \in Int
<1> DEFINE T == {f[k] : k \in 1..n}
<1>1. IsFiniteSet(T)
  <2>1. DOMAIN f = 1..n
    OBVIOUS
  <2>2. QED BY <2>1, FiniteValues
<1>2. T \in SUBSET Int /\ T # {}
  <2>1. 1 \in 1..n
    OBVIOUS
  <2>2. f[1] \in T
    BY <2>1
  <2>3. QED BY <2>2
<1> HIDE DEF T
<1>3. \E x \in T : \A y \in T : x <= y
  BY <1>1, <1>2, EndsExist
<1>4. Min(T) \in T
  BY <1>3 DEF Min
<1>5. QED BY <1>2, <1>4 DEF T

(* The parser's objects: those of the dump, but for undrawn rules.         *)
LEMMA KeptParts ==
  ASSUME NEW s \in Section
  PROVE  /\ Kept(s) \in Seq(Element)
         /\ \A k \in DOMAIN Kept(s) : \E i \in DOMAIN s.objects : Kept(s)[k] = s.objects[i]
         /\ \A i \in DOMAIN s.objects : s.objects[i].tag \notin {"line", "box"} => \E k \in DOMAIN Kept(s) : Kept(s)[k] = s.objects[i]
<1> DEFINE n == Len(s.objects)
           kept == {i \in DOMAIN s.objects : s.objects[i].drawn \/ s.objects[i].tag \notin {"line", "box"}}
           key == [i \in kept |-> i]
           places == InKeyOrder(key)
           m == Cardinality(DOMAIN key)
           K == Kept(s)
<1>1. n \in Nat /\ DOMAIN s.objects = 1..n /\ \A k \in 1..n : s.objects[k] \in Element
  BY DEF Section
<1>2. /\ kept \subseteq 1..n /\ DOMAIN key = kept
      /\ \A i \in DOMAIN key : key[i] \in Int
      /\ \A i, j \in DOMAIN key : key[i] = key[j] => i = j
  BY <1>1
<1>3. IsFiniteSet(kept)
  <2>1. IsFiniteSet(1..n)
    <3> HIDE DEF n
    <3>1. QED BY <1>1, FS_Interval
  <2> HIDE DEF kept
  <2>2. QED BY <1>2, <2>1, FS_Subset
<1>4. K = [k \in DOMAIN places |-> s.objects[places[k]]]
  BY DEF Kept
<1>5. \A i \in 1..n : s.objects[i].tag \notin {"line", "box"} => i \in kept
  BY <1>1
<1> HIDE DEF kept, key, K
<1>6. m \in Nat /\ DOMAIN places = 1..m /\ \A k \in 1..m : places[k] \in kept
  <2>1. m \in Nat /\ DOMAIN places = 1..m /\ \A k \in 1..m : places[k] \in DOMAIN key
    BY <1>2, <1>3, KeyOrder
  <2>2. QED BY <1>2, <2>1
<1>7. \A i \in kept : \E k \in 1..m : places[k] = i
  <2>1. \A i \in DOMAIN key : \E k \in 1..m : places[k] = i
    BY <1>2, <1>3, KeyOrder
  <2>2. QED BY <1>2, <2>1
<1> HIDE DEF places, m
<1>8. K = [k \in 1..m |-> s.objects[places[k]]] /\ \A k \in 1..m : places[k] \in 1..n
  BY <1>2, <1>4, <1>6
<1>9. K \in Seq(Element) /\ DOMAIN K = 1..m /\ \A k \in 1..m : K[k] = s.objects[places[k]]
  <2> HIDE DEF n
  <2>1. QED BY <1>1, <1>6, <1>8
<1>10. \A k \in 1..m : \E i \in 1..n : K[k] = s.objects[i]
  BY <1>8, <1>9
<1>11. ASSUME NEW i \in 1..n, s.objects[i].tag \notin {"line", "box"} PROVE \E k \in 1..m : K[k] = s.objects[i]
  <2>1. PICK k \in 1..m : places[k] = i
    BY <1>5, <1>7, <1>11
  <2>2. QED BY <1>9, <2>1
<1> HIDE DEF n
<1>12. QED BY <1>1, <1>9, <1>10, <1>11 DEF K

(* A section as resolve_underlay_summary leaves it.                        *)
Moved(s, u) ==
  /\ u \in Section /\ u.suppressed = s.suppressed
  /\ \/ u.objects = s.objects /\ u.height = s.height
     \/ \E t \in Nat : /\ t > 0
                       /\ u.objects = [i \in DOMAIN s.objects |-> [s.objects[i] EXCEPT !.y = @ - t]]
                       /\ \A i \in DOMAIN s.objects : u.objects[i].y + u.objects[i].height <= u.height

LEMMA PulledMoves ==
  ASSUME NEW s \in Section, s.objects # <<>>
  PROVE  Moved(s, PulledUp(s))
<1> DEFINE n == Len(s.objects)
           ys == [k \in 1..n |-> s.objects[k].y]
           top == Min({o.y : o \in Range(s.objects)})
           t == top - 30
           up == [i \in DOMAIN s.objects |-> [s.objects[i] EXCEPT !.y = @ - t]]
           ends == {o.y + o.height : o \in Range(up)}
           height == Max(ends) + 30
<1>1. n \in Nat /\ DOMAIN s.objects = 1..n /\ (\A k \in 1..n : s.objects[k] \in Element) /\ n > 0
  BY DEF Section
<1>2. top \in Int
  <2>1. ys \in [1..n -> Int]
    BY <1>1 DEF Element
  <2>2. {o.y : o \in Range(s.objects)} = {ys[k] : k \in 1..n}
    BY <1>1 DEF Range
  <2> HIDE DEF ys, n
  <2>3. QED BY <1>1, <2>1, <2>2, Least
<1>3. PulledUp(s) = IF top <= 60 THEN s ELSE [s EXCEPT !.objects = up, !.height = height]
  BY DEF PulledUp
<1>4. CASE top <= 60
  BY <1>3, <1>4 DEF Moved
<1>5. CASE ~(top <= 60)
  <2>1. t \in Nat /\ t > 0
    BY <1>2, <1>5
  <2> HIDE DEF top, t
  <2>2. ASSUME NEW k \in 1..n
        PROVE  up[k] \in Element /\ up[k].y \in Int /\ up[k].height \in Int
    <3> DEFINE v == s.objects[k].y - t
    <3>1. v \in Int
      BY <1>1, <2>1 DEF Element
    <3>2. up[k] = [s.objects[k] EXCEPT !.y = v]
      BY <1>1
    <3> HIDE DEF v, up
    <3>3. up[k] \in Element
      BY <1>1, <3>1, <3>2 DEF Element
    <3>4. QED BY <3>3 DEF Element
  <2>3. up \in Seq(Element) /\ DOMAIN up = 1..n /\ Len(up) = n
    <3>1. DOMAIN up = 1..n
      BY <1>1
    <3>2. up = [k \in 1..n |-> up[k]]
      BY <1>1
    <3> HIDE DEF up, n
    <3>3. QED BY <1>1, <2>2, <3>1, <3>2
  <2> DEFINE low == [k \in 1..n |-> up[k].y + up[k].height]
  <2>4. ends = {low[k] : k \in 1..n} /\ low \in [1..n -> Int]
    <3> HIDE DEF up
    <3>1. ends = {low[k] : k \in 1..n}
      BY <2>3 DEF Range
    <3>2. low \in [1..n -> Int]
      BY <2>2
    <3>3. QED BY <3>1, <3>2
  <2>5. IsFiniteSet(ends) /\ ends \in SUBSET Int /\ ends # {} /\ \A k \in 1..n : low[k] \in ends
    <3> HIDE DEF ends
    <3>2. DOMAIN low = 1..n
      BY <2>4
    <3> HIDE DEF low, n
    <3>1. \A k \in 1..n : low[k] \in ends
      BY <2>4
    <3>3. IsFiniteSet(ends) /\ ends \in SUBSET Int
      BY <1>1, <2>4, <3>2, FiniteValues
    <3>4. 1 \in 1..n
      BY <1>1
    <3>5. QED BY <3>1, <3>3, <3>4
  <2>6. \A k \in 1..n : low[k] = up[k].y + up[k].height
    OBVIOUS
  <2> HIDE DEF ends, low, up
  <2>7. Max(ends) \in ends /\ \A x \in ends : x <= Max(ends)
    BY <2>5, MaxBounds
  <2>8. height \in Int /\ \A k \in 1..n : low[k] <= height
    <3>1. Max(ends) \in Int
      BY <2>5, <2>7
    <3>2. \A k \in 1..n : low[k] <= Max(ends) /\ low[k] \in Int
      BY <2>5, <2>7
    <3>3. QED BY <3>1, <3>2
  <2> DEFINE u == PulledUp(s)
  <2> HIDE DEF height
  <2>9. u = [s EXCEPT !.objects = up, !.height = height]
    BY <1>3, <1>5
  <2> HIDE DEF u
  <2>10. u \in Section /\ u.suppressed = s.suppressed /\ u.objects = up /\ u.height = height
    BY <2>3, <2>8, <2>9 DEF Section
  <2>11. up = [i \in DOMAIN s.objects |-> [s.objects[i] EXCEPT !.y = @ - t]]
    BY DEF up
  <2>12. \A i \in DOMAIN s.objects : u.objects[i].y + u.objects[i].height <= u.height
    BY <1>1, <2>6, <2>8, <2>10
  <2>13. Moved(s, u)
    BY <2>1, <2>10, <2>11, <2>12 DEF Moved
  <2>14. QED BY <2>13 DEF u
<1>6. QED BY <1>4, <1>5

LEMMA StackedMoves ==
  ASSUME NEW layout \in Seq(Section)
  PROVE  /\ Stacked(layout) \in Seq(Section) /\ DOMAIN Stacked(layout) = DOMAIN layout
         /\ \A i \in DOMAIN layout : Moved(layout[i], Stacked(layout)[i])
<1> DEFINE n == Len(layout)
           U == Stacked(layout)
<1>1. n \in Nat /\ DOMAIN layout = 1..n /\ \A i \in 1..n : layout[i] \in Section
  OBVIOUS
<1>2. ASSUME NEW i \in 1..n PROVE Moved(layout[i], U[i])
  <2> DEFINE s == layout[i]
  <2>1. \/ U[i] = [s EXCEPT !.underlay = FALSE]
        \/ s.objects # <<>> /\ U[i] = PulledUp(s)
        \/ U[i] = s
    BY <1>1 DEF Stacked
  <2> HIDE DEF U, s
  <2>2. s \in Section
    BY <1>1 DEF s
  <2>3. ASSUME U[i] = s PROVE Moved(s, U[i])
    BY <2>2, <2>3 DEF Moved
  <2>4. ASSUME U[i] = [s EXCEPT !.underlay = FALSE] PROVE Moved(s, U[i])
    <3> DEFINE u == [s EXCEPT !.underlay = FALSE]
    <3>1. u \in Section /\ u.suppressed = s.suppressed /\ u.objects = s.objects /\ u.height = s.height
      BY <2>2 DEF Section
    <3> HIDE DEF u
    <3>2. Moved(s, u)
      BY <3>1 DEF Moved
    <3>3. QED BY <2>4, <3>2 DEF u
  <2>5. ASSUME s.objects # <<>>, U[i] = PulledUp(s) PROVE Moved(s, U[i])
    BY <2>2, <2>5, PulledMoves
  <2>6. Moved(s, U[i])
    BY <2>1, <2>3, <2>4, <2>5
  <2>7. QED BY <2>6 DEF s
<1>3. DOMAIN U = 1..n /\ U = [i \in 1..n |-> U[i]]
  BY <1>1 DEF Stacked
<1> HIDE DEF U
<1>4. \A i \in 1..n : U[i] \in Section
  BY <1>2 DEF Moved
<1>5. U \in Seq(Section)
  <2> HIDE DEF n
  <2>1. QED BY <1>1, <1>3, <1>4
<1> HIDE DEF n
<1>6. QED BY <1>1, <1>2, <1>3, <1>5 DEF U

-----------------------------------------------------------------------------
(* A section as the parser gives it of the dump's.                         *)
KeptFrom(d, s) == s \in Section /\ s.objects = Kept(d) /\ s.height = d.height /\ s.suppressed = d.suppressed

LEMMA BandIsClean ==
  ASSUME NEW d \in Section, NEW s, KeptFrom(d, s), NEW u, Moved(s, u), NEW W \in Nat
  PROVE  LET codes == {f.code : f \in Lint(Fitted(u, W), W)}
         IN  /\ codes \intersect {"page-overflow", "font-clip"} = {}
             /\ Fitted(u, W).height > d.height => "band-overflow" \notin codes
<1> DEFINE F == Fitted(u, W)
           P == PromoteBackdrops(u.objects)
<1>1. CASE u.suppressed
  <2>1. F = u
    BY <1>1 DEF Fitted
  <2> HIDE DEF F
  <2>2. Lint(F, W) = {}
    BY <1>1, <2>1, LintFinds
  <2>3. QED BY <2>2 DEF F
<1>2. CASE ~u.suppressed
  <2>1. u \in Section
    BY DEF Moved
  <2>2. /\ F \in Section /\ DOMAIN F.objects = DOMAIN P
        /\ \A k \in DOMAIN P : ~Clips(F.objects[k]) /\ F.objects[k].x + F.objects[k].width <= W + 1
        /\ \/ \A k \in DOMAIN P : F.objects[k].y + F.objects[k].height <= F.height
           \/ /\ F.height = u.height
              /\ \A k \in DOMAIN P : F.objects[k].y = P[k].y /\ F.objects[k].height = P[k].height
    BY <1>2, <2>1, FittedParts
  <2> HIDE DEF F
  <2>3. ASSUME NEW k \in DOMAIN P
        PROVE  /\ F.objects[k].x \in Int /\ F.objects[k].width \in Int
               /\ F.objects[k].y \in Int /\ F.objects[k].height \in Int /\ F.height \in Int
    <3>1. F.objects \in Seq(Element) /\ F.height \in Int
      BY <2>2 DEF Section
    <3>2. F.objects[k] \in Element
      BY <2>2, <3>1
    <3>3. QED BY <3>1, <3>2 DEF Element
  <2>4. ASSUME NEW f \in Lint(F, W) PROVE f.code # "page-overflow" /\ f.code # "font-clip"
    <3>1. /\ f.code = "page-overflow" => \E i \in DOMAIN F.objects : F.objects[i].x + F.objects[i].width > W + 5
          /\ f.code = "font-clip" => \E i \in DOMAIN F.objects : Clips(F.objects[i])
      BY LintFinds
    <3>2. QED BY <2>2, <2>3, <3>1
  <2>5. ASSUME NEW f \in Lint(F, W), f.code = "band-overflow", F.height > d.height PROVE FALSE
    <3>1. PICK k \in DOMAIN P : F.objects[k].y + F.objects[k].height > F.height + 5
      BY <2>2, <2>5, LintFinds
    <3>2. F.height = u.height /\ F.objects[k].y = P[k].y /\ F.objects[k].height = P[k].height
      BY <2>2, <2>3, <3>1
    <3>3. s.height = d.height /\ d.height \in Int /\ u.height \in Int
      BY <2>1 DEF KeptFrom, Section
    <3>9. u.height # s.height
      BY <2>5, <3>2, <3>3
    <3>4. PICK t \in Nat : /\ u.objects = [i \in DOMAIN s.objects |-> [s.objects[i] EXCEPT !.y = @ - t]]
                           /\ \A i \in DOMAIN s.objects : u.objects[i].y + u.objects[i].height <= u.height
      BY <3>9 DEF Moved
    <3>5. DOMAIN u.objects = DOMAIN s.objects
      BY <3>4
    <3>6. PICK i \in DOMAIN u.objects : P[k] = u.objects[i]
      <4>1. u.objects \in Seq(Element)
        BY <2>1 DEF Section
      <4>2. QED BY <4>1, PromoteParts
    <3>7. F.objects[k].y + F.objects[k].height <= F.height
      BY <3>2, <3>4, <3>5, <3>6
    <3>8. QED BY <2>3, <3>1, <3>7
  <2>6. QED BY <2>4, <2>5 DEF F
<1>3. QED BY <1>1, <1>2

Away(x) == IF x < 0 THEN -x ELSE x
Span(o) == Away(o.x) + Away(o.width)

LEMMA SqueezeShrinks ==
  ASSUME NEW o \in Element, NEW W \in Nat, NEW E \in Nat, W < E, Squeezed(o, W, E) # o
  PROVE  Span(Squeezed(o, W, E)) < Span(o)
<1> DEFINE v == Round(o.x * W, E)
           w == Round(o.width * W, E)
<1>1. o.x \in Int /\ o.width \in Int
  BY DEF Element
<1>2. /\ v \in Int /\ (o.x >= 0 => 0 <= v /\ v <= o.x) /\ (o.x <= 0 => o.x <= v /\ v <= 0)
      /\ w \in Int /\ (o.width >= 0 => 0 <= w /\ w <= o.width) /\ (o.width <= 0 => o.width <= w /\ w <= 0)
  BY <1>1, Shrinks
<1>3. v # o.x \/ w # o.width
  <2>1. Squeezed(o, W, E) = [o EXCEPT !.x = v, !.width = w]
    BY DEF Squeezed, Element
  <2> HIDE DEF v, w
  <2>2. v = o.x /\ w = o.width => [o EXCEPT !.x = v, !.width = w] = o
    BY DEF Element
  <2>3. QED BY <2>1, <2>2
<1>4. Squeezed(o, W, E).x = v /\ Squeezed(o, W, E).width = w
  BY SqueezedParts
<1> HIDE DEF v, w
<1>5. Away(v) + Away(w) < Away(o.x) + Away(o.width)
  BY <1>1, <1>2, <1>3 DEF Away
<1>6. QED BY <1>4, <1>5 DEF Span

LEMMA BandKeepsBackdrops ==
  ASSUME NEW d \in Section, NEW s, KeptFrom(d, s), NEW u, Moved(s, u), NEW W \in Nat, ~Fitted(u, W).suppressed,
         Range(Fitted(u, W).objects) = Range(d.objects),
         NEW i \in DOMAIN Fitted(u, W).objects, NEW j \in DOMAIN Fitted(u, W).objects,
         KindOf(Fitted(u, W).objects[i]) \in Texts,
         IsBackdrop(Fitted(u, W).objects[j], Fitted(u, W).objects[i])
  PROVE  j < i
<1> DEFINE O == Fitted(u, W).objects
           P == PromoteBackdrops(u.objects)
           D == d.objects
           n == Len(D)
           pictures == {a \in 1..n : KindOf(D[a]) = "image"}
<1>1. ~u.suppressed /\ u \in Section /\ u.objects \in Seq(Element) /\ s.objects = Kept(d)
  <2>1. ~u.suppressed
    BY DEF Fitted
  <2>2. u \in Section /\ s.objects = Kept(d)
    BY DEF Moved, KeptFrom
  <2>3. QED BY <2>1, <2>2 DEF Section
<1>2. /\ DOMAIN O = DOMAIN P
      /\ \A k \in DOMAIN P : KindOf(O[k]) = KindOf(P[k])
      /\ \/ \A k \in DOMAIN P : KindOf(P[k]) \notin Texts => O[k] = P[k]
         \/ \E E \in Nat : W < E /\ \A k \in DOMAIN P : KindOf(P[k]) \notin Texts => O[k] = Squeezed(P[k], W, E)
  BY <1>1, FittedParts
<1>3. /\ P \in Seq(Element)
      /\ \A k \in DOMAIN P : \E a \in DOMAIN u.objects : P[k] = u.objects[a]
      /\ \A a \in DOMAIN u.objects : \E k \in DOMAIN P : P[k] = u.objects[a]
      /\ \A a, b, k \in DOMAIN P : KindOf(P[a]) \in Texts /\ KindOf(P[k]) \in Texts /\ IsBackdrop(P[b], P[k]) => b < a
  BY <1>1, PromoteParts
<1>4. /\ \A k \in DOMAIN s.objects : \E a \in 1..n : s.objects[k] = D[a]
      /\ \A a \in 1..n : D[a].tag \notin {"line", "box"} => \E k \in DOMAIN s.objects : s.objects[k] = D[a]
      /\ s.objects \in Seq(Element)
  <2>1. DOMAIN D = 1..n
    BY DEF Section
  <2>2. QED BY <1>1, <2>1, KeptParts
<1>5. n \in Nat /\ DOMAIN D = 1..n /\ \A a \in 1..n : D[a] \in Element
  BY DEF Section
<1>6. /\ \A k \in DOMAIN O : \E a \in 1..n : O[k] = D[a]
      /\ \A a \in 1..n : \E k \in DOMAIN O : O[k] = D[a]
  <2>1. Range(O) = Range(D)
    OBVIOUS
  <2> HIDE DEF O, D, n
  <2>2. QED BY <1>5, <2>1 DEF Range
<1>7. i \in DOMAIN O /\ j \in DOMAIN O /\ KindOf(O[i]) \in Texts /\ IsBackdrop(O[j], O[i]) /\ KindOf(O[j]) = "image"
  BY DEF IsBackdrop
<1> HIDE DEF O, P, D, n
<1>8. "image" \notin Texts
  BY DEF Texts
<1>9. \A k \in DOMAIN P : KindOf(P[k]) = "image" =>
        /\ O[k].y = P[k].y
        /\ P[k] \in Element
  <2> SUFFICES ASSUME NEW k \in DOMAIN P, KindOf(P[k]) = "image" PROVE O[k].y = P[k].y /\ P[k] \in Element
    OBVIOUS
  <2>1. P[k] \in Element
    BY <1>3
  <2>2. CASE O[k] = P[k]
    BY <2>1, <2>2
  <2>3. CASE \E E \in Nat : W < E /\ O[k] = Squeezed(P[k], W, E)
    BY <2>1, <2>3, SqueezedParts
  <2>4. QED BY <1>2, <1>8, <2>2, <2>3
<1>10. u.objects = s.objects
  <2>1. CASE pictures = {}
    <3>1. PICK a \in 1..n : O[j] = D[a]
      BY <1>6, <1>7
    <3>2. QED BY <1>7, <2>1, <3>1
  <2>2. CASE pictures # {}
    <3>1. ASSUME NEW t \in Nat, t > 0,
                 u.objects = [k \in DOMAIN s.objects |-> [s.objects[k] EXCEPT !.y = @ - t]]
          PROVE  FALSE
      <4> DEFINE y == [a \in 1..n |-> D[a].y]
      <4>1. PICK a \in pictures : \A b \in pictures : y[b] <= y[a]
        <5>1. y \in [1..n -> Int]
          BY <1>5 DEF Element
        <5>2. pictures \in SUBSET (1..n)
          OBVIOUS
        <5> HIDE DEF y, pictures
        <5>3. QED BY <1>5, <2>2, <5>1, <5>2, Greatest
      <4>2. PICK m \in DOMAIN O : O[m] = D[a]
        BY <1>6
      <4>3. m \in DOMAIN P /\ KindOf(P[m]) = "image" /\ P[m].y = D[a].y
        BY <1>2, <1>9, <4>2
      <4>4. PICK k \in DOMAIN u.objects : P[m] = u.objects[k]
        BY <1>3, <4>3
      <4>5. k \in DOMAIN s.objects /\ P[m] = [s.objects[k] EXCEPT !.y = @ - t]
        BY <3>1, <4>4
      <4>6. PICK b \in 1..n : s.objects[k] = D[b]
        BY <1>4, <4>5
      <4>7. D[b] \in Element /\ D[b].y \in Int /\ P[m] = [D[b] EXCEPT !.y = D[b].y - t]
        BY <1>5, <4>5, <4>6 DEF Element
      <4>8. P[m].tag = D[b].tag /\ P[m].is = D[b].is /\ P[m].y = D[b].y - t
        BY <4>7 DEF Element
      <4>9. b \in pictures
        BY <4>3, <4>8, SameKind
      <4>10. D[b].y <= D[a].y
        BY <4>1, <4>9
      <4>11. QED BY <4>3, <4>7, <4>8, <4>10, <3>1
    <3>2. QED BY <3>1 DEF Moved
  <2>3. QED BY <2>1, <2>2
<1>11. ASSUME NEW m \in DOMAIN P, KindOf(P[m]) = "image"
       PROVE  \E b \in pictures : P[m] = D[b]
  <2>1. PICK k \in DOMAIN s.objects : P[m] = s.objects[k]
    BY <1>3, <1>10
  <2>2. PICK b \in 1..n : s.objects[k] = D[b]
    BY <1>4
  <2>3. QED BY <1>11, <2>1, <2>2
<1>12. O[j] = P[j]
  <2>1. CASE \A k \in DOMAIN P : KindOf(P[k]) \notin Texts => O[k] = P[k]
    BY <1>2, <1>7, <1>8, <2>1
  <2>2. ASSUME NEW E \in Nat, W < E, \A k \in DOMAIN P : KindOf(P[k]) \notin Texts => O[k] = Squeezed(P[k], W, E)
        PROVE  O[j] = P[j]
    <3> DEFINE small == {a \in pictures : Squeezed(D[a], W, E) # D[a]}
               size == [a \in 1..n |-> Span(D[a])]
    <3>1. ASSUME small # {} PROVE FALSE
      <4>1. PICK a \in small : \A b \in small : size[b] <= size[a]
        <5>1. size \in [1..n -> Int]
          <6>1. \A a \in 1..n : D[a].x \in Int /\ D[a].width \in Int
            BY <1>5 DEF Element
          <6>2. \A a \in 1..n : Span(D[a]) \in Int
            BY <6>1 DEF Span, Away
          <6>3. QED BY <6>2
        <5>2. small \in SUBSET (1..n)
          OBVIOUS
        <5> HIDE DEF size, small
        <5>3. QED BY <1>5, <3>1, <5>1, <5>2, Greatest
      <4>2. a \in pictures /\ a \in 1..n /\ KindOf(D[a]) = "image" /\ Squeezed(D[a], W, E) # D[a]
        OBVIOUS
      <4>3. PICK m \in DOMAIN O : O[m] = D[a]
        BY <1>6, <4>2
      <4>4. m \in DOMAIN P /\ KindOf(P[m]) = "image" /\ D[a] = Squeezed(P[m], W, E)
        BY <1>2, <1>8, <2>2, <4>2, <4>3
      <4>5. PICK b \in pictures : P[m] = D[b]
        BY <1>11, <4>4
      <4>6. D[a] = Squeezed(D[b], W, E) /\ D[b] \in Element /\ D[a] \in Element /\ b \in 1..n
        BY <1>5, <4>2, <4>4, <4>5
      <4>7. Squeezed(D[b], W, E) # D[b]
        BY <4>2, <4>6
      <4>8. Span(D[a]) < Span(D[b])
        BY <2>2, <4>6, <4>7, SqueezeShrinks
      <4>9. b \in small
        BY <4>7
      <4>10. Span(D[b]) <= Span(D[a])
        BY <4>1, <4>2, <4>6, <4>9
      <4>11. Span(D[a]) \in Int /\ Span(D[b]) \in Int
        <5>1. D[a].x \in Int /\ D[a].width \in Int /\ D[b].x \in Int /\ D[b].width \in Int
          BY <4>6 DEF Element
        <5>2. QED BY <5>1 DEF Span, Away
      <4>12. QED BY <4>8, <4>10, <4>11
    <3>2. j \in DOMAIN P /\ KindOf(P[j]) = "image" /\ O[j] = Squeezed(P[j], W, E)
      BY <1>2, <1>7, <1>8, <2>2
    <3>3. PICK b \in pictures : P[j] = D[b]
      BY <1>11, <3>2
    <3>4. b \notin small
      BY <3>1
    <3>5. QED BY <3>2, <3>3, <3>4
  <2>3. QED BY <1>2, <2>1, <2>2
<1>13. PICK k \in DOMAIN P : P[k] = O[i]
  <2>1. PICK a \in 1..n : O[i] = D[a]
    BY <1>6 DEF O
  <2>2. D[a].tag \notin {"line", "box"}
    BY <1>7, <2>1 DEF KindOf, Texts
  <2>3. PICK b \in DOMAIN s.objects : s.objects[b] = D[a]
    BY <1>4, <2>2
  <2>4. QED BY <1>3, <1>10, <2>1, <2>3
<1>14. i \in DOMAIN P /\ j \in DOMAIN P
  BY <1>2 DEF O
<1>15. KindOf(P[i]) \in Texts /\ KindOf(P[k]) \in Texts /\ IsBackdrop(P[j], P[k])
  BY <1>2, <1>7, <1>12, <1>13, <1>14
<1>16. QED BY <1>3, <1>14, <1>15

-----------------------------------------------------------------------------
LEMMA ParsedParts ==
  ASSUME NEW d \in Dumps
  PROVE  /\ Parsed(d) \in Seq(Section) /\ DOMAIN Parsed(d) = DOMAIN d.sections
         /\ \A i \in DOMAIN d.sections : d.sections[i] \in Section /\ KeptFrom(d.sections[i], Parsed(d)[i])
<1> DEFINE n == Len(d.sections)
           g == Len(d.query.groups)
           footers == Cardinality({s.group : s \in {t \in Range(d.sections) : t.area = "GroupFooter"}})
           S == Parsed(d)
<1>1. n \in Nat /\ DOMAIN d.sections = 1..n /\ \A i \in 1..n : d.sections[i] \in Section
  BY LayoutAssumption
<1>2. g \in Nat
  BY DumpsAssumption, KeyParts
<1>3. ASSUME NEW s \in Section
      PROVE  LET r == [s EXCEPT !.objects = Kept(s), !.group = GroupIndex(s.area, @, g, footers)]
             IN  KeptFrom(s, r)
  <2> DEFINE v == GroupIndex(s.area, s.group, g, footers)
             K == Kept(s)
             r == [s EXCEPT !.objects = K, !.group = v]
  <2>1. s.group \in Int
    BY DEF Section
  <2>2. v \in Int
    <3> HIDE DEF g, footers
    <3>1. QED BY <1>2, <2>1 DEF GroupIndex
  <2>3. K \in Seq(Element)
    BY KeptParts
  <2>4. [s EXCEPT !.objects = Kept(s), !.group = GroupIndex(s.area, @, g, footers)] = r
    BY DEF Section
  <2> HIDE DEF v, K
  <2>5. r \in Section /\ r.objects = K /\ r.height = s.height /\ r.suppressed = s.suppressed
    BY <2>2, <2>3 DEF Section
  <2> HIDE DEF r
  <2>6. KeptFrom(s, r)
    BY <2>5 DEF KeptFrom, K
  <2>7. QED BY <2>4, <2>6
<1>4. S = [i \in 1..n |-> [d.sections[i] EXCEPT !.objects = Kept(d.sections[i]),
                             !.group = GroupIndex(d.sections[i].area, @, g, footers)]]
  BY <1>1 DEF Parsed
<1> HIDE DEF S, g, footers
<1>5. \A i \in 1..n : KeptFrom(d.sections[i], S[i])
  BY <1>1, <1>3, <1>4
<1>6. \A i \in 1..n : S[i] \in Section
  BY <1>5 DEF KeptFrom
<1>7. S \in Seq(Section) /\ DOMAIN S = 1..n
  <2>1. DOMAIN S = 1..n /\ S = [i \in 1..n |-> S[i]]
    BY <1>4
  <2> HIDE DEF n
  <2>2. QED BY <1>1, <1>6, <2>1
<1> HIDE DEF n
<1>8. QED BY <1>1, <1>5, <1>7 DEF S

Resolved(d) == IF Stacks(Parsed(d)) THEN Stacked(Parsed(d)) ELSE Parsed(d)
Repaired(d) == [i \in DOMAIN Resolved(d) |-> Fitted(Resolved(d)[i], d.width)]

LEMMA ResolvedParts ==
  ASSUME NEW d \in Dumps
  PROVE  /\ Resolved(d) \in Seq(Section) /\ DOMAIN Resolved(d) = DOMAIN d.sections
         /\ \A i \in DOMAIN d.sections : Moved(Parsed(d)[i], Resolved(d)[i])
<1>1. Parsed(d) \in Seq(Section) /\ DOMAIN Parsed(d) = DOMAIN d.sections
  BY ParsedParts
<1>2. \A i \in DOMAIN d.sections : Parsed(d)[i] \in Section
  BY <1>1
<1>3. \A i \in DOMAIN d.sections : Moved(Parsed(d)[i], Parsed(d)[i])
  BY <1>2 DEF Moved
<1>4. QED BY <1>1, <1>3, StackedMoves DEF Resolved

LEMMA RepairedParts ==
  ASSUME NEW d \in Dumps
  PROVE  Repaired(d) \in Seq(Section) /\ DOMAIN Repaired(d) = DOMAIN d.sections
<1> DEFINE n == Len(Resolved(d))
<1>1. Resolved(d) \in Seq(Section) /\ DOMAIN Resolved(d) = DOMAIN d.sections /\ d.width \in Nat
  BY ResolvedParts, LayoutAssumption
<1>2. n \in Nat /\ DOMAIN Resolved(d) = 1..n /\ \A i \in 1..n : Resolved(d)[i] \in Section
  BY <1>1
<1>3. ASSUME NEW i \in 1..n PROVE Fitted(Resolved(d)[i], d.width) \in Section
  <2> DEFINE s == Resolved(d)[i]
  <2>1. s \in Section
    BY <1>2
  <2> HIDE DEF s
  <2>2. s.suppressed => Fitted(s, d.width) = s
    BY DEF Fitted
  <2>3. ~s.suppressed => Fitted(s, d.width) \in Section
    BY <1>1, <2>1, FittedParts
  <2>4. QED BY <2>1, <2>2, <2>3 DEF s
<1>4. Repaired(d) = [i \in 1..n |-> Fitted(Resolved(d)[i], d.width)]
  BY <1>2 DEF Repaired
<1> HIDE DEF n
<1>5. QED BY <1>1, <1>2, <1>3, <1>4

LayoutInv ==
  /\ dump \in Dumps
  /\ sections \in Seq(Section)
  /\ step \in {"translate", "query", "select", "window", "rank", "stack"} => sections = Parsed(dump)
  /\ step = "fit" => sections = Resolved(dump)
  /\ step = "write" /\ dump.level = "master" => sections = Repaired(dump)
  /\ \/ bundle = {}
     \/ step \in {"triage", "over"} /\ bundle = Painted(sections, Len(dump.query.groups), dump.level)

LEMMA LayoutInvStep == LayoutInv /\ [ReportNext]_reportVars => LayoutInv'
<1> SUFFICES ASSUME LayoutInv, [ReportNext]_reportVars PROVE LayoutInv'
  OBVIOUS
<1>1. CASE Parse
  <2>1. CASE dump.parses
    <3>1. step = "parse" /\ step' = "translate" /\ sections' = Parsed(dump) /\ UNCHANGED <<dump, bundle>>
      BY <1>1, <2>1 DEF Parse
    <3>2. Parsed(dump) \in Seq(Section)
      BY ParsedParts DEF LayoutInv
    <3>3. QED BY <3>1, <3>2 DEF LayoutInv
  <2>2. CASE ~dump.parses
    <3>1. step = "parse" /\ step' = "over" /\ UNCHANGED <<dump, sections, bundle>>
      BY <1>1, <2>2 DEF Parse
    <3>2. QED BY <3>1 DEF LayoutInv
  <2>3. QED BY <2>1, <2>2
<1>2. CASE TranslateAll
  BY <1>2 DEF TranslateAll, Goes, LayoutInv
<1>3. CASE Query
  BY <1>3 DEF Query, Goes, LayoutInv
<1>4. CASE Select
  BY <1>4 DEF Select, Goes, LayoutInv
<1>5. CASE Window
  BY <1>5 DEF Window, Goes, LayoutInv
<1>6. CASE Rank
  BY <1>6 DEF Rank, Goes, LayoutInv
<1>7. CASE Stack
  <2>1. step = "stack" /\ step' = "fit" /\ UNCHANGED <<dump, bundle>> /\ sections' = Resolved(dump)
    BY <1>7 DEF Stack, Goes, LayoutInv, Resolved
  <2>2. Resolved(dump) \in Seq(Section)
    BY ResolvedParts DEF LayoutInv
  <2>3. QED BY <2>1, <2>2 DEF LayoutInv
<1>8. CASE Fit
  <2>1. step = "fit" /\ step' = "write" /\ UNCHANGED <<dump, bundle>> /\ sections = Resolved(dump)
        /\ sections' = IF dump.level = "child" THEN sections ELSE Repaired(dump)
    BY <1>8 DEF Fit, Goes, LayoutInv, Repaired
  <2>2. Repaired(dump) \in Seq(Section)
    BY RepairedParts DEF LayoutInv
  <2>3. QED BY <2>1, <2>2 DEF LayoutInv
<1>9. CASE Write
  <2>1. /\ step = "write" /\ step' = IF dump.level = "child" THEN "over" ELSE "triage"
        /\ bundle' = Painted(sections, Len(dump.query.groups), dump.level)
        /\ UNCHANGED <<dump, sections>>
    BY <1>9 DEF Write, Goes
  <2>2. QED BY <2>1 DEF LayoutInv
<1>10. CASE Triage
  BY <1>10 DEF Triage, Goes, LayoutInv
<1>11. CASE UNCHANGED reportVars
  BY <1>11 DEF reportVars, LayoutInv
<1>12. QED BY <1>1, <1>2, <1>3, <1>4, <1>5, <1>6, <1>7, <1>8, <1>9, <1>10, <1>11 DEF ReportNext

LEMMA LayoutInvSuffices == LayoutInv => LayoutKeepsItsOrder
<1> SUFFICES ASSUME LayoutInv PROVE UnderlayRidesTheSlot /\ BackdropsAreBehind /\ FittedIsClean
  BY DEF LayoutKeepsItsOrder
<1>1. UnderlayRidesTheSlot
  <2> SUFFICES ASSUME NEW p \in bundle, sections[p.from].underlay,
                      NEW j \in DOMAIN sections, p.from < j, p.from < p.into, Slot(p.into, j)
               PROVE  \E q \in bundle : q.from = p.from /\ q.object = p.object /\ q.into = j
    BY DEF UnderlayRidesTheSlot
  <2>1. bundle = Painted(sections, Len(dump.query.groups), dump.level)
    BY DEF LayoutInv
  <2>2. Len(sections) \in Nat /\ DOMAIN sections = 1..Len(sections)
    BY DEF LayoutInv
  <2>3. OneSlot(sections, p.into, j)
    BY DEF Slot, OneSlot
  <2>4. QED BY <2>1, <2>2, <2>3, PaintedThroughout
<1>2. ASSUME step = "write", dump.level = "master", NEW i \in DOMAIN sections
      PROVE  /\ dump.sections[i] \in Section /\ KeptFrom(dump.sections[i], Parsed(dump)[i])
             /\ Moved(Parsed(dump)[i], Resolved(dump)[i]) /\ dump.width \in Nat
             /\ sections[i] = Fitted(Resolved(dump)[i], dump.width)
  <2>1. dump \in Dumps /\ sections = Repaired(dump)
    BY <1>2 DEF LayoutInv
  <2>2. i \in DOMAIN dump.sections /\ i \in DOMAIN Resolved(dump)
    BY <2>1, RepairedParts, ResolvedParts
  <2>3. QED BY <2>1, <2>2, ParsedParts, ResolvedParts, LayoutAssumption DEF Repaired
<1>3. BackdropsAreBehind
  <2> SUFFICES ASSUME step = "write", dump.level = "master", NEW n \in DOMAIN sections,
                      ~sections[n].suppressed, Range(sections[n].objects) = Range(dump.sections[n].objects),
                      NEW i \in DOMAIN sections[n].objects, NEW j \in DOMAIN sections[n].objects,
                      KindOf(sections[n].objects[i]) \in Texts,
                      IsBackdrop(sections[n].objects[j], sections[n].objects[i])
               PROVE  j < i
    BY DEF BackdropsAreBehind
  <2> DEFINE d == dump.sections[n]
             s == Parsed(dump)[n]
             u == Resolved(dump)[n]
  <2>1. d \in Section /\ KeptFrom(d, s) /\ Moved(s, u) /\ dump.width \in Nat /\ sections[n] = Fitted(u, dump.width)
    BY <1>2
  <2>2. Range(sections[n].objects) = Range(d.objects)
    OBVIOUS
  <2> HIDE DEF d, s, u
  <2>3. QED BY <2>1, <2>2, BandKeepsBackdrops
<1>4. FittedIsClean
  <2> SUFFICES ASSUME step = "write", dump.level = "master", NEW i \in DOMAIN sections
               PROVE  LET codes == {f.code : f \in Lint(sections[i], dump.width)}
                      IN  codes \intersect {"page-overflow", "font-clip"} = {}
                            /\ (sections[i].height > dump.sections[i].height => "band-overflow" \notin codes)
    BY DEF FittedIsClean
  <2> DEFINE d == dump.sections[i]
             s == Parsed(dump)[i]
             u == Resolved(dump)[i]
  <2>1. d \in Section /\ KeptFrom(d, s) /\ Moved(s, u) /\ dump.width \in Nat /\ sections[i] = Fitted(u, dump.width)
    BY <1>2
  <2>2. LET codes == {f.code : f \in Lint(Fitted(u, dump.width), dump.width)}
        IN  codes \intersect {"page-overflow", "font-clip"} = {}
              /\ (Fitted(u, dump.width).height > d.height => "band-overflow" \notin codes)
    <3> HIDE DEF d, s, u
    <3>1. QED BY <2>1, BandIsClean
  <2>3. QED BY <2>1, <2>2
<1>5. QED BY <1>1, <1>3, <1>4

(* Of any sections and any width of the page: every alternative of a slot  *)
(* paints what underlays one of them; a band that autofit_layout leaves as *)
(* it was has each backdrop before all of its text; and no band leaves     *)
(* autofit_layout off the page, clipped, or grown without being grown      *)
(* enough.                                                                 *)
THEOREM LayoutTheorem == ReportSpec => []LayoutKeepsItsOrder
<1>1. ReportInit => LayoutInv
  BY DEF ReportInit, LayoutInv
<1>2. QED BY <1>1, LayoutInvStep, LayoutInvSuffices, PTL DEF ReportSpec
=============================================================================
