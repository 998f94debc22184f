--------------------------- MODULE FormulaTranslation ---------------------------
(***************************************************************************)
(* formula_translator: a Crystal formula becomes an OpenFormula text. What *)
(* a text means is kept beside it: the kind of value the engine makes of a *)
(* chain of + - &, and the function from rows to values that nested IFs    *)
(* are. The decisions are taken as the code takes them, from the two ends  *)
(* of the text already emitted.                                            *)
(***************************************************************************)
EXTENDS Integers, FiniteSets, Sequences, SequencesExt

CONSTANTS
  Operands,       (* what a chain is made of                               *)
  Situations,     (* the rows a condition tells apart                      *)
  NoValue         (* what a 2-argument IF yields when its condition fails  *)

(* An operand that begins or ends with a quote is a string, for Crystal    *)
(* multiplies no strings; what begins with DATE( or TODAY( is a date.      *)
ASSUME OperandsAssumption ==
  /\ Operands \subseteq [look : {"dated", "quoted", "field", "other", "unmapped"},
                         kind : {"num", "str", "date"}, typed : BOOLEAN, noted : BOOLEAN]
  /\ \A x \in Operands : /\ x.look = "quoted" => x.kind = "str"
                         /\ x.look = "dated" => x.kind = "date"

Symbols == {"+", "-", "&"}

-----------------------------------------------------------------------------
(* Chains. An emitted text is known by its first and last operand, by      *)
(* whether it is one bare operand, and by what the engine makes of it.     *)
Bare(x) == [first |-> x, last |-> x, bare |-> TRUE, kind |-> x.kind]

IsField(out, kind) == out.bare /\ out.first.look = "field" /\ out.first.typed /\ out.first.kind = kind
IsDatish(out) == out.first.look = "dated" \/ IsField(out, "date")
IsStringish(out) == "quoted" \in {out.first.look, out.last.look} \/ IsField(out, "str")

(* libformula: + and - make numbers, also of dates, and fail on strings.   *)
Engine(a, sym, b) ==
  CASE sym = "&" -> "str"
    [] sym # "&" /\ "str" \notin {a, b} -> "num"
    [] OTHER -> "error"

(* DATE(YEAR(out);MONTH(out);DAY(out) + n).                                *)
Dated == [look |-> "dated", kind |-> "date", typed |-> TRUE, noted |-> FALSE]

(* Mutant of Extend: a date and a number are added as they stand.          *)
ExtendPlainly(out, sym, x) ==
  LET s == IF sym = "+" /\ (IsStringish(out) \/ IsStringish(Bare(x))) THEN "&" ELSE sym
  IN  [first |-> out.first, last |-> x, bare |-> FALSE, kind |-> Engine(out.kind, s, x.kind)]

(* One round of the loop of add_expr.                                      *)
Extend(out, sym, x) ==
  LET strings == sym = "+" /\ (IsStringish(out) \/ IsStringish(Bare(x)))
      s == IF strings THEN "&" ELSE sym
  IN  IF ~strings /\ s # "&" /\ IsDatish(out) /\ ~IsDatish(Bare(x))
      THEN [first |-> Dated, last |-> Dated, bare |-> FALSE, kind |-> "date"]
      ELSE [first |-> out.first, last |-> x, bare |-> FALSE, kind |-> Engine(out.kind, s, x.kind)]

(* A chain is its operands, each with the symbol before it.                *)
Emitted(chain) ==
  LET out[i \in 1..Len(chain)] ==
        IF i = 1 THEN Bare(chain[1].x) ELSE Extend(out[i - 1], chain[i].sym, chain[i].x)
  IN  out[Len(chain)]

(* What Crystal makes of it: a date moved by days stays a date.            *)
Crystal(a, sym, b) ==
  CASE sym = "&" -> "str"
    [] sym = "+" /\ a = "str" /\ b = "str" -> "str"
    [] a = "num" /\ b = "num" /\ sym # "&" -> "num"
    [] a = "date" /\ b = "num" /\ sym # "&" -> "date"
    [] a = "date" /\ b = "date" /\ sym = "-" -> "num"
    [] OTHER -> "illtyped"
CrystalKind(chain, n) ==
  LET kind[i \in 1..Len(chain)] == IF i = 1 THEN chain[1].x.kind ELSE Crystal(kind[i - 1], chain[i].sym, chain[i].x.kind)
  IN  kind[n]

Parses(chain) == \A i \in DOMAIN chain : chain[i].x.look # "unmapped"
Noted(chain) == \E i \in DOMAIN chain : chain[i].x.noted

(* The text itself says what each of its operands is.                      *)
Knowable(chain) ==
  \A i \in DOMAIN chain : LET x == chain[i].x IN
    \/ x.look = "field" /\ x.typed
    \/ x.look \in {"quoted", "dated"}
    \/ x.kind = "num"

-----------------------------------------------------------------------------
(* Ladders: a text that is a function of the row. A rung is a condition,   *)
(* the rows it holds of, and a result.                                     *)
If(when, then, else) == [r \in Situations |-> IF r \in when THEN then[r] ELSE else[r]]
Always(v) == [r \in Situations |-> v]

(* Mutant of Nested: the IFs are wrapped in reading order.                 *)
NestedForward(rungs, default) ==
  LET out[i \in 0..Len(rungs)] ==
        IF i = 0 THEN Always(default) ELSE If(rungs[i].when, Always(rungs[i].result), out[i - 1])
  IN  out[Len(rungs)]

(* translate_select_case and _switch: from the last branch to the first;   *)
(* NA() where Crystal has Null.                                            *)
Nested(rungs, default) ==
  LET out[i \in 1..(Len(rungs) + 1)] ==
        IF i > Len(rungs) THEN Always(default)
        ELSE If(rungs[i].when, Always(rungs[i].result), out[i + 1])
  IN  out[1]

(* if_expr in a style condition. "keep" is crNoColor, "absent" a missing   *)
(* Else: the branch is left out, its condition negated when it is the      *)
(* first of the two. A sentinel left in the text refuses the formula.      *)
AsItWas == [ok |-> TRUE, keeps |-> TRUE, text |-> Always(NoValue)]
Worded(text, ok) == [ok |-> ok, keeps |-> FALSE, text |-> text]
Branch(v) == IF v = "keep" THEN AsItWas ELSE Worded(Always(v), TRUE)

WithoutElse(rung) ==
  Worded(If(rung.when, Branch(rung.result).text, Always(NoValue)), ~Branch(rung.result).keeps)
WithElse(rung, else) ==
  LET then == Branch(rung.result)
  IN  IF then.keeps THEN Worded(If(Situations \ rung.when, else.text, Always(NoValue)), else.ok)
      ELSE Worded(If(rung.when, then.text, else.text), then.ok /\ else.ok)

Style(rungs, last) ==
  LET out[i \in 1..Len(rungs)] ==
        IF i < Len(rungs) THEN WithElse(rungs[i], out[i + 1])
        ELSE IF last \in {"absent", "keep"} THEN WithoutElse(rungs[i]) ELSE WithElse(rungs[i], Branch(last))
  IN  out[1]

(* Formulas and styles as the parser hands them on. "absent" is only said  *)
(* of the Else.                                                            *)
IsChain(chain) == chain # <<>> /\ chain \in Seq([sym : Symbols, x : Operands])
IsLadder(rungs) ==
  rungs \in Seq(Range(rungs)) /\ \A rung \in Range(rungs) : rung.when \subseteq Situations /\ rung.result # "absent"
IsFormula(f) == (f.shape = "plain" => IsChain(f.chain)) /\ IsLadder(f.rungs)
IsStyle(f) == f.rungs # <<>> /\ IsLadder(f.rungs)

(* What Crystal evaluates a ladder to: the first rung that holds.          *)
Chosen(rungs, default, r) ==
  LET holds == {i \in DOMAIN rungs : r \in rungs[i].when}
  IN  IF holds = {} THEN default ELSE rungs[CHOOSE i \in holds : \A j \in holds : i <= j].result

-----------------------------------------------------------------------------
(* translate_formula: which of the paths a formula takes, by its shape.    *)
Untranslated == [status |-> "manual", by |-> "none"]

Translation(f) ==
  CASE f.shape \in {"running total", "whole aggregate"} -> [status |-> "review", by |-> "function"]
    [] f.shape = "alias" ->
         IF f.refersToItself \/ ~Parses(f.chain) THEN Untranslated ELSE [status |-> "review", by |-> "chain"]
    [] f.shape = "select" -> IF f.mapped THEN [status |-> "review", by |-> "ladder"] ELSE Untranslated
    [] f.shape = "blocked" -> Untranslated
    [] f.shape = "plain" ->
         IF ~Parses(f.chain) THEN Untranslated
         ELSE [status |-> IF Noted(f.chain) THEN "review" ELSE "auto", by |-> "chain"]
=============================================================================
