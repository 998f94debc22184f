------------------------------ MODULE ScriptValues ------------------------------
(***************************************************************************)
(* The interpreter of the scripts of an action sequence (js_eval.py): a    *)
(* recursive descent over the tokens of a script, which runs statements in *)
(* order and stops at the first one outside its subset of JavaScript.      *)
(* A token is a record [kind, val], of the kind "none" where the text is no*)
(* token; a value is a record [t, n, s] with its type, its number and its  *)
(* characters. Numbers are integers: a quotient that is not one is outside *)
(* the model.                                                              *)
(* Every reader takes a position i and a scope and answers                 *)
(* [i, v, scope, stop]: a stop is _Stop, and everything after it keeps it. *)
(***************************************************************************)
EXTENDS Integers, Sequences, FiniteSets, SequencesExt

Digits == <<"0", "1", "2", "3", "4", "5", "6", "7", "8", "9">>

Null == [t |-> "null", n |-> 0, s |-> <<>>]
Bool(b) == [t |-> "bool", n |-> IF b THEN 1 ELSE 0, s |-> <<>>]
Number(n) == [t |-> "number", n |-> n, s |-> <<>>]
Text(s) == [t |-> "text", n |-> 0, s |-> s]

Numeral[n \in Int] ==
  IF n < 0 THEN <<"-">> \o Numeral[-n]
  ELSE (IF n < 10 THEN <<>> ELSE Numeral[n \div 10]) \o <<Digits[(n % 10) + 1]>>

JsStr(v) ==
  CASE v.t = "null" -> <<"n", "u", "l", "l">>
    [] v.t = "bool" -> IF v.n = 1 THEN <<"t", "r", "u", "e">> ELSE <<"f", "a", "l", "s", "e">>
    [] v.t = "number" -> Numeral[v.n]
    [] OTHER -> v.s

(* int() of a text, or 0 when it is not the text of a number.              *)
Parsed(s) ==
  LET unsigned == IF s # <<>> /\ s[1] = "-" THEN Tail(s) ELSE s
      value == FoldLeft(LAMBDA sum, c : 10 * sum + (CHOOSE d \in 0..9 : Digits[d + 1] = c), 0, unsigned)
  IN  IF unsigned = <<>> \/ \E k \in 1..Len(unsigned) : unsigned[k] \notin ToSet(Digits) THEN 0
      ELSE IF unsigned = s THEN value ELSE -value

Num(v) == IF v.t = "text" THEN Parsed(v.s) ELSE v.n

JsAdd(l, r) ==
  IF "text" \in {l.t, r.t} THEN Text(JsStr(l) \o JsStr(r)) ELSE Number(Num(l) + Num(r))

JsEq(l, r) ==
  IF "null" \in {l.t, r.t} THEN l.t = r.t
  ELSE IF l.t = "text" \/ r.t = "text" THEN JsStr(l) = JsStr(r)
  ELSE l.n = r.n

Truthy(v) == v.n # 0 \/ v.s # <<>>

Quotient(n, m) ==
  LET size == IF n < 0 THEN -n ELSE n IN CHOOSE q \in -size..size : q * m = n

(* What an operator of two values gives; += and -= are + and -.            *)
Applied(op, l, r) ==
  CASE op = "+" -> JsAdd(l, r)
    [] op = "-" -> Number(Num(l) - Num(r))
    [] op = "*" -> Number(Num(l) * Num(r))
    [] op = "/" -> Number(Quotient(Num(l), Num(r)))
    [] op = "%" -> Number(Num(l) % Num(r))
    [] op = "==" -> Bool(JsEq(l, r))
    [] op = "!=" -> Bool(~JsEq(l, r))
    [] op = "<" -> Bool(Num(l) < Num(r))
    [] op = ">" -> Bool(Num(l) > Num(r))
    [] op = "<=" -> Bool(Num(l) <= Num(r))
    [] op = ">=" -> Bool(Num(l) >= Num(r))
    [] op = "||" -> Bool(Truthy(l) \/ Truthy(r))
    [] op = "&&" -> Bool(Truthy(l) /\ Truthy(r))

-----------------------------------------------------------------------------
(* Tokens.                                                                 *)

End == [kind |-> "end", val |-> "end"]
Peek(toks, i) == IF i \in 1..Len(toks) THEN toks[i] ELSE End
Is(toks, i, val) == Peek(toks, i).kind \in {"op", "name"} /\ Peek(toks, i).val = val

KeywordStops == {"for", "while", "do", "function", "new", "return", "switch", "try", "throw", "typeof", "delete"}
Assigns == {"=", "+=", "-="}

(* The operators of each level of precedence, the loosest first.           *)
Levels == <<{"||"}, {"&&"}, {"==", "!=", "<", ">", "<=", ">="}, {"+", "-"}, {"*", "/", "%"}>>

Valued(r, v) == [r EXCEPT !.v = v]
Stopped(r) == [r EXCEPT !.stop = TRUE]
Expect(toks, r, val) ==
  IF r.stop THEN r ELSE [r EXCEPT !.i = @ + 1, !.stop = ~Is(toks, r.i, val)]
Skipping(toks, r, val) == IF Is(toks, r.i, val) THEN [r EXCEPT !.i = @ + 1] ELSE r

RECURSIVE Expression(_, _, _), Chain(_, _, _), Unary(_, _), Primary(_, _), Postfix(_, _)

(* or_expr .. term: a level reads the tighter one and folds it to the left.*)
Expression(toks, level, r) ==
  IF r.stop THEN r
  ELSE IF level > Len(Levels) THEN Unary(toks, r)
  ELSE Chain(toks, level, Expression(toks, level + 1, r))

Chain(toks, level, left) ==
  IF left.stop \/ Peek(toks, left.i).kind # "op" \/ Peek(toks, left.i).val \notin Levels[level] THEN left
  ELSE LET op == Peek(toks, left.i).val
           right == Expression(toks, level + 1, [left EXCEPT !.i = @ + 1])
       IN  IF right.stop THEN right
           ELSE IF op \in {"/", "%"} /\ Num(right.v) = 0 THEN Stopped(right)
           ELSE Chain(toks, level, Valued(right, Applied(op, left.v, right.v)))

Unary(toks, r) ==
  LET operand == Unary(toks, [r EXCEPT !.i = @ + 1])
  IN  CASE Is(toks, r.i, "!") -> Valued(operand, Bool(~Truthy(operand.v)))
        [] Is(toks, r.i, "-") -> Valued(operand, Number(-Num(operand.v)))
        [] Is(toks, r.i, "+") -> Valued(operand, Number(Num(operand.v)))
        [] OTHER -> Primary(toks, r)

Primary(toks, r) ==
  LET tok == Peek(toks, r.i)
      on == [r EXCEPT !.i = @ + 1]
  IN  CASE Is(toks, r.i, "(") -> Postfix(toks, Expect(toks, Expression(toks, 1, on), ")"))
        [] tok.kind = "string" -> Postfix(toks, Valued(on, Text(tok.val)))
        [] tok.kind = "number" -> Postfix(toks, Valued(on, Number(tok.val)))
        [] tok.kind = "name" ->
             CASE tok.val = "null" -> Valued(on, Null)
               [] tok.val \in {"true", "false"} -> Valued(on, Bool(tok.val = "true"))
               [] tok.val \in KeywordStops -> Stopped(on)
               [] OTHER -> Postfix(toks, Valued(on, IF tok.val \in DOMAIN r.scope THEN r.scope[tok.val] ELSE Null))
        [] OTHER -> Stopped(on)

Postfix(toks, r) ==
  IF r.stop \/ ~Is(toks, r.i, ".") THEN r
  ELSE IF Is(toks, r.i + 1, "toString") /\ Is(toks, r.i + 2, "(") /\ Is(toks, r.i + 3, ")")
       THEN Postfix(toks, [r EXCEPT !.i = @ + 4, !.v = Text(JsStr(@))])
       ELSE Stopped(r)

-----------------------------------------------------------------------------
(* Statements.                                                             *)

(* The first position from i on, and past it, at which the brackets opened *)
(* since i are closed; past the end when they never are.                   *)
Closed(toks, i, open, close, depth) ==
  LET Depth(j) == depth + Cardinality({k \in i..j : Is(toks, k, open)})
                        - Cardinality({k \in i..j : Is(toks, k, close)})
      ends == {j \in i..Len(toks) : Is(toks, j, close) /\ Depth(j) = 0}
  IN  IF ends = {} THEN Len(toks) + 2 ELSE 1 + (CHOOSE j \in ends : \A k \in ends : j <= k)

(* skip_statement: the branch not taken is passed by, and a simple         *)
(* statement ends at its semicolon, wherever that is.                      *)
RECURSIVE SkipStatement(_, _)
SkipStatement(toks, r) ==
  LET To(j) == IF j > Len(toks) + 1 THEN Stopped(r) ELSE [r EXCEPT !.i = j]
      semicolons == {j \in r.i..Len(toks) : Is(toks, j, ";")}
  IN  IF r.stop THEN r
      ELSE IF Is(toks, r.i, "{") THEN To(Closed(toks, r.i, "{", "}", 0))
      ELSE IF Is(toks, r.i, "if")
      THEN LET opened == Expect(toks, [r EXCEPT !.i = @ + 1], "(")
               past == IF opened.stop THEN opened ELSE To(Closed(toks, opened.i, "(", ")", 1))
               then == SkipStatement(toks, past)
           IN  IF ~then.stop /\ Is(toks, then.i, "else")
               THEN SkipStatement(toks, [then EXCEPT !.i = @ + 1]) ELSE then
      ELSE IF semicolons = {} THEN [r EXCEPT !.i = Len(toks) + 1]
      ELSE [r EXCEPT !.i = 1 + (CHOOSE j \in semicolons : \A k \in semicolons : j <= k)]

(* Mutant of Assigned: += writes the new piece in front of the old text.   *)
AssignedInFront(toks, right, name, op) ==
  LET old == IF name \in DOMAIN right.scope THEN right.scope[name] ELSE Null
      value == CASE op = "=" -> right.v [] op = "+=" -> JsAdd(right.v, old) [] op = "-=" -> Applied("-", old, right.v)
  IN  IF right.stop THEN right
      ELSE Skipping(toks, [right EXCEPT !.scope = [x \in DOMAIN @ \cup {name} |-> IF x = name THEN value ELSE @[x]]], ";")

(* What is read on the right goes to the name, as op says.                 *)
Assigned(toks, right, name, op) ==
  LET old == IF name \in DOMAIN right.scope THEN right.scope[name] ELSE Null
      value == CASE op = "=" -> right.v [] op = "+=" -> JsAdd(old, right.v) [] op = "-=" -> Applied("-", old, right.v)
  IN  IF right.stop THEN right
      ELSE Skipping(toks, [right EXCEPT !.scope = [x \in DOMAIN @ \cup {name} |-> IF x = name THEN value ELSE @[x]]], ";")

RECURSIVE Statement(_, _), Block(_, _)

(* An if: one of its branches is run, the other is skipped.                *)
Branch(toks, run, r) == IF run THEN Statement(toks, r) ELSE SkipStatement(toks, r)
Otherwise(toks, taken, then) ==
  IF then.stop \/ ~Is(toks, then.i, "else") THEN then ELSE Branch(toks, ~taken, [then EXCEPT !.i = @ + 1])
Conditional(toks, cond) == Otherwise(toks, Truthy(cond.v), Branch(toks, Truthy(cond.v), Expect(toks, cond, ")")))

Statement(toks, r) ==
  LET at == Skipping(toks, r, "var")
      tok == Peek(toks, at.i)
  IN  IF r.stop THEN r
      ELSE IF Is(toks, r.i, ";") THEN [r EXCEPT !.i = @ + 1]
      ELSE IF Is(toks, r.i, "{") THEN Block(toks, [r EXCEPT !.i = @ + 1])
      ELSE IF Is(toks, r.i, "if")
      THEN Conditional(toks, Expression(toks, 1, Expect(toks, [r EXCEPT !.i = @ + 1], "(")))
      ELSE IF tok.kind = "name" /\ tok.val \notin KeywordStops /\ \E op \in Assigns : Is(toks, at.i + 1, op)
      THEN Assigned(toks, Expression(toks, 1, [at EXCEPT !.i = @ + 2]), tok.val, Peek(toks, at.i + 1).val)
      ELSE Stopped(at)

Block(toks, r) ==
  IF r.stop THEN r
  ELSE IF Is(toks, r.i, "}") THEN [r EXCEPT !.i = @ + 1]
  ELSE IF r.i > Len(toks) THEN Stopped(r)
  ELSE Block(toks, Statement(toks, r))

RECURSIVE Run(_, _)
Run(toks, r) == IF r.stop \/ r.i > Len(toks) THEN r ELSE Run(toks, Statement(toks, r))

(* evaluate_script: the outputs that are in scope where the run ended, as  *)
(* text, and whether it ended early. No statement is run of a text that    *)
(* _tokenize stops at; one above max_len characters is as good as empty.   *)
Ended(r, outputs) ==
  [values |-> [x \in outputs \cap DOMAIN r.scope |-> JsStr(r.scope[x])], stopped |-> r.stop]
EvaluateScript(toks, inputs, outputs) ==
  IF toks = <<>> THEN [values |-> <<>>, stopped |-> TRUE]
  ELSE LET start == [i |-> 1, v |-> Null, scope |-> inputs, stop |-> \E k \in 1..Len(toks) : toks[k].kind = "none"]
       IN  Ended(Run(toks, start), outputs)

=============================================================================
