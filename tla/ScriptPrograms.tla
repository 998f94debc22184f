----------------------------- MODULE ScriptPrograms -----------------------------
(***************************************************************************)
(* What the platform makes of the scripts of a sequence: programs of       *)
(* JavaScript as trees, how each is written down, and what it assigns.     *)
(* An expression is [is, value, name, args]; a statement is [is, name,     *)
(* args, branches]: an assignment "=" or "+=", an "if" with one branch or  *)
(* two, a "block" of statements, a call of something "else", or what is "no*)
(* token" of the subset. Only numbers are divided or compared in size.     *)
(***************************************************************************)
EXTENDS ScriptValues

Op(val) == [kind |-> "op", val |-> val]
Word(val) == [kind |-> "name", val |-> val]

Literal(text) == [is |-> "text", value |-> Text(text), name |-> "", args |-> <<>>]
Integer(n) == [is |-> "number", value |-> Number(n), name |-> "", args |-> <<>>]
Variable(x) == [is |-> "variable", value |-> Null, name |-> x, args |-> <<>>]
Operation(op, l, r) == [is |-> "operation", value |-> Null, name |-> op, args |-> <<l, r>>]

Sets(x, op, e) == [is |-> op, name |-> x, args |-> <<e>>, branches |-> <<>>]
If(e, branches) == [is |-> "if", name |-> "", args |-> <<e>>, branches |-> branches]
Of(statements) == [is |-> "block", name |-> "", args |-> <<>>, branches |-> statements]
Calls(f) == [is |-> "else", name |-> f, args |-> <<>>, branches |-> <<>>]
Strange == [is |-> "no token", name |-> "", args |-> <<>>, branches |-> <<>>]

(* The tokens of a tree. A simple statement ends with the tokens "ends":   *)
(* a semicolon or, at the end of a line, nothing.                          *)
RECURSIVE ExpressionText(_)
ExpressionText(e) ==
  CASE e.is = "text" -> <<[kind |-> "string", val |-> e.value.s]>>
    [] e.is = "number" -> <<[kind |-> "number", val |-> e.value.n]>>
    [] e.is = "variable" -> <<Word(e.name)>>
    [] e.is = "operation" -> <<Op("(")>> \o ExpressionText(e.args[1]) \o <<Op(e.name)>> \o ExpressionText(e.args[2]) \o <<Op(")")>>

RECURSIVE StatementText(_, _)
StatementText(s, ends) ==
  CASE s.is \in {"=", "+="} -> <<Word(s.name), Op(s.is)>> \o ExpressionText(s.args[1]) \o ends
    [] s.is = "else" -> <<Word(s.name), Op("("), Op(")")>> \o ends
    [] s.is = "no token" -> <<[kind |-> "none", val |-> ""]>> \o ends
    [] s.is = "block" ->
         <<Op("{")>> \o FlattenSeq([i \in DOMAIN s.branches |-> StatementText(s.branches[i], ends)]) \o <<Op("}")>>
    [] s.is = "if" ->
         <<Word("if"), Op("(")>> \o ExpressionText(s.args[1]) \o <<Op(")")>> \o StatementText(s.branches[1], ends)
           \o (IF Len(s.branches) = 1 THEN <<>> ELSE <<Word("else")>> \o StatementText(s.branches[2], ends))

ProgramText(program, ends) == FlattenSeq([i \in DOMAIN program |-> StatementText(program[i], ends)])

(* A text equals the number it is the numeral of.                          *)
Alike(text, number) == text.t = "text" /\ number.t = "number" /\ text.s = Numeral[number.n]

(* What a tree means. "||" and "&&" give one of their operands.            *)
RECURSIVE Meaning(_, _)
Meaning(e, env) ==
  LET l == Meaning(e.args[1], env)
      r == Meaning(e.args[2], env)
  IN  CASE e.is \in {"text", "number"} -> e.value
        [] e.is = "variable" -> IF e.name \in DOMAIN env THEN env[e.name] ELSE Null
        [] e.name = "||" -> IF Truthy(l) THEN l ELSE r
        [] e.name = "&&" -> IF Truthy(l) THEN r ELSE l
        [] e.name = "/" -> Number(Quotient(l.n, r.n))
        [] e.name = "<=" -> Bool(l.n <= r.n)
        [] e.name = "+" -> IF l.t = "text" \/ r.t = "text" THEN Text(JsStr(l) \o JsStr(r)) ELSE Number(l.n + r.n)
        [] e.name = "==" -> Bool(l = r \/ Alike(l, r) \/ Alike(r, l))

RECURSIVE After(_, _)
After(s, env) ==
  LET value == Meaning(s.args[1], env)
      old == IF s.name \in DOMAIN env THEN env[s.name] ELSE Null
  IN  CASE s.is = "=" -> [env EXCEPT ![s.name] = value]
        [] s.is = "+=" -> [env EXCEPT ![s.name] = IF "text" \in {old.t, value.t} THEN Text(JsStr(old) \o JsStr(value)) ELSE Number(old.n + value.n)]
        [] s.is = "if" -> IF Truthy(value) THEN After(s.branches[1], env)
                          ELSE IF Len(s.branches) = 2 THEN After(s.branches[2], env) ELSE env
        [] s.is = "block" -> FoldLeft(LAMBDA e, t : After(t, e), env, s.branches)
        [] s.is \in {"else", "no token"} -> env

RECURSIVE Assigns_(_)
Assigns_(s) == IF s.is \in {"=", "+="} THEN {s.name} ELSE UNION {Assigns_(t) : t \in ToSet(s.branches)}

AfterProgram(program, env) ==
  LET names == DOMAIN env \cup UNION {Assigns_(s) : s \in ToSet(program)}
  IN  FoldLeft(LAMBDA e, s : After(s, e), [x \in names |-> IF x \in DOMAIN env THEN env[x] ELSE Null], program)

=============================================================================
