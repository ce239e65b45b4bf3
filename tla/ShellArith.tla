----------------------------- MODULE ShellArith -----------------------------
(***************************************************************************)
(* Arithmetic expansion (breezybox/shell/sh_arith.c): recursive descent    *)
(* over the text, evaluating as it goes and assigning to shell variables.  *)
(*                                                                         *)
(* A text is a sequence of characters, but a name or a number is one       *)
(* element.  A variable's value is such a text.  The second half says what *)
(* an expression means from its tree.                                      *)
(***************************************************************************)
EXTENDS Integers, Sequences

CONSTANTS
  Vars,             \* the names
  Numerals,         \* numeral |-> the number it denotes
  ARITH_MAX_DEPTH

End == "end"
Blank == " "

\* C's division truncates towards zero.
Quotient(a, b) == LET abs(n) == IF n < 0 THEN -n ELSE n
                      q == abs(a) \div abs(b)
                  IN IF (a < 0) = (b < 0) THEN q ELSE -q
Bool(b) == IF b THEN 1 ELSE 0
Numeral(n) == CHOOSE s \in DOMAIN Numerals : Numerals[s] = n
Decimal(n) == IF n < 0 THEN <<"-", Numeral(-n)>> ELSE <<Numeral(n)>>

\* The value of a binary operator; its divisor is not 0.
Apply(op, l, r) ==
  CASE op = <<"*">> -> l * r
    [] op = <<"/">> -> Quotient(l, r)
    [] op = <<"%">> -> l - r * Quotient(l, r)
    [] op = <<"+">> -> l + r
    [] op = <<"-">> -> l - r
    [] op = <<"<", "=">> -> Bool(l <= r)
    [] op = <<">", "=">> -> Bool(l >= r)
    [] op = <<"<">> -> Bool(l < r)
    [] op = <<">">> -> Bool(l > r)
    [] op = <<"=", "=">> -> Bool(l = r)
    [] op = <<"!", "=">> -> Bool(l # r)
    [] op = <<"&", "&">> -> Bool(l # 0 /\ r # 0)
    [] op = <<"|", "|">> -> Bool(l # 0 \/ r # 0)
ByZero(op, r) == op \in {<<"/">>, <<"%">>} /\ r = 0

\* The operators of each level, loosest first, in the order they are tried.
Levels == << << <<"|", "|">> >>, << <<"&", "&">> >>,
             << <<"=", "=">>, <<"!", "=">> >>,
             << <<"<", "=">>, <<">", "=">>, <<"<">>, <<">">> >>,
             << <<"+">>, <<"-">> >>, << <<"*">>, <<"/">>, <<"%">> >> >>
Refused == [k \in 1..6 |-> CASE k = 5 -> {<<"+", "+">>, <<"-", "-">>}
                             [] k = 6 -> {<<"*", "*">>}
                             [] OTHER -> {}]

\* actx: the text, the position, whether an error occurred, the depth of
\* variables being evaluated, the variables, and the value last returned.
Cur(c) == IF c.at <= Len(c.text) THEN c.text[c.at] ELSE End
RECURSIVE Skip(_)
Skip(c) == IF Cur(c) = Blank THEN Skip([c EXCEPT !.at = @ + 1]) ELSE c
Peek(c, op) == c.at + Len(op) <= Len(c.text) + 1 /\ SubSeq(c.text, c.at, c.at + Len(op) - 1) = op
Eat(c, op) == [c EXCEPT !.at = @ + Len(op)]
Fail(c) == [c EXCEPT !.err = TRUE, !.val = 0]
Compound == {<<op, "=">> : op \in {"+", "-", "*", "/", "%"}}

RECURSIVE Comma(_), Assign(_), Binary(_, _), Operators(_, _), Unary(_), Deref(_, _)

Deref(c0, name) ==
  LET value == Skip([c0 EXCEPT !.text = c0.vars[name], !.at = 1, !.depth = @ + 1])
      r == Skip(Comma(value))
      back == [c0 EXCEPT !.vars = r.vars, !.val = r.val]
  IN IF Cur(value) = End THEN [c0 EXCEPT !.val = 0]
     ELSE IF c0.depth >= ARITH_MAX_DEPTH THEN Fail(c0)
     ELSE IF r.err \/ Cur(r) # End THEN Fail(back)
     ELSE back

Primary(c0) ==
  LET c == Skip(c0)
      inner == Skip(Comma(Eat(c, <<"(">>)))
      d == IF Cur(c) = "$" THEN Eat(c, <<"$">>) ELSE c
  IN IF Cur(c) = "(" THEN IF Cur(inner) = ")" THEN Eat(inner, <<")">>) ELSE [inner EXCEPT !.err = TRUE]
     ELSE IF Cur(d) \in DOMAIN Numerals THEN [Eat(d, <<Cur(d)>>) EXCEPT !.val = Numerals[Cur(d)]]
     ELSE IF Cur(d) \in Vars THEN Deref(Eat(d, <<Cur(d)>>), Cur(d))
     ELSE Fail(d)

Unary(c0) ==
  LET c == Skip(c0)
      r == Unary(Eat(c, <<Cur(c)>>))
  IN CASE Cur(c) = "+" -> r
       [] Cur(c) = "-" -> [r EXCEPT !.val = -@]
       [] Cur(c) = "!" -> [r EXCEPT !.val = Bool(@ = 0)]
       [] OTHER -> Primary(c)

\* What follows a left operand at level k.
Operators(c0, k) ==
  LET c == Skip(c0)
      here == SelectSeq(Levels[k], LAMBDA op : Peek(c, op))
      op == Head(here)
      r == Binary(Eat(c, op), k + 1)
  IN IF \E x \in Refused[k] : Peek(c, x) THEN Fail(c)
     ELSE IF here = <<>> THEN c
     ELSE IF ByZero(op, r.val) THEN Fail(r)
     ELSE Operators([r EXCEPT !.val = Apply(op, c.val, @)], k)

Binary(c, k) == IF k > Len(Levels) THEN Unary(c) ELSE Operators(Binary(c, k + 1), k)

Stored(c, name, v) == [c EXCEPT !.vars[name] = Decimal(v), !.val = v]

\* As Assign, but an assignment after an error is made.
MutantAssign(c0) ==
  LET s == Skip(c0)
      n == IF Cur(s) = "$" THEN Eat(s, <<"$">>) ELSE s
      c == Skip(Eat(n, <<Cur(n)>>))
      assigns == Cur(n) \in Vars /\ (Peek(c, <<"=">>) /\ ~Peek(c, <<"=", "=">>))
      r == Assign(Eat(c, <<"=">>))
  IN IF assigns THEN Stored(r, Cur(n), r.val) ELSE Binary(c0, 1)

Assign(c0) ==
  LET s == Skip(c0)
      n == IF Cur(s) = "$" THEN Eat(s, <<"$">>) ELSE s
      c == Skip(Eat(n, <<Cur(n)>>))
      ops == {op \in Compound : Peek(c, op)} \cup IF Peek(c, <<"=">>) /\ ~Peek(c, <<"=", "=">>) THEN {<<"=">>} ELSE {}
      op == CHOOSE o \in ops : TRUE
      r == Assign(Eat(c, op))
      d == Deref(r, Cur(n))
  IN IF Cur(n) \notin Vars \/ ops = {} THEN Binary(c0, 1)
     ELSE IF r.err THEN [r EXCEPT !.val = 0]
     ELSE IF op = <<"=">> THEN Stored(r, Cur(n), r.val)
     ELSE IF d.err \/ ByZero(<<op[1]>>, r.val) THEN Fail(d)
     ELSE Stored(d, Cur(n), Apply(<<op[1]>>, d.val, r.val))

RECURSIVE CommaRest(_)
CommaRest(c0) == LET c == Skip(c0) IN IF Cur(c) = "," THEN CommaRest(Assign(Eat(c, <<",">>))) ELSE c
Comma(c) == CommaRest(Assign(c))

\* sh_arith_eval: the value or an error, and the variables afterwards.
Eval(text, vars) ==
  LET c == Skip([text |-> text, at |-> 1, err |-> FALSE, depth |-> 0, vars |-> vars, val |-> 0])
      r == Skip(Comma(c))
  IN IF Cur(c) = End THEN [ok |-> TRUE, val |-> 0, vars |-> vars]
     ELSE IF r.err \/ Cur(r) # End THEN [ok |-> FALSE, val |-> 0, vars |-> r.vars]
     ELSE [ok |-> TRUE, val |-> r.val, vars |-> r.vars]

-----------------------------------------------------------------------------
(* The meaning of an expression, from its tree.                            *)

Num(n) == [kind |-> "num", n |-> n]
Var(x) == [kind |-> "var", x |-> x]
Un(op, a) == [kind |-> "un", op |-> op, a |-> a]
Bin(op, l, r) == [kind |-> "bin", op |-> op, l |-> l, r |-> r]
Asg(x, op, a) == [kind |-> "asg", x |-> x, op |-> op, a |-> a]
Seq2(l, r) == [kind |-> "seq", l |-> l, r |-> r]

\* Values are of the form [ok, val, env]; a variable's value is a tree.
RECURSIVE Meaning(_, _, _)
Meaning(t, env, fuel) ==
  LET then(m, F(_)) == IF m.ok THEN F(m) ELSE m
      result(m, v) == [m EXCEPT !.val = v]
      error(m) == [m EXCEPT !.ok = FALSE]
      apply(op, l, r) == IF ByZero(op, r.val) THEN error(r) ELSE result(r, Apply(op, l, r.val))
      store(m, v) == [result(m, v) EXCEPT !.env[t.x] = IF v < 0 THEN Un("-", Num(-v)) ELSE Num(v)]
      deref(x, e) == IF fuel = 0 THEN [ok |-> FALSE, val |-> 0, env |-> e]
                     ELSE Meaning(e[x], e, fuel - 1)
      two(l, r, F(_, _)) ==
        then(Meaning(l, env, fuel),
             LAMBDA a : then(Meaning(r, a.env, fuel), LAMBDA b : F(a, b)))
  IN CASE t.kind = "num" -> [ok |-> TRUE, val |-> t.n, env |-> env]
       [] t.kind = "var" -> deref(t.x, env)
       [] t.kind = "un" -> then(Meaning(t.a, env, fuel), LAMBDA m :
            result(m, IF t.op = "-" THEN -m.val ELSE Bool(m.val = 0)))
       [] t.kind = "bin" -> two(t.l, t.r, LAMBDA a, b : apply(t.op, a.val, b))
       [] t.kind = "seq" -> two(t.l, t.r, LAMBDA a, b : b)
       [] t.kind = "asg" /\ t.op = "" ->
            then(Meaning(t.a, env, fuel), LAMBDA m : store(m, m.val))
       [] OTHER ->
            then(Meaning(t.a, env, fuel), LAMBDA m :
              then(deref(t.x, m.env), LAMBDA d :
                IF ByZero(<<t.op>>, m.val) THEN error(d)
                ELSE store(d, Apply(<<t.op>>, d.val, m.val))))

\* How tight an expression binds: a comma, an assignment, the levels of
\* binary operators, a unary operator, a primary.
Tightness(t) ==
  CASE t.kind = "seq" -> -1
    [] t.kind = "asg" -> 0
    [] t.kind = "bin" -> CHOOSE k \in 1..6 : \E i \in DOMAIN Levels[k] : Levels[k][i] = t.op
    [] t.kind = "un" -> 7
    [] OTHER -> 8

\* Its text, with the parentheses it needs and no others.
RECURSIVE Text(_)
Text(t) ==
  LET arg(a, k) == IF Tightness(a) < k THEN <<"(">> \o Text(a) \o <<")">> ELSE Text(a)
  IN CASE t.kind = "num" -> <<Numeral(t.n)>>
       [] t.kind = "var" -> <<t.x>>
       [] t.kind = "un" -> <<t.op>> \o arg(t.a, 7)
       [] t.kind = "bin" -> arg(t.l, Tightness(t)) \o t.op \o <<Blank>> \o arg(t.r, Tightness(t) + 1)
       [] t.kind = "asg" -> <<t.x>> \o (IF t.op = "" THEN <<"=">> ELSE <<t.op, "=">>) \o arg(t.a, 0)
       [] t.kind = "seq" -> arg(t.l, -1) \o <<",">> \o arg(t.r, 0)

\* The evaluator gives every expression the value its tree has, precedence,
\* associativity and variables that hold expressions included; an error stops
\* the assignments to come and undoes none (sh_arith_eval).
EvaluatesTree(t, env) ==
  LET e == Eval(Text(t), [x \in Vars |-> Text(env[x])])
      m == Meaning(t, env, ARITH_MAX_DEPTH)
  IN /\ e.ok = m.ok
     /\ e.ok => e.val = m.val
     /\ e.vars = [x \in Vars |-> Text(m.env[x])]
=============================================================================
