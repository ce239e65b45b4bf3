------------------------------ MODULE ShellTest ------------------------------
(***************************************************************************)
(* test and [ (breezybox/shell/sh_builtins.c): the expression parser over  *)
(* the arguments, which evaluates as it goes.  Arguments are model values  *)
(* and the operators; what -e and the numeric operators see of an argument *)
(* is given.  The second half evaluates the tree of an expression.         *)
(***************************************************************************)
EXTENDS Integers, Sequences

CONSTANTS
  Blank,    \* the empty argument
  Existing, \* the arguments that name files
  Number    \* argument |-> its value, for those that are integers

UnOps == {"-z", "-n", "-e"}
BinOps == {"=", "!=", "-eq", "-lt"}

Unop(op, a) == CASE op = "-z" -> a = Blank
                 [] op = "-n" -> a # Blank
                 [] op = "-e" -> a \in Existing

\* A binary operator: [val, err].
Binop(a, op, b) ==
  LET numbers == a \in DOMAIN Number /\ b \in DOMAIN Number
      right(v) == [val |-> v, err |-> FALSE]
  IN CASE op = "=" -> right(a = b)
       [] op = "!=" -> right(a # b)
       [] ~numbers -> [val |-> FALSE, err |-> TRUE]
       [] op = "-eq" -> right(Number[a] = Number[b])
       [] op = "-lt" -> right(Number[a] < Number[b])

\* tparse: the arguments, the next one, an error, the last value.
Arg(t, k) == IF t.i + k \in DOMAIN t.a THEN t.a[t.i + k] ELSE "end"
Ahead(t, n) == t.i + n - 1 <= Len(t.a)
Value(t, n, v) == [t EXCEPT !.i = @ + n, !.val = v]
Fail(t) == [t EXCEPT !.err = TRUE]

RECURSIVE OExpr(_), AExpr(_), NExpr(_), MoreO(_), MoreA(_)

Primary(t) ==
  LET inner == OExpr([t EXCEPT !.i = @ + 1])
      b == Binop(Arg(t, 0), Arg(t, 1), Arg(t, 2))
  IN IF ~Ahead(t, 1) THEN [t EXCEPT !.val = FALSE]
     ELSE IF Arg(t, 0) = "(" THEN IF Arg(inner, 0) = ")" THEN Value(inner, 1, inner.val) ELSE Fail(inner)
     ELSE IF Arg(t, 0) \in UnOps /\ Ahead(t, 2) THEN Value(t, 2, Unop(Arg(t, 0), Arg(t, 1)))
     ELSE IF Arg(t, 1) \in BinOps
          THEN IF ~Ahead(t, 3) THEN Fail([t EXCEPT !.val = FALSE])
               ELSE [Value(t, 3, b.val) EXCEPT !.err = @ \/ b.err]
     ELSE Value(t, 1, Arg(t, 0) # Blank)

NExpr(t) == LET r == NExpr([t EXCEPT !.i = @ + 1])
            IN IF Arg(t, 0) = "!" THEN [r EXCEPT !.val = ~@] ELSE Primary(t)

MoreA(t) == LET r == NExpr([t EXCEPT !.i = @ + 1])
            IN IF Arg(t, 0) = "-a" THEN MoreA([r EXCEPT !.val = @ /\ t.val]) ELSE t
AExpr(t) == MoreA(NExpr(t))

MoreO(t) == LET r == AExpr([t EXCEPT !.i = @ + 1])
            IN IF Arg(t, 0) = "-o" THEN MoreO([r EXCEPT !.val = @ \/ t.val]) ELSE t
OExpr(t) == MoreO(AExpr(t))

\* As EvalTest, without the look at the middle of three arguments.
MutantEvalTest(args) ==
  LET t == OExpr([a |-> args, i |-> 1, err |-> FALSE, val |-> FALSE])
  IN IF args = <<>> THEN 1
     ELSE IF t.err \/ t.i # Len(args) + 1 THEN 2
     ELSE IF t.val THEN 0 ELSE 1

\* eval_test: 0 is true, 1 false, 2 an error.
EvalTest(args) ==
  LET t == OExpr([a |-> args, i |-> 1, err |-> FALSE, val |-> FALSE])
      b == Binop(args[1], args[2], args[3])
  IN IF args = <<>> THEN 1
     ELSE IF Len(args) = 1 THEN IF args[1] # Blank THEN 0 ELSE 1
     ELSE IF Len(args) = 3 /\ args[2] \in BinOps
          THEN IF b.err THEN 2 ELSE IF b.val THEN 0 ELSE 1
     ELSE IF t.err \/ t.i # Len(args) + 1 THEN 2
     ELSE IF t.val THEN 0 ELSE 1

-----------------------------------------------------------------------------
Str(a) == [kind |-> "str", a |-> a]
Un(op, a) == [kind |-> "un", op |-> op, a |-> a]
Cmp(a, op, b) == [kind |-> "cmp", a |-> a, op |-> op, b |-> b]
Not(x) == [kind |-> "not", x |-> x]
And(x, y) == [kind |-> "and", x |-> x, y |-> y]
Or(x, y) == [kind |-> "or", x |-> x, y |-> y]

\* The value of a tree: every part is evaluated, an error anywhere counts.
RECURSIVE Meaning(_)
Meaning(e) ==
  LET both(val) == [val |-> val, err |-> Meaning(e.x).err \/ Meaning(e.y).err]
  IN CASE e.kind = "str" -> [val |-> e.a # Blank, err |-> FALSE]
       [] e.kind = "un" -> [val |-> Unop(e.op, e.a), err |-> FALSE]
       [] e.kind = "cmp" -> Binop(e.a, e.op, e.b)
       [] e.kind = "not" -> [Meaning(e.x) EXCEPT !.val = ~@]
       [] e.kind = "and" -> both(Meaning(e.x).val /\ Meaning(e.y).val)
       [] e.kind = "or" -> both(Meaning(e.x).val \/ Meaning(e.y).val)

\* The arguments for a tree, parentheses where they are needed.
Tight(e) == CASE e.kind = "or" -> 1 [] e.kind = "and" -> 2 [] e.kind = "not" -> 3 [] OTHER -> 4
RECURSIVE Args(_)
Args(e) ==
  LET in(x, k) == IF Tight(x) < k THEN <<"(">> \o Args(x) \o <<")">> ELSE Args(x)
  IN CASE e.kind = "str" -> <<e.a>>
       [] e.kind = "un" -> <<e.op, e.a>>
       [] e.kind = "cmp" -> <<e.a, e.op, e.b>>
       [] e.kind = "not" -> <<"!">> \o in(e.x, 3)
       [] e.kind = "and" -> in(e.x, 2) \o <<"-a">> \o in(e.y, 3)
       [] e.kind = "or" -> in(e.x, 1) \o <<"-o">> \o in(e.y, 2)

\* test answers what its expression means; three arguments with a comparison
\* in the middle are that comparison, even of things that look like operators
\* (eval_test).
TestsTree(e) ==
  LET m == Meaning(e)
  IN EvalTest(Args(e)) = IF m.err THEN 2 ELSE IF m.val THEN 0 ELSE 1
=============================================================================
