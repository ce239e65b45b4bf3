------------------------------- MODULE MCText -------------------------------
(***************************************************************************)
(* What is read and what is written, in one run.  The shell's pure         *)
(* algorithms run on bounded inputs: `kind` says which one, `item` is the  *)
(* input, grown a step at a time: a pattern, an expression, a word, a      *)
(* line, a condition, a tree, a word of the lexer, documents, arguments,   *)
(* the current directory.  The last kind writes every mix of text and      *)
(* sequences to a terminal of two rows (VTermWrite), whose variables keep  *)
(* their initial values in the others.                                     *)
(***************************************************************************)
EXTENDS Integers, Sequences, SequencesExt, FiniteSets, Functions, TLC, VTermWrite

VARIABLES kind, item

\* Patterns (ShellPattern): up to three parts.
ASCII == <<"!", "*", "+", "-", ".", "/", "0", ":", "?", "[", "\\", "]", "^", "a", "b", "d">>
Codes == [c \in Range(ASCII) |-> CHOOSE i \in DOMAIN ASCII : ASCII[i] = c]
FileNames == {<<".">>, <<".", ".">>, <<"a">>, <<"b">>, <<"a", "b">>, <<".", "a">>}
Classes == <<"d">> :> {"0"}
Tree == <<".">> :> FileNames @@ <<"/">> :> {<<"b">>, <<"a">>}
Pattern == INSTANCE ShellPattern WITH
  Code <- Codes, ClassMembers <- Classes, Directories <- Tree

Strings == UNION {[1..n -> {"a", "-", "]"}] : n \in 0..3}
Brackets ==
  LET l(c) == [kind |-> "lit", c |-> c]
      r(lo, hi) == [kind |-> "range", lo |-> lo, hi |-> hi]
      d == [kind |-> "class", name |-> <<"d">>]
  IN {Pattern!Set(FALSE, s) : s \in
       {<<l("]"), l("b")>>, <<l("-"), l("a")>>, <<r("]", "a"), l("-")>>,
        <<d, l("b")>>, <<l("["), l("a")>>, <<r("+", "-"), l("!")>>}}
     \cup {Pattern!Set(TRUE, s) : s \in {<<l("]")>>, <<l("a"), l("-")>>, <<l("\\"), r("0", "[")>>}}
Parts == {Pattern!Star, Pattern!One, Pattern!Open} \cup Brackets
           \cup {Pattern!Lit(c) : c \in {"a", "*", "]", "."}}

\* Arithmetic (ShellArith): expressions of up to two operators.
Values == [s \in {ToString(n) : n \in 0..50} |-> CHOOSE n \in 0..50 : ToString(n) = s]
Arith == INSTANCE ShellArith WITH Vars <- {"x", "y"}, Numerals <- Values, ARITH_MAX_DEPTH <- 2

Leaves == {Arith!Num(2), Arith!Num(3), Arith!Var("x"), Arith!Var("y")}
Binaries == {<<"|", "|">>, <<"&", "&">>, <<"=", "=">>, <<"<", "=">>,
             <<"+">>, <<"-">>, <<"*">>, <<"/">>, <<"%">>}
Over(A, B) ==
  {Arith!Un(op, a) : op \in {"-", "!"}, a \in A}
  \cup {Arith!Bin(op, a, b) : op \in Binaries, a \in A, b \in B}
  \cup {Arith!Asg("x", op, a) : op \in {"", "/"}, a \in A}
  \cup {Arith!Seq2(a, b) : a \in A, b \in B}
Environments == {[x |-> a, y |-> b] : a \in {Arith!Num(2), Arith!Var("y")},
   b \in {Arith!Num(0), Arith!Bin(<<"-">>, Arith!Num(1), Arith!Var("x"))}}
RECURSIVE Operations(_)
Operations(t) == CASE t.kind \in {"num", "var"} -> 0
                   [] t.kind \in {"un", "asg"} -> 1 + Operations(t.a)
                   [] OTHER -> 1 + Operations(t.l) + Operations(t.r)

\* Words and lines (ShellWords): up to two parts, up to five characters.
DigitChars == <<"0", "1", "2", "3", "4", "5", "6">>
Words == INSTANCE ShellWords WITH Whitespace <- {" "}, Digits <- DigitChars
WordParts ==
  {Words!Lit(<<"a">>), Words!Quote(<<>>), Words!Quote(<<" ">>), Words!At, Words!Star, Words!Tilde,
   Words!Double(<<Words!Par("x", "", <<>>)>>), Words!Double(<<Words!At>>), Words!Double(<<Words!Star>>),
   Words!Double(<<Words!Par("x", ":-", <<Words!Tilde>>)>>)}
  \cup {Words!Par(n, "", <<>>) : n \in {"x", "y", "1"}}
  \cup {Words!Par("x", op, <<Words!Par("y", "", <<>>)>>) : op \in {"-", ":-", "+", ":+", ":=", ":?"}}
  \cup {Words!Par("y", "=", <<Words!Lit(<<" ", "b">>), Words!Par("x", "", <<>>)>>), Words!Par("x", "#", <<>>)}
VarValues == {Words!Unset, <<>>, <<"a">>, <<" ", "a", ":">>, <<":", " ", ":", "a", " ">>}
ShellStates ==
  {[vars |-> [x |-> x, y |-> y, IFS |-> ifs, HOME |-> <<" ", "h">>],
    pos |-> pos, nounset |-> n, exiting |-> FALSE] :
     x \in VarValues, y \in {Words!Unset, <<>>, <<" ", "a", ":">>}, ifs \in {Words!Unset, <<":", " ">>, <<>>}, n \in BOOLEAN,
     pos \in {<<>>, << <<>>, <<"a", " ", "b">> >>, << <<":">>, <<"b">> >>}}
LineChars == {"a", " ", ":", "\\"}

\* Conditions (ShellTest): up to two operators, and lone comparisons whose
\* operands look like operators.
Test == INSTANCE ShellTest WITH Blank <- "", Existing <- {"f"}, Number <- ("1" :> 1 @@ "2" :> 2)
TestLeaves == {Test!Str(a) : a \in {"", "f"}}
                \cup {Test!Un(op, a) : op \in {"-z", "-e"}, a \in {"", "f", "-a"}}
                \cup {Test!Cmp(a, op, b) : a \in {"1", "f"}, op \in {"=", "-lt"}, b \in {"2", "f"}}
Lookalikes == {Test!Cmp(a, op, b) : a \in {"!", "(", "-z", "-e", "f"}, op \in Test!BinOps,
                                    b \in {")", "-a", "f", ""}}
RECURSIVE Connectives(_)
Connectives(e) == CASE e.kind = "not" -> 1 + Connectives(e.x)
                    [] e.kind \in {"and", "or"} -> 1 + Connectives(e.x) + Connectives(e.y)
                    [] OTHER -> 0

\* Trees (ShellSyntax): two constructs around a simple command.
Redirections ==
  "<" :> [op |-> "<", fd |-> 0] @@ ">" :> [op |-> ">", fd |-> 1] @@ "2>" :> [op |-> ">", fd |-> 2]
    @@ ">>" :> [op |-> ">>", fd |-> 1] @@ "2>&" :> [op |-> ">&", fd |-> 2]
    @@ "<&" :> [op |-> "<&", fd |-> 0] @@ "<<" :> [op |-> "<<", fd |-> -1]
Syntax == INSTANCE ShellSyntax WITH
  Names <- {"f", "x"}, Assigns <- {"x=1"}, RedirTokens <- Redirections
Redir(k, fd, w) == [kind |-> k, fd |-> fd, word |-> w]
Plain == Syntax!Simple(<<>>, <<"f">>, <<>>)
SimpleCommands ==
  {Plain, Syntax!Simple(<<"x=1">>, <<>>, <<>>),
   Syntax!Simple(<<"x=1">>, <<"f", "x=1", "done", "if", "!">>, <<Redir("out", 2, "f"), Redir("dup", 2, "1")>>),
   Syntax!Simple(<<>>, <<"f", "}">>, <<Redir("heredoc", 0, "body")>>),
   Syntax!Simple(<<>>, <<>>, <<Redir("in", 0, "x"), Redir("close", 0, "-"), Redir("append", 1, "0")>>)}
Around(x) ==
  LET one == Syntax!List(<<Plain>>)
      l == Syntax!List(<<x>>)
      lists == {l, Syntax!List(<<Plain, x>>), Syntax!List(<<x, Plain>>)}
      none == Syntax!NoElse
      plain == x.kind \notin {"pipe", "andor"} /\ ~x.negated
  IN (IF x.kind = "andor" THEN {} ELSE {Syntax!AndOr("||", Plain, x)})
     \cup {Syntax!AndOr("&&", x, Plain)}
     \cup (IF ~plain THEN {}
           ELSE {[x EXCEPT !.negated = TRUE], Syntax!Pipe(<<x, Plain>>),
                 [Syntax!Pipe(<<Plain, x, Plain>>) EXCEPT !.negated = TRUE], Syntax!FuncDef("f", x)})
     \cup {Syntax!For("x", i, IF i THEN <<>> ELSE <<"f", "in">>, b) : i \in BOOLEAN, b \in lists}
     \cup {Syntax!While(u, a, l) : u \in BOOLEAN, a \in {one, none}}
     \cup {Syntax!While(FALSE, b, one) : b \in lists}
     \cup {Syntax!If(<< <<l, one>> >>, none), Syntax!If(<< <<one, l>> >>, l),
           Syntax!If(<< <<l, one>>, <<one, l>> >>, one)}
     \cup {Syntax!Case("f", <<>>), Syntax!Case("in", << << <<"f">>, l>> >>),
           Syntax!Case("f", << << <<"x", "do">>, l>>, << <<"x">>, none>> >>)}
     \cup {Syntax!Group(s, b) : s \in BOOLEAN, b \in lists \cup {none}}
     \cup {[c EXCEPT !.redirs = <<Redir("out", 1, "f")>>] :
             c \in {Syntax!While(FALSE, l, l), Syntax!Group(TRUE, l)}}
Styles ==
  LET style(s, g, b) == [sep |-> s, gap |-> g, redirs |-> b, paren |-> b, last |-> b]
  IN {style(<<";">>, <<>>, TRUE), style(<<";">>, <<>>, FALSE),
      style(<<"newline">>, <<"newline">>, TRUE), style(<<";", "newline">>, <<"newline">>, FALSE)}
RECURSIVE Height(_)
Height(n) ==
  LET most(S) == CHOOSE h \in S \cup {0} : \A k \in S : k <= h
      list(l) == most({Height(l.items[i]) : i \in DOMAIN l.items})
  IN CASE n.kind = "simple" -> IF n.negated THEN 1 ELSE 0
       [] n.kind = "andor" -> 1 + most({Height(n.left), Height(n.right)})
       [] n.kind = "pipe" -> 1 + most({Height(n.stages[i]) : i \in DOMAIN n.stages})
       [] n.kind \in {"for", "group"} -> 1 + list(n.parts.body)
       [] n.kind = "while" -> 1 + most({list(n.parts.cond), list(n.parts.body)})
       [] n.kind = "funcdef" -> 1 + Height(n.parts.body)
       [] n.kind = "if" -> 1 + most({list(n.parts.clauses[i][j]) : i \in DOMAIN n.parts.clauses, j \in 1..2})
       [] n.kind = "case" -> 1 + most({list(n.parts.clauses[i][2]) : i \in DOMAIN n.parts.clauses})

\* Segments and here-documents (ShellLex): four or more levels of nesting
\* around short texts, two documents.
FewDigits == <<"0", "1", "2">>
Lexer == INSTANCE ShellLex WITH Digits <- FewDigits, MaxPending <- 2
Segments ==
  {Lexer!Plain(s) : s \in {<<"a">>, <<"{", "}">>, <<"#">>, <<"1">>}}
  \cup {Lexer!Escape(c) : c \in {"\"", ")"}}
  \cup {Lexer!Single(s) : s \in {<<>>, <<" ", ")", "$", "(", "}", "\"">>}}
  \cup {Lexer!Double(<<>>), Lexer!Double(<<Lexer!Plain(<<"'", ")", "}">>)>>),
        Lexer!Continued, Lexer!Backtick(<<"a", " ">>), Lexer!Backtick(<<"(", "a", ")">>)}
Inner(g) == IF g.kind \in {"double", "cmdsub", "brace", "paren"}
            THEN {g.segs[i] : i \in DOMAIN g.segs} ELSE {}
RECURSIVE Has(_, _), Lexable(_), Expandable(_)
Has(g, kinds) == g.kind \in kinds \/ \E h \in Inner(g) : Has(h, kinds)
Requotes(g, kinds) == \E h \in Inner(g) : h.kind \in kinds /\ Has(h, {"double"})
\* Quotes within an expansion within quotes are read wrongly in these places.
Lexable(g) ==
  /\ \A h \in Inner(g) : Lexable(h)
  /\ g.kind = "double" => ~Requotes(g, {"brace"})
  /\ g.kind = "brace" => \A h \in Inner(g) : h.kind = "double" => ~Requotes(h, {"cmdsub", "brace"})
Expandable(g) ==
  /\ \A h \in Inner(g) : Expandable(h)
  /\ g.kind \in {"cmdsub", "brace"} =>
       \A h \in Inner(g) : h.kind = "double" => ~Requotes(h, {"cmdsub", "brace"})
  /\ g.kind = "brace" =>
       \A h \in Inner(g) : h.kind = "cmdsub" => ~Has(h, {"double", "single", "escape"})
Nestings(g) ==
  {Lexer!Double(<<g>>) : x \in IF g.kind \in {"double", "single", "paren"} THEN {} ELSE {1}}
  \cup {Lexer!Brace(<<g>>) : x \in IF g.kind = "paren" THEN {} ELSE {1}}
  \cup {Lexer!Cmdsub(<<g>>), Lexer!Cmdsub(<<Lexer!Plain(<<" ", "newline">>), g>>), Lexer!Paren(<<g>>)}
LexOps == {<<";">>, <<";", ";">>, <<"|">>, <<"|", "|">>, <<"&", "&">>, <<"(">>, <<"<">>, <<">">>, <<">", ">">>,
           <<">", "&">>, <<">", "|">>, <<"<", "&">>, <<"2", ">">>, <<"newline">>}
LexBlanks == {<<" ">>, <<"tab", "\\", "newline">>, <<" ", "&", "cr">>}
Tails == {<<>>, <<")">>, <<"}", "a">>, <<"\"">>}
Docs ==
  LET doc(dash, w, quoted, delim, lines) ==
        [dash |-> dash, word |-> w, quoted |-> quoted, delim |-> delim, lines |-> lines]
      lineSets == {<<>>, << <<"a">>, <<"tab", "b">> >>, << <<"E", "a">> >>, << <<" ", "E">>, <<"'">> >>}
  IN UNION {{doc(d, <<Lexer!Plain(<<"E">>)>>, FALSE, <<"E">>, ls),
             doc(d, <<Lexer!Plain(<<"E">>), Lexer!Single(<<" ">>)>>, TRUE, <<"E", " ">>, ls),
             doc(d, <<Lexer!Escape("E")>>, TRUE, <<"E">>, ls),
             doc(d, <<Lexer!Double(<<>>)>>, TRUE, <<>>, ls)} : d \in BOOLEAN, ls \in lineSets}

\* Command lines (ConsoleLine): arguments and characters, six in all, near the
\* limits of the console, and the directories above and below (Paths).
Console == INSTANCE ConsoleLine WITH MaxArgs <- 4, MaxLine <- 14
ArgChars == {"a", Console!Separator, Console!Escape} \cup Console!Quotes
RawLine == Console!Joined(item)

Directories == {<<>>, <<"root">>, <<"root", "a">>, <<"root", "a", "b">>, <<"root", "a", "b", "a">>}
Path == INSTANCE Paths WITH Tree <- Directories, MaxPath <- 7
Below == {<<"..">>, <<"a">>, <<"b">>, <<"root">>, <<"a", "/", "b">>, <<"root", "/", "a">>, <<"b", "/", "a">>}
\* The deepest directory is too long a path, which would be cut short.
CleanPaths ==
  Below \cup {Path!Written(d) : d \in {<<>>, <<"b">>, <<"root", "b">>, <<"root">>, <<"root", "a">>}}
Detours == Below \cup {<<".">>, <<"a", "/", "..">>, <<"..", "/", "a">>, <<"a", "/", "/", ".", "/", "b">>,
                      <<"..", "/", "..", "/", "..", "/", "a">>}

\* Sequences (VTermWrite): no parameter, counts up to more than the screen, a
\* place, "?25".
SomeParams == {<<>>, <<0>>, <<1>>, <<2>>, <<7>>, <<2, 3>>, Private}

-----------------------------------------------------------------------------
MCInit ==
  /\ Init
  /\ \/ kind \in {"pattern", "word", "line", "docs", "argv", "screen"} /\ item = <<>>
     \/ kind = "arith" /\ item \in Leaves
     \/ kind = "test" /\ item \in TestLeaves \cup Lookalikes
     \/ kind = "tree" /\ item \in SimpleCommands
     \/ kind = "segment" /\ item \in Segments
     \/ kind = "cwd" /\ item = Path!Written(<<"root">>)

LongerPattern == kind = "pattern" /\ Len(item) < 3 /\ \E p \in Parts : item' = Append(item, p)
LongerWord == kind = "word" /\ Len(item) < 2 /\ \E p \in WordParts : item' = Append(item, p)
LongerLine == kind = "line" /\ Len(item) < 5 /\ \E c \in LineChars : item' = Append(item, c)
MoreDocs == kind = "docs" /\ Len(item) < 2 /\ \E d \in Docs : item' = Append(item, d)
LargerExpression == /\ kind = "arith" /\ Operations(item) <= 1
                    /\ item' \in Over({item}, Leaves) \cup Over(Leaves, {item})
LargerCondition ==
  /\ kind = "test" /\ Connectives(item) < 2 /\ item \notin Lookalikes
  /\ \/ item' = Test!Not(item)
     \/ \E e \in TestLeaves :
          item' \in {Test!And(item, e), Test!And(e, item), Test!Or(item, e), Test!Or(e, item)}
LargerTree == kind = "tree" /\ Height(item) < 2 /\ item' \in Around(item)
DeeperSegment == /\ kind = "segment" /\ item.kind \notin {"continued", "backtick"}
                 /\ Len(Lexer!Write(item, TRUE)) \in 1..8 /\ item' \in Nestings(item)
LongerArgv == /\ kind = "argv" /\ Len(item) + Len(FlattenSeq(item)) < 6
              /\ \/ item' = Append(item, <<>>)
                 \/ \E c \in ArgChars :
                      item # <<>> /\ item' = [item EXCEPT ![Len(item)] = Append(@, c)]
ChangeDirectory == kind = "cwd" /\ \E p \in CleanPaths : item' = Path!SetCwd(item, p)
Longer ==
  \/ LongerPattern \/ LongerWord \/ LongerLine \/ MoreDocs
  \/ LargerExpression \/ LargerCondition \/ LargerTree \/ DeeperSegment
  \/ LongerArgv \/ ChangeDirectory
MCNext ==
  /\ UNCHANGED kind
  /\ \/ kind # "screen" /\ Longer /\ UNCHANGED vars
     \/ kind = "screen" /\ Next /\ UNCHANGED item
MCSpec == MCInit /\ [][MCNext]_<<kind, item, vars>>

-----------------------------------------------------------------------------
\* Without a "[" that some later "]" closes: that text is another pattern's.
Opened == \E i \in DOMAIN item : /\ item[i] = Pattern!Open
                                 /\ "]" \in Range(Pattern!Text(item))
IsPattern == kind = "pattern" /\ ~Opened

\* A pattern matches what its parts match, one after the other; ${x%pat}
\* removes what ${x#pat} removes of the reversed; a word becomes the sorted
\* names it matches (PatternMatch, StripSuffix, Pathnames).
MatchesByParts == Pattern!MatchesByParts(item, Strings)
SuffixMirrorsPrefix == Pattern!SuffixIsPrefixReversed(item, Strings)
PathnamesAreSorted ==
  item # <<>> => \A d \in {<<>>, <<"/">>} : Pattern!PathnamesAreNames(d, item)
\* The current directory has no detours, and paths follow it (breezy_vfs.c).
PathsFollowCwd ==
  kind = "cwd" => /\ Path!CwdIsWritten(item) /\ Path!GoesUp(item)
                  /\ \A p \in Detours : Path!Follows(item, p)
PatternsMatchByParts ==
  /\ IsPattern => MatchesByParts /\ SuffixMirrorsPrefix /\ PathnamesAreSorted
  /\ PathsFollowCwd
\* An expression has its tree's value and assigns what it assigns (Eval).
ArithmeticEvaluates == kind = "arith" => \A e \in Environments : Arith!EvaluatesTree(item, e)

\* A word splits as its whole value does, and read assigns the fields of its
\* line (ExpandWord, ReadSplit).
WordSplitsAsWhole ==
  kind = "word" => \A st \in ShellStates :
    (st.pos = <<>> /\ Words!Double(<<Words!At>>) \in Range(item)) \/ Words!SplitsAsWhole(st, item)
ReadAssignsFields ==
  kind = "line" => \A nv \in 1..3, raw \in BOOLEAN, ifs \in {{" ", ":"}, {" "}, {":"}} :
    Words!ReadsFields(item, raw, nv, ifs)

\* A program and a builtin get the arguments that the shell made or the line
\* gives, with the redirections of the line (breezy_exec.c).
ArgumentsArrive ==
  kind = "argv" =>
    /\ Console!ArgumentsSurvive(item) /\ Console!ParsersAgree(item) /\ Console!PassesAgree(RawLine)
    /\ \A gap \in {<<>>, <<" ">>} : Console!RunsAsWritten(item, gap)
FieldsSplit == WordSplitsAsWhole /\ ReadAssignsFields /\ ArgumentsArrive

\* test gives the truth of the condition written (EvalTest).
ConditionIsTrue == kind = "test" => Test!TestsTree(item)

\* Every tree is parsed back from its tokens, and not from fewer (Parse).
TreeParsesBack ==
  kind = "tree" => \A s \in Styles :
    /\ Syntax!ParsesBack(item, s)
    /\ s.paren /\ s.gap = <<>> => Syntax!CutShortFails(item, s)

\* Words are lexed whole, the expander cuts them where the lexer did, and
\* here-documents get their bodies (Lex, CmdsubEnd, BraceEnd, CollectAll).
WordLexesBack ==
  kind = "segment" /\ item.kind # "paren" /\ item # Lexer!Plain(<<"#">>) /\ Lexable(item) =>
    \A op \in LexOps, b \in LexBlanks,
       w \in {Lexer!Plain(<<"a">>), Lexer!Continued, Lexer!Backtick(<<"(", "a">>), Lexer!Plain(<<"1">>)} :
      Lexer!LexesBack(<< <<Lexer!Plain(<<"1">>), item>>, <<item, Lexer!Plain(<<"a">>), w>> >>,
                      <<op, <<"(">> >>, b)
ExpanderFindsEnd ==
  kind = "segment" /\ Expandable(item) => \A t \in Tails : Lexer!ExtentsAgree(item, t)
DocumentsInOrder == kind = "docs" => Lexer!HereDocsInOrder(item)
TextLexesBack == WordLexesBack /\ ExpanderFindsEnd /\ DocumentsInOrder
=============================================================================
