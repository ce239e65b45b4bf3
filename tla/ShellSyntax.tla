----------------------------- MODULE ShellSyntax -----------------------------
(***************************************************************************)
(* The parser (breezybox/shell/sh_parse.c): recursive descent from tokens  *)
(* to the tree.  A token is an operator or a word; a redirection operator  *)
(* carries its descriptor.  The second half writes a tree back as tokens.  *)
(***************************************************************************)
EXTENDS Integers, Sequences, SequencesExt

CONSTANTS
  Names,       \* words that are valid names
  Assigns,     \* words of the form name=value
  RedirTokens  \* redirection token |-> [op, fd], fd = -1 when none is written

EOF == "eof"
Separators == {";", "newline"}
Reserved == {"then", "else", "elif", "fi", "do", "done", "esac", "}"}
OpTokens == Separators \cup DOMAIN RedirTokens \cup {"&&", "||", "|", "(", ")", ";;", EOF}

\* Nodes.
List(items) == [kind |-> "list", items |-> items]
Simple(assigns, words, redirs) ==
  [kind |-> "simple", assigns |-> assigns, words |-> words, redirs |-> redirs, negated |-> FALSE]
AndOr(op, l, r) == [kind |-> "andor", op |-> op, left |-> l, right |-> r]
Pipe(stages) == [kind |-> "pipe", stages |-> stages, negated |-> FALSE]
Compound(kind, parts) == [kind |-> kind, parts |-> parts, redirs |-> <<>>, negated |-> FALSE]
For(name, implicit, words, body) ==
  Compound("for", [name |-> name, implicit |-> implicit, words |-> words, body |-> body])
While(until, cond, body) == Compound("while", [until |-> until, cond |-> cond, body |-> body])
If(clauses, else) == Compound("if", [clauses |-> clauses, else |-> else])
Case(word, clauses) == Compound("case", [word |-> word, clauses |-> clauses])
Group(subshell, body) == Compound("group", [subshell |-> subshell, body |-> body])
FuncDef(name, body) == Compound("funcdef", [name |-> name, body |-> body])
NoElse == List(<<>>)

\* P: tokens, position, whether an error occurred, the node last parsed.
Cur(p) == p.toks[p.pos]
Next(p) == IF Cur(p) = EOF THEN EOF ELSE p.toks[p.pos + 1]
Adv(p) == IF Cur(p) = EOF THEN p ELSE [p EXCEPT !.pos = @ + 1]
Err(p) == [p EXCEPT !.ok = FALSE]
Got(p, n) == [p EXCEPT !.n = n]
IsWord(p) == Cur(p) \notin OpTokens
IsReserved(p) == Cur(p) \in Reserved
\* Consume the token t, or fail.
Need(p, t) == IF p.ok /\ Cur(p) = t THEN Adv(p) ELSE Err(p)
\* Go on from p, unless that was an error.
Then(p, Rest(_)) == IF p.ok THEN Rest(p) ELSE p

RECURSIVE Skip(_, _)
Skip(p, set) == IF Cur(p) \in set THEN Skip(Adv(p), set) ELSE p
SkipSeps(p) == Skip(p, Separators)
SkipNewlines(p) == Skip(p, {"newline"})

\* parse_redir, onto the node p.n.
ParseRedir(p) ==
  LET r == RedirTokens[Cur(p)]
      input == r.op \in {"<", "<&", "<<"}
      fd == IF r.fd >= 0 THEN r.fd ELSE IF input THEN 0 ELSE 1
      target == Cur(Adv(p))
      put(x) == [Adv(Adv(p)) EXCEPT !.n.redirs = Append(@, x)]
      file(kind) == [kind |-> kind, fd |-> fd, word |-> target]
  IN IF target \in OpTokens THEN Err(p)
     ELSE put(CASE r.op = "<<" -> [kind |-> "heredoc", fd |-> 0, word |-> "body"]
                [] r.op \in {"<&", ">&"} /\ target \in {"0", "1", "2"} -> file("dup")
                [] r.op \in {"<&", ">&"} /\ target = "-" -> file("close")
                [] r.op = ">>" -> file("append")
                [] OTHER -> file(IF input THEN "in" ELSE "out"))

RECURSIVE ParseRedirList(_)
ParseRedirList(p) ==
  IF p.ok /\ Cur(p) \in DOMAIN RedirTokens THEN ParseRedirList(ParseRedir(p)) ELSE p

RECURSIVE SimpleRest(_)
SimpleRest(p) ==
  LET first == p.n.words = <<>>
  IN IF ~p.ok THEN p
     ELSE IF Cur(p) \in DOMAIN RedirTokens THEN SimpleRest(ParseRedir(p))
     ELSE IF ~IsWord(p) \/ (first /\ IsReserved(p)) THEN p
     ELSE IF first /\ Cur(p) \in Assigns
          THEN SimpleRest(Adv([p EXCEPT !.n.assigns = Append(@, Cur(p))]))
     ELSE SimpleRest(Adv([p EXCEPT !.n.words = Append(@, Cur(p))]))
ParseSimple(p0) ==
  LET empty == Simple(<<>>, <<>>, <<>>)
      p == SimpleRest(Got(p0, empty))
  IN IF p.n = empty THEN Err(p) ELSE p

RECURSIVE ParseList(_), ListRest(_, _), ParseCommand(_), IfRest(_, _), CaseRest(_, _)

\* A list that must hold a command (an empty body is an error).
ParseBody(p) == Then(ParseList(p), LAMBDA b : IF b.n.items = <<>> THEN Err(b) ELSE b)

RECURSIVE ForWords(_)
ForWords(p) == IF IsWord(p) /\ ~IsReserved(p)
               THEN ForWords(Adv([p EXCEPT !.n = Append(@, Cur(p))])) ELSE p
ParseFor(p0) ==
  LET name == Adv(p0)
      p == SkipNewlines(Adv(name))
      implicit == Cur(p) # "in"
      body(words) == Then(ParseBody(Need(SkipSeps(words), "do")), LAMBDA b :
                       Got(Need(b, "done"), For(Cur(name), implicit, words.n, b.n)))
  IN IF Cur(name) \notin Names THEN Err(name)
     ELSE body(IF implicit THEN Got(p, <<>>) ELSE ForWords(Got(Adv(p), <<>>)))

ParseWhile(p) ==
  Then(ParseList(Adv(p)), LAMBDA cond :
    Then(ParseBody(Need(cond, "do")), LAMBDA body :
      Got(Need(body, "done"), While(Cur(p) = "until", cond.n, body.n))))

IfRest(p, clauses) ==
  LET after(body, all) ==
        IF Cur(body) = "elif" THEN IfRest(Adv(body), all)
        ELSE IF Cur(body) = "else"
             THEN Then(ParseBody(Adv(body)), LAMBDA else : Got(Need(else, "fi"), If(all, else.n)))
        ELSE Got(Need(body, "fi"), If(all, NoElse))
  IN Then(ParseList(p), LAMBDA cond :
       Then(ParseBody(Need(cond, "then")), LAMBDA body :
         after(body, Append(clauses, <<cond.n, body.n>>))))

RECURSIVE Patterns(_)
Patterns(p) ==
  LET q == Adv([p EXCEPT !.n = Append(@, Cur(p))])
  IN IF ~IsWord(p) THEN Err(p) ELSE IF Cur(q) = "|" THEN Patterns(Adv(q)) ELSE q
CaseRest(p, c) ==
  LET done(q, n) == Got(Need(q, "esac"), Case(n.word, n.clauses))
      after(body, all) == IF Cur(body) = ";;" THEN CaseRest(SkipSeps(Adv(body)), all)
                          ELSE done(body, all)
  IN IF ~p.ok THEN p
     ELSE IF Cur(p) \in {"esac", EOF} THEN done(p, c)
     ELSE Then(Patterns(Got(IF Cur(p) = "(" THEN Adv(p) ELSE p, <<>>)), LAMBDA pats :
            Then(ParseList(Need(pats, ")")), LAMBDA body :
              after(body, [c EXCEPT !.clauses = Append(@, <<pats.n, body.n>>)])))
ParseCase(p) ==
  LET word == Adv(p)
  IN IF ~IsWord(word) THEN Err(word)
     ELSE CaseRest(SkipSeps(Need(Adv(word), "in")), [word |-> Cur(word), clauses |-> <<>>])

ParseGroup(p, subshell) ==
  Then(ParseList(Adv(p)), LAMBDA body :
    Got(Need(body, IF subshell THEN ")" ELSE "}"), Group(subshell, body.n)))

ParseFuncDef(p) ==
  IF Cur(Adv(Adv(p))) # ")" THEN Err(p)
  ELSE Then(ParseCommand(SkipNewlines(Adv(Adv(Adv(p))))), LAMBDA body :
         Got(body, FuncDef(Cur(p), body.n)))

ParseCommand(p) ==
  LET function == IsWord(p) /\ ~IsReserved(p) /\ Next(p) = "("
      n == CASE Cur(p) \in {"(", "{"} -> ParseGroup(p, Cur(p) = "(")
             [] Cur(p) = "if" -> IfRest(Adv(p), <<>>)
             [] Cur(p) \in {"while", "until"} -> ParseWhile(p)
             [] Cur(p) = "for" -> ParseFor(p)
             [] Cur(p) = "case" -> ParseCase(p)
             [] OTHER -> ParseFuncDef(p)
  IN IF ~p.ok THEN p
     ELSE IF Cur(p) \notin {"(", "{", "if", "while", "until", "for", "case"} /\ ~function
          THEN ParseSimple(p)
     ELSE ParseRedirList(n)

RECURSIVE Bangs(_, _), StagesRest(_), AndOrRest(_)
Bangs(p, neg) == IF Cur(p) = "!" THEN Bangs(SkipNewlines(Adv(p)), ~neg) ELSE [p |-> p, neg |-> neg]
StagesRest(p) ==
  IF p.ok /\ Cur(p) = "|"
  THEN Then(ParseCommand(SkipNewlines(Adv(p))), LAMBDA c : StagesRest(Got(c, Append(p.n, c.n))))
  ELSE p
ParsePipeline(p) ==
  LET b == Bangs(p, FALSE)
      pipe(stages) == Got(stages, [Pipe(stages.n) EXCEPT !.negated = b.neg])
  IN Then(ParseCommand(b.p), LAMBDA first :
       IF Cur(first) # "|" THEN [first EXCEPT !.n.negated = b.neg]
       ELSE Then(StagesRest(Got(first, <<first.n>>)), LAMBDA stages : pipe(stages)))

\* The mistake of binding && and || to the right.
MutantAndOrRest(p) ==
  IF p.ok /\ Cur(p) \in {"&&", "||"}
  THEN Then(AndOrRest(ParsePipeline(SkipNewlines(Adv(p)))), LAMBDA right :
         Got(right, AndOr(Cur(p), p.n, right.n)))
  ELSE p

AndOrRest(p) ==
  IF p.ok /\ Cur(p) \in {"&&", "||"}
  THEN Then(ParsePipeline(SkipNewlines(Adv(p))), LAMBDA right :
         AndOrRest(Got(right, AndOr(Cur(p), p.n, right.n))))
  ELSE p

\* What follows the items of a list so far.
ListRest(p, items) ==
  LET after(next, all) == IF Cur(next) \in Separators THEN ListRest(SkipSeps(next), all)
                          ELSE Got(next, List(all))
  IN IF Cur(p) \in {EOF, ")", ";;"} \/ IsReserved(p) THEN Got(p, List(items))
     ELSE Then(AndOrRest(ParsePipeline(p)), LAMBDA next : after(next, Append(items, next.n)))
ParseList(p) == IF p.ok THEN ListRest(SkipSeps(p), <<>>) ELSE p

\* sh_parse: the tree, or an error.
Failed == [kind |-> "error"]
Parse(toks) ==
  LET p == ParseList([toks |-> Append(toks, EOF), pos |-> 1, ok |-> TRUE, n |-> <<>>])
  IN IF p.ok /\ Cur(p) = EOF THEN p.n ELSE Failed
-----------------------------------------------------------------------------
(* Trees as a user may write them.  A style says what separates commands   *)
(* (sep), what follows an operator that may end a line (gap), whether a    *)
(* redirection comes first, whether a pattern has its optional parenthesis *)
(* and the last clause its optional ";;".                                  *)

Join(texts, sep) ==
  FoldLeft(LAMBDA s, i : s \o (IF i = 1 THEN <<>> ELSE sep) \o texts[i], <<>>,
           [i \in DOMAIN texts |-> i])

RedirText(r) ==
  LET ops == CASE r.kind = "heredoc" -> {"<<"} [] r.kind \in {"dup", "close"} -> {"<&", ">&"}
               [] r.kind = "in" -> {"<"} [] r.kind = "append" -> {">>"} [] OTHER -> {">", ">|"}
      token == CHOOSE t \in DOMAIN RedirTokens :
                 RedirTokens[t].op \in ops /\ (RedirTokens[t].fd = r.fd \/ r.kind = "heredoc")
  IN <<token, r.word>>
Redirs(n) == Join([i \in DOMAIN n.redirs |-> RedirText(n.redirs[i])], <<>>)
Bang(n) == IF n.negated THEN <<"!">> ELSE <<>>

RECURSIVE Text(_, _), CommandText(_, _)
Body(list, style) ==
  Join([i \in DOMAIN list.items |-> Text(list.items[i], style)], style.sep)
    \o (IF list.items = <<>> THEN <<>> ELSE style.sep)

ClausesText(c, style) ==
  LET pats(cl) == (IF style.paren THEN <<"(">> ELSE <<>>)
                    \o Join([i \in DOMAIN cl[1] |-> <<cl[1][i]>>], <<"|">>) \o <<")">>
      end(i) == IF i < Len(c.clauses) \/ style.last THEN <<";;">> \o style.gap ELSE <<>>
      \* the last command of a clause needs no separator
      list(l) == Join([i \in DOMAIN l.items |-> Text(l.items[i], style)], style.sep)
  IN Join([i \in DOMAIN c.clauses |-> pats(c.clauses[i]) \o style.gap
                  \o list(c.clauses[i][2]) \o (IF i = Len(c.clauses) THEN style.sep ELSE <<>>) \o end(i)], <<>>)

CommandText(n, style) ==
  LET c == n.parts
      if == Join([i \in DOMAIN c.clauses |-> Body(c.clauses[i][1], style) \o <<"then">>
                                               \o style.gap \o Body(c.clauses[i][2], style)], <<"elif">>)
      else == IF c.else = NoElse THEN <<>> ELSE <<"else">> \o Body(c.else, style)
      names == IF c.implicit THEN <<>> ELSE <<"in">> \o c.words
  IN CASE n.kind = "simple" -> IF style.redirs THEN Redirs(n) \o n.assigns \o n.words
                               ELSE n.assigns \o n.words \o Redirs(n)
       [] n.kind = "for" -> <<"for", c.name>> \o names \o style.sep \o <<"do">>
                              \o Body(c.body, style) \o <<"done">>
       [] n.kind = "while" -> << IF c.until THEN "until" ELSE "while" >> \o Body(c.cond, style)
                                \o <<"do">> \o Body(c.body, style) \o <<"done">>
       [] n.kind = "if" -> <<"if">> \o if \o else \o <<"fi">>
       [] n.kind = "case" -> <<"case", c.word, "in">> \o style.gap \o ClausesText(c, style) \o <<"esac">>
       [] n.kind = "group" -> << IF c.subshell THEN "(" ELSE "{" >> \o Body(c.body, style)
                                \o << IF c.subshell THEN ")" ELSE "}" >>
       [] n.kind = "funcdef" -> <<c.name, "(", ")">> \o style.gap \o Text(c.body, style)

Text(n, style) ==
  CASE n.kind = "andor" -> Text(n.left, style) \o <<n.op>> \o style.gap \o Text(n.right, style)
    [] n.kind = "pipe" -> Bang(n) \o Join([i \in DOMAIN n.stages |-> Text(n.stages[i], style)],
                                          <<"|">> \o style.gap)
    [] n.kind = "simple" -> Bang(n) \o CommandText(n, style)
    [] OTHER -> Bang(n) \o CommandText(n, style) \o Redirs(n)

\* What is written is what is parsed: every tree comes back whole from its
\* tokens, in every style, whatever is nested in it; so each keyword closes
\* the construct it belongs to and reserved words are plain arguments.
ParsesBack(tree, style) == Parse(Text(tree, style)) = List(<<tree>>)

\* A command cut short is an error and never a shorter command: no proper
\* beginning of a compound command parses.
CutShortFails(tree, style) ==
  LET text == Text(tree, style)
  IN tree.kind \in {"for", "while", "if", "case", "group"} /\ ~tree.negated /\ tree.redirs = <<>>
       => \A n \in 1..Len(text) - 1 : Parse(SubSeq(text, 1, n)) = Failed
=============================================================================
