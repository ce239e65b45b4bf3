------------------------------ MODULE ShellLex ------------------------------
(***************************************************************************)
(* The lexer (breezybox/shell/sh_lex.c), with the ends the expander finds  *)
(* for what the lexer left in a word (do_dollar of sh_expand.c).  A text   *)
(* is a sequence of characters.  The second half writes words and tokens.  *)
(***************************************************************************)
EXTENDS Integers, Sequences, SequencesExt

CONSTANTS
  Digits,      \* the digits, from 0 on
  MaxPending   \* here-documents one line can introduce (8)

Blanks == {" ", "tab", "cr"}
NL == "newline"
OpChars == {";", "&", "|", "<", ">", "(", ")"}
\* Longest first: what the code tries in this order.
Redirections == << <<"<", "<", "-">>, <<"<", "<">>, <<"<", "&">>, <<"<">>,
                   <<">", ">">>, <<">", "&">>, <<">", "|">>, <<">">> >>
HereDocs == {Redirections[1], Redirections[2]}

Word(text) == [type |-> "word", text |-> text, fd |-> -1, quoted |-> FALSE]
Op(type, fd) == [type |-> type, text |-> <<>>, fd |-> fd, quoted |-> FALSE]
At(s, j) == IF j \in DOMAIN s THEN s[j] ELSE "end"
Piece(s, i, j) == SubSeq(s, i, j - 1)

\* The first position from j on that holds c, or the end.
RECURSIVE Find(_, _, _)
Find(s, j, c) == IF At(s, j) \in {c, "end"} THEN j ELSE Find(s, j + 1, c)
Past(s, j, c) == IF At(s, j) = c THEN j + 1 ELSE j

\* The mistake of counting parentheses within quotes.
RECURSIVE MutantCmdsubEnd(_, _, _, _)
MutantCmdsubEnd(s, j, depth, nested) ==
  LET d == CASE At(s, j) = "(" -> depth + 1 [] At(s, j) = ")" -> depth - 1 [] OTHER -> depth
  IN IF depth = 0 \/ At(s, j) = "end" THEN j
     ELSE MutantCmdsubEnd(s, j + 1, d, nested)

\* scan_cmdsub past its "$(" and the double quotes in it.  The expander does
\* not look into double quotes (nested = FALSE) and stops at the closing one.
RECURSIVE DoubleEnd(_, _, _), CmdsubEnd(_, _, _, _)
DoubleEnd(s, j, nested) ==
  CASE At(s, j) \in {"\"", "end"} -> j
    [] nested /\ At(s, j) = "$" /\ At(s, j + 1) = "(" -> DoubleEnd(s, CmdsubEnd(s, j + 2, 1, TRUE), nested)
    [] At(s, j) = "\\" /\ At(s, j + 1) # "end" -> DoubleEnd(s, j + 2, nested)
    [] OTHER -> DoubleEnd(s, j + 1, nested)
\* Past quotes or an escape at j; j when there are none.
SkipQuoted(s, j, nested) ==
  CASE At(s, j) = "'" -> Past(s, Find(s, j + 1, "'"), "'")
    [] At(s, j) = "\"" -> Past(s, DoubleEnd(s, j + 1, nested), "\"")
    [] At(s, j) = "\\" /\ At(s, j + 1) # "end" -> j + 2
    [] OTHER -> j
CmdsubEnd(s, j, depth, nested) ==
  LET q == SkipQuoted(s, j, nested)
      d == CASE At(s, j) = "(" -> depth + 1 [] At(s, j) = ")" -> depth - 1 [] OTHER -> depth
  IN IF depth = 0 \/ At(s, j) = "end" THEN j
     ELSE IF q # j THEN CmdsubEnd(s, q, depth, nested)
     ELSE CmdsubEnd(s, j + 1, d, nested)

\* The parentheses of $( ) within ${ }, as the expander counts them.
RECURSIVE PlainEnd(_, _, _)
PlainEnd(s, j, depth) ==
  IF depth = 0 \/ At(s, j) = "end" THEN j
  ELSE PlainEnd(s, j + 1, CASE s[j] = "(" -> depth + 1 [] s[j] = ")" -> depth - 1 [] OTHER -> depth)

\* scan_braceparam past its "${", and the scan of do_dollar (lexer = FALSE).
RECURSIVE BraceEnd(_, _, _, _)
BraceEnd(s, j, depth, lexer) ==
  LET q == SkipQuoted(s, j, FALSE)
      cmd == IF lexer THEN CmdsubEnd(s, j + 2, 1, TRUE) ELSE PlainEnd(s, j + 2, 1)
  IN IF depth = 0 \/ At(s, j) = "end" THEN j
     ELSE IF q # j THEN BraceEnd(s, q, depth, lexer)
     ELSE IF s[j] = "$" /\ At(s, j + 1) = "(" THEN BraceEnd(s, cmd, depth, lexer)
     ELSE IF s[j] = "$" /\ At(s, j + 1) = "{" THEN BraceEnd(s, j + 2, depth + 1, lexer)
     ELSE BraceEnd(s, j + 1, CASE s[j] = "{" -> depth + 1 [] s[j] = "}" -> depth - 1 [] OTHER -> depth,
                   lexer)

\* Where the expander ends a $( ) and a ${ }.
CutCmdsub(s) == CmdsubEnd(s, 3, 1, FALSE)
CutBrace(s) == BraceEnd(s, 3, 1, FALSE)

\* What scan_backtick makes of the text from j, after the opening backtick:
\* [j, w], the text appended to w.
RECURSIVE BacktickRest(_, _, _)
BacktickRest(s, j, w) ==
  LET escaped == At(s, j) = "\\" /\ At(s, j + 1) \in {"tick", "\\", "$"}
  IN IF At(s, j) \in {"tick", "end"} THEN [j |-> Past(s, j, "tick"), w |-> Append(w, ")")]
     ELSE IF escaped THEN BacktickRest(s, j + 2, Append(w, s[j + 1]))
     ELSE BacktickRest(s, j + 1, Append(w, s[j]))
ScanBacktick(s, j, w) ==
  BacktickRest(s, j + 1, w \o <<"$", "(">> \o (IF At(s, j + 1) = "(" THEN <<" ">> ELSE <<>>))

\* Both loops of scan_word: [j, w, ok].
RECURSIVE WordRest(_, _, _, _)
WordRest(s, j, w, quoted) ==
  LET c == At(s, j)
      copy(k) == WordRest(s, k, w \o Piece(s, j, k), quoted)
      single == Find(s, j + 1, "'")
      tick == ScanBacktick(s, j, w)
  IN IF c = "end" THEN [j |-> j, w |-> w, ok |-> ~quoted]
     ELSE IF ~quoted /\ c \in {" ", "tab", NL} \cup OpChars THEN [j |-> j, w |-> w, ok |-> TRUE]
     ELSE IF c = "\"" THEN WordRest(s, j + 1, Append(w, c), ~quoted)
     ELSE IF c = "\\" /\ At(s, j + 1) = NL THEN WordRest(s, j + 2, w, quoted)
     ELSE IF c = "\\" /\ At(s, j + 1) # "end" THEN copy(j + 2)
     ELSE IF c = "tick" THEN WordRest(s, tick.j, tick.w, quoted)
     ELSE IF c = "$" /\ At(s, j + 1) = "(" THEN copy(CmdsubEnd(s, j + 2, 1, TRUE))
     ELSE IF c = "$" /\ At(s, j + 1) = "{" /\ ~quoted THEN copy(BraceEnd(s, j + 2, 1, TRUE))
     ELSE IF c = "'" /\ ~quoted
          THEN IF At(s, single) = "end" THEN [j |-> single, w |-> w, ok |-> FALSE] ELSE copy(single + 1)
     ELSE copy(j + 1)

\* heredoc_delim: [delim, quoted].
RECURSIVE Delimiter(_, _, _)
Delimiter(s, j, d) ==
  LET c == At(s, j)
      end == Find(s, j + 1, c)
  IN IF c = "end" THEN d
     ELSE IF c \in {"'", "\""}
          THEN Delimiter(s, Past(s, end, c), [delim |-> d.delim \o Piece(s, j + 1, end), quoted |-> TRUE])
     ELSE IF c = "\\" /\ At(s, j + 1) # "end"
          THEN Delimiter(s, j + 2, [delim |-> Append(d.delim, s[j + 1]), quoted |-> TRUE])
     ELSE Delimiter(s, j + 1, [d EXCEPT !.delim = Append(@, c)])

\* collect_heredoc: [i, body].
RECURSIVE Collect(_, _, _, _, _), TabsEnd(_, _)
TabsEnd(s, j) == IF At(s, j) = "tab" THEN TabsEnd(s, j + 1) ELSE j
Collect(s, j, delim, dash, body) ==
  LET start == IF dash THEN TabsEnd(s, j) ELSE j
      end == Find(s, start, NL)
      line == Piece(s, start, end)
      more == Append(body \o line, NL)
  IN IF At(s, j) = "end" THEN [i |-> j, body |-> body]
     ELSE IF line = delim THEN [i |-> Past(s, end, NL), body |-> body]
     ELSE IF At(s, end) = "end" THEN [i |-> end, body |-> more]
     ELSE Collect(s, end + 1, delim, dash, more)

\* The bodies of the documents a line introduced, in turn.
CollectAll(s, m) ==
  LET one(acc, t) ==
        LET d == Delimiter(m.toks[t + 1].text, 1, [delim |-> <<>>, quoted |-> FALSE])
            c == Collect(s, acc.i, d.delim, m.toks[t].type = Redirections[1], <<>>)
        IN [acc EXCEPT !.i = c.i, !.toks[t].text = c.body, !.toks[t].quoted = d.quoted]
  IN [FoldLeft(one, m, m.pend) EXCEPT !.pend = <<>>]

\* lex_redir at m.i, for the descriptor fd (-1 when none is written).
LexRedir(s, m, fd) ==
  LET here(r) == \A i \in DOMAIN r : At(s, m.i + i - 1) = r[i]
      n == CHOOSE k \in DOMAIN Redirections : /\ here(Redirections[k])
                                              /\ \A l \in 1..k - 1 : ~here(Redirections[l])
      op == Redirections[n]
      default == IF op[1] = "<" THEN 0 ELSE 1
      doc == op \in HereDocs
      pending == doc /\ Len(m.pend) < MaxPending
  IN [m EXCEPT !.i = @ + Len(op),
        !.toks = Append(@, Op(op, IF doc THEN -1 ELSE IF fd < 0 THEN default ELSE fd)),
        !.pend = IF pending THEN Append(@, Len(m.toks) + 1) ELSE @]

DigitsEnd(s, j) ==
  CHOOSE k \in j..Len(s) + 1 : /\ \A i \in j..k - 1 : s[i] \in ToSet(Digits)
                               /\ At(s, k) \notin ToSet(Digits)
\* The number a run of digits writes (the descriptors of the runs are short).
Value(text) == FoldLeft(LAMBDA v, c : 10 * v + (CHOOSE d \in DOMAIN Digits : Digits[d] = c) - 1, 0, text)

\* sh_lex: [i, toks, pend, ok].
RECURSIVE LexFrom(_, _)
LexFrom(s, m) ==
  LET c == At(s, m.i)
      two == <<c, At(s, m.i + 1)>>
      to(j) == LexFrom(s, [m EXCEPT !.i = j])
      op(o) == LexFrom(s, [m EXCEPT !.i = @ + Len(o), !.toks = Append(@, Op(o, -1))])
      digits == DigitsEnd(s, m.i)
      word == WordRest(s, m.i, <<>>, FALSE)
  IN IF c = "end" THEN m
     ELSE IF c \in Blanks THEN to(m.i + 1)
     ELSE IF two = <<"\\", NL>> THEN to(m.i + 2)
     ELSE IF c = "#" THEN to(Find(s, m.i, NL))
     ELSE IF c = NL
          THEN LexFrom(s, CollectAll(s, [m EXCEPT !.i = @ + 1, !.toks = Append(@, Op(<<NL>>, -1))]))
     ELSE IF two \in {<<";", ";">>, <<"&", "&">>, <<"|", "|">>} THEN op(two)
     ELSE IF c = "&" THEN to(m.i + 1)
     ELSE IF c \in {";", "(", ")", "|"} THEN op(<<c>>)
     ELSE IF c \in {"<", ">"} THEN LexFrom(s, LexRedir(s, m, -1))
     ELSE IF digits > m.i /\ At(s, digits) \in {"<", ">"}
          THEN LexFrom(s, LexRedir(s, [m EXCEPT !.i = digits], Value(Piece(s, m.i, digits))))
     ELSE IF ~word.ok THEN [m EXCEPT !.ok = FALSE]
     ELSE LexFrom(s, [m EXCEPT !.i = word.j, !.toks = Append(@, Word(word.w))])
Lex(s) == LexFrom(s, [i |-> 1, toks |-> <<>>, pend |-> <<>>, ok |-> TRUE])

-----------------------------------------------------------------------------
(* Words as they are meant: a sequence of segments.  Within $( ) and ${ }  *)
(* there are segments again; only $( ) may hold blanks and parentheses.    *)

Plain(s) == [kind |-> "plain", s |-> s]
Escape(c) == [kind |-> "escape", c |-> c]
Single(s) == [kind |-> "single", s |-> s]
Double(segs) == [kind |-> "double", segs |-> segs]
Cmdsub(segs) == [kind |-> "cmdsub", segs |-> segs]
Brace(segs) == [kind |-> "brace", segs |-> segs]
Paren(segs) == [kind |-> "paren", segs |-> segs]
Backtick(s) == [kind |-> "backtick", s |-> s]
Continued == [kind |-> "continued"]

\* The text of a segment in the source, and in the word the lexer makes of it.
RECURSIVE Write(_, _)
WriteAll(segs, source) == FoldLeft(LAMBDA s, g : s \o Write(g, source), <<>>, segs)
Write(g, source) ==
  CASE g.kind = "plain" -> g.s
    [] g.kind = "escape" -> <<"\\", g.c>>
    [] g.kind = "single" -> <<"'">> \o g.s \o <<"'">>
    [] g.kind = "double" -> <<"\"">> \o WriteAll(g.segs, source) \o <<"\"">>
    [] g.kind = "cmdsub" -> <<"$", "(">> \o WriteAll(g.segs, source) \o <<")">>
    [] g.kind = "paren" -> <<"(">> \o WriteAll(g.segs, source) \o <<")">>
    [] g.kind = "brace" -> <<"$", "{">> \o WriteAll(g.segs, source) \o <<"}">>
    [] g.kind = "backtick" /\ source -> <<"tick">> \o g.s \o <<"tick">>
    [] g.kind = "backtick" -> <<"$", "(">> \o (IF At(g.s, 1) = "(" THEN <<" ">> ELSE <<>>) \o g.s \o <<")">>
    [] g.kind = "continued" -> IF source THEN <<"\\", NL>> ELSE <<>>

\* Words and operators come back from a line, whatever the words quote or
\* nest and whatever blanks, continuations and comments are between them: a
\* word ends where its writer ended it (scan_word, scan_cmdsub, scan_braceparam).
LexesBack(words, ops, blank) ==
  LET text == FoldLeft(LAMBDA s, k : s \o blank \o WriteAll(words[k], TRUE) \o blank \o ops[k],
                       <<>>, [k \in DOMAIN words |-> k]) \o <<" ", "#", "'">>
      token(o) == IF Head(o) \in ToSet(Digits) THEN Op(Tail(o), Value(<<Head(o)>>))
                  ELSE Op(o, IF o \notin ToSet(Redirections) THEN -1 ELSE IF Head(o) = "<" THEN 0 ELSE 1)
      tokens == FoldLeft(LAMBDA s, k : s \o <<Word(WriteAll(words[k], FALSE)), token(ops[k])>>,
                         <<>>, [k \in DOMAIN words |-> k])
      m == Lex(text)
  IN m.ok /\ m.toks = tokens

\* The expander cuts a $( ) or ${ } out of a word where the lexer found its
\* end, so no part of it is left over or lost (the scans of do_dollar).
ExtentsAgree(g, tail) ==
  LET s == Write(g, FALSE) \o tail
      end == Len(Write(g, FALSE)) + 1
  IN CASE g.kind = "cmdsub" -> /\ CmdsubEnd(s, 3, 1, TRUE) = end
                               /\ CutCmdsub(s) = end
       [] g.kind = "brace" -> BraceEnd(s, 3, 1, TRUE) = end /\ CutBrace(s) = end
       [] OTHER -> TRUE

\* The documents of a line get their own bodies, in the order of their
\* operators, and the line after the last delimiter is a command again
\* (heredoc_delim, collect_heredoc).  A document: its operator, the word of
\* its delimiter, the delimiter, its lines.
HereDocsInOrder(docs) ==
  LET lines(d) == FoldLeft(LAMBDA s, l : s \o l \o <<NL>>, <<>>, d.lines)
      stripped(d) == FoldLeft(LAMBDA s, l : s \o (IF d.dash /\ At(l, 1) = "tab" THEN Tail(l) ELSE l) \o <<NL>>,
                              <<>>, d.lines)
      operator(d) == IF d.dash THEN Redirections[1] ELSE Redirections[2]
      heads == FoldLeft(LAMBDA s, d : s \o operator(d) \o WriteAll(d.word, TRUE) \o <<" ">>, <<>>, docs)
      bodies == FoldLeft(LAMBDA s, d : s \o lines(d) \o (IF d.dash THEN <<"tab">> ELSE <<>>) \o d.delim \o <<NL>>,
                         <<>>, docs)
      tokens == FlattenSeq([k \in DOMAIN docs |->
                   << [Op(operator(docs[k]), -1) EXCEPT !.text = stripped(docs[k]), !.quoted = docs[k].quoted],
                      Word(WriteAll(docs[k].word, FALSE)) >>])
  IN Len(docs) <= MaxPending =>
       Lex(heads \o <<NL>> \o bodies \o <<"a">>).toks = tokens \o <<Op(<<NL>>, -1), Word(<<"a">>)>>
=============================================================================
