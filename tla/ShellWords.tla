----------------------------- MODULE ShellWords -----------------------------
(***************************************************************************)
(* Expansion of a word into fields (breezybox/shell/sh_expand.c): the      *)
(* parameter operators, $@ and $*, and field splitting as the code does    *)
(* it, part by part into a growing field.                                  *)
(*                                                                         *)
(* A word is a sequence of parts.  A string is a sequence of characters.   *)
(* The second half expands the word as a whole and splits it afterwards.   *)
(***************************************************************************)
EXTENDS Integers, Sequences, FiniteSets, SequencesExt

CONSTANTS
  Whitespace,  \* the characters that are IFS whitespace wherever IFS has them
  Digits       \* the numerals, from 0 on, each one character

Unset == <<"unset">>
NonEmpty(s) == s # <<>>
First(s) == SubSeq(s, 1, IF s = <<>> THEN 0 ELSE 1)

\* The parts of a word.  The text within double quotes is parts again; the
\* operator of ${name op word} is one of Operators, or "" when there is none.
Lit(s) == [kind |-> "lit", s |-> s]
Quote(s) == [kind |-> "quote", s |-> s]
Double(parts) == [kind |-> "double", parts |-> parts]
Par(name, op, word) == [kind |-> "par", name |-> name, op |-> op, word |-> word]
At == [kind |-> "at"]
Star == [kind |-> "star"]
Tilde == [kind |-> "tilde"]
Operators == {"", "#", "-", ":-", "+", ":+", "=", ":=", "?", ":?"}
Colon(op) == op \in {":-", ":+", ":=", ":?"}

\* sh_state: variables, positional parameters, set -u, a pending exit.
\* The field being built (fld) and those complete (sh_fields) ride along.
Start(st) == [st |-> st, buf |-> <<>>, started |-> FALSE, out |-> <<>>]
Put(b, s) == [b EXCEPT !.buf = @ \o s, !.started = @ \/ NonEmpty(s)]
EmitForce(b) == [b EXCEPT !.out = Append(@, b.buf), !.buf = <<>>, !.started = FALSE]
Emit(b) == IF b.started THEN EmitForce(b) ELSE b
Abort(b) == [b EXCEPT !.st.exiting = TRUE]

IFS(st) == IF st.vars["IFS"] = Unset THEN Whitespace ELSE ToSet(st.vars["IFS"])

\* How many of the first characters of s are in set.
Span(s, set) ==
  CHOOSE n \in 0..Len(s) : /\ \A i \in 1..n : s[i] \in set
                           /\ n < Len(s) => s[n + 1] \notin set
Drop(s, n) == SubSeq(s, n + 1, Len(s))

\* What follows one delimiter: whitespace, at most one other, whitespace.
AfterDelimiter(s, ifs) ==
  LET ws == ifs \cap Whitespace
      t == Drop(s, Span(s, ws))
  IN IF t # <<>> /\ t[1] \in ifs THEN Drop(Tail(t), Span(Tail(t), ws)) ELSE t

RECURSIVE SplitFrom(_, _, _)
SplitFrom(b, s, ifs) ==
  LET n == CHOOSE k \in 0..Len(s) : /\ \A i \in 1..k : s[i] \notin ifs
                                    /\ k < Len(s) => s[k + 1] \in ifs
      filled == Put(b, SubSeq(s, 1, n))
      rest == AfterDelimiter(Drop(s, n), ifs)
  IN IF n = Len(s) THEN filled
     ELSE IF rest = <<>> THEN EmitForce(filled)
     ELSE SplitFrom(EmitForce(filled), rest, ifs)

\* The mistake of dropping leading whitespace in the middle of a word too.
MutantAppendVal(b, v, split, ifs) ==
  IF ~split THEN Put(b, v) ELSE SplitFrom(b, Drop(v, Span(v, ifs \cap Whitespace)), ifs)

AppendVal(b, v, split, ifs) ==
  IF ~split THEN Put(b, v)
  ELSE SplitFrom(b, IF b.started THEN v ELSE Drop(v, Span(v, ifs \cap Whitespace)), ifs)

\* param_raw: a positional or special parameter, or a variable.
ParamRaw(st, name) ==
  CASE name = "#" -> <<Digits[Len(st.pos) + 1]>>
    [] name \in {Digits[i] : i \in DOMAIN Digits} ->
         LET n == CHOOSE i \in DOMAIN Digits : Digits[i] = name
         IN IF n - 1 \in DOMAIN st.pos THEN st.pos[n - 1] ELSE Unset
    [] OTHER -> st.vars[name]
Positional(name) == name = "#" \/ name \in {Digits[i] : i \in DOMAIN Digits}

ExpandAtStar(b, star, quoted, split, ifs) ==
  LET pos == b.st.pos
      separator == IF b.st.vars["IFS"] = Unset THEN <<" ">>
                   ELSE First(b.st.vars["IFS"])
      joined == FoldLeft(LAMBDA s, i : s \o (IF i = 1 THEN <<>> ELSE separator) \o pos[i],
                         <<>>, [i \in DOMAIN pos |-> i])
      next(acc, i) ==
        LET e == IF i = 1 THEN acc ELSE Emit(acc)
        IN IF quoted THEN [Put(e, pos[i]) EXCEPT !.started = TRUE]
           ELSE AppendVal(e, pos[i], split, ifs)
  IN IF star /\ quoted THEN Put(b, joined)
     ELSE FoldLeft(next, b, [i \in DOMAIN pos |-> i])

RECURSIVE ExpandPart(_, _, _, _), ExpandSingle(_, _, _)

Expand(b, parts, split, quoted) ==
  FoldLeft(LAMBDA acc, p : ExpandPart(acc, p, split, quoted), b, parts)

\* sh_expand_single: one string, the state after it.
ExpandSingle(st, parts, quoted) ==
  LET b == Emit(Expand(Start(st), parts, FALSE, quoted))
  IN [st |-> b.st,
      v |-> FoldLeft(LAMBDA s, i : s \o (IF i = 1 THEN <<>> ELSE <<" ">>) \o b.out[i],
                     <<>>, [i \in DOMAIN b.out |-> i])]

\* $name, ${name} and ${#name}.
ExpandName(b, p, split) ==
  LET val == ParamRaw(b.st, p.name)
      set == IF val = Unset THEN <<>> ELSE val
  IN IF val = Unset /\ b.st.nounset THEN Abort(b)
     ELSE AppendVal(b, IF p.op = "#" THEN <<Digits[Len(set) + 1]>> ELSE set, split, IFS(b.st))

\* ${name op word}, for the operators that choose between value and word.
ExpandPar(b, p, split, quoted) ==
  LET val == ParamRaw(b.st, p.name)
      ifs == IFS(b.st)
      active == val = Unset \/ (Colon(p.op) /\ val = <<>>)
      word == ExpandSingle(b.st, p.word, quoted)
      w == [b EXCEPT !.st = word.st]
  IN CASE p.op \in {"+", ":+"} -> IF active THEN b ELSE AppendVal(w, word.v, split, ifs)
       [] ~active -> AppendVal(b, val, split, ifs)
       [] p.op \in {"-", ":-"} -> AppendVal(w, word.v, split, ifs)
       [] p.op \in {"=", ":="} ->
            AppendVal(IF Positional(p.name) THEN w ELSE [w EXCEPT !.st.vars[p.name] = word.v],
                      word.v, split, ifs)
       [] OTHER -> Abort(w)

ExpandPart(b, p, split, quoted) ==
  CASE p.kind = "lit" -> Put(b, p.s)
    [] p.kind = "quote" -> [Put(b, p.s) EXCEPT !.started = TRUE]
    [] p.kind = "double" -> Expand([b EXCEPT !.started = TRUE], p.parts, FALSE, TRUE)
    [] p.kind = "tilde" -> IF quoted \/ b.st.vars["HOME"] = Unset THEN Put(b, <<"~">>)
                           ELSE [Put(b, b.st.vars["HOME"]) EXCEPT !.started = TRUE]
    [] p.kind \in {"at", "star"} -> ExpandAtStar(b, p.kind = "star", quoted, split, IFS(b.st))
    [] p.kind = "par" -> IF p.op \in {"", "#"} THEN ExpandName(b, p, split)
                         ELSE ExpandPar(b, p, split, quoted)

\* sh_expand_word without pathname expansion.
ExpandWord(st, word) ==
  LET b == Emit(Expand(Start(st), word, TRUE, FALSE)) IN [st |-> b.st, fields |-> b.out]

-----------------------------------------------------------------------------
(* The read builtin: characters with the escaped ones marked, split into   *)
(* at most nv values.                                                      *)

\* The line up to its end: what a backslash makes of the characters.
RECURSIVE Logical(_, _)
Logical(s, raw) ==
  IF s = <<>> \/ (s = <<"\\">> /\ ~raw) THEN <<>>
  ELSE IF s[1] = "\\" /\ ~raw
       THEN (IF s[2] = "newline" THEN <<>> ELSE << [c |-> s[2], esc |-> TRUE] >>)
              \o Logical(Drop(s, 2), raw)
  ELSE << [c |-> s[1], esc |-> FALSE] >> \o Logical(Tail(s), raw)

\* One character of read_split_assign.  `space`: the last field was ended by
\* whitespace; `cut`: where the trailing characters to drop begin, or 0.
ReadChar(m, i, line, ifs) ==
  LET delim == ~line[i].esc /\ line[i].c \in ifs
      blank == delim /\ line[i].c \in Whitespace
      begun == [m EXCEPT !.start = IF delim THEN i + 1 ELSE i]
      ended == [m EXCEPT !.space = blank, !.left = @ - 1]
  IN IF m.left = 0
     THEN IF blank THEN [m EXCEPT !.cut = IF @ = 0 THEN i ELSE @]
          ELSE [m EXCEPT !.cut = IF delim /\ m.space THEN @ ELSE 0, !.space = FALSE]
     ELSE IF m.space THEN IF blank THEN begun ELSE [begun EXCEPT !.space = FALSE]
     ELSE IF ~delim THEN [m EXCEPT !.space = FALSE]
     ELSE IF blank /\ m.start = i THEN [m EXCEPT !.start = i + 1]
     ELSE IF m.left = 1 THEN [ended EXCEPT !.cut = i]
     ELSE [ended EXCEPT !.start = i + 1, !.fields = Append(@, SubSeq(line, m.start, i - 1))]

ReadSplit(line, nv, ifs) ==
  LET m == FoldLeft(LAMBDA acc, i : ReadChar(acc, i, line, ifs),
                    [start |-> 1, space |-> FALSE, left |-> nv, cut |-> 0, fields |-> <<>>],
                    [i \in DOMAIN line |-> i])
      end == IF m.cut # 0 THEN m.cut - 1 ELSE Len(line)
      fields == IF m.start <= end THEN Append(m.fields, SubSeq(line, m.start, end)) ELSE m.fields
      text(f) == [i \in DOMAIN f |-> f[i].c]
  IN [i \in 1..nv |-> IF i \in DOMAIN fields THEN text(fields[i]) ELSE <<>>]

-----------------------------------------------------------------------------
(* A word's meaning: a sequence of items, each a character, a mark of      *)
(* quotes or a break between two parameters.  A character is split on when *)
(* it comes from an expansion outside quotes; `from` tells expansions      *)
(* apart.                                                                  *)

Char(c, split, from) == [c |-> c, split |-> split, from |-> from]
Mark == [c |-> "mark", split |-> FALSE, from |-> 0]
Break == [c |-> "break", split |-> TRUE, from |-> 0]
Chars(s, split, from) == [i \in DOMAIN s |-> Char(s[i], split, from)]
Contents(items) == SelectSeq([i \in DOMAIN items |-> items[i].c], LAMBDA c : c # "mark")

\* One expansion at a time, in order: [st, items].
RECURSIVE Items(_, _, _)
Item(m, p, quoted) ==
  LET st == m.st
      from == Len(m.items) + 1
      plain(s) == [m EXCEPT !.items = @ \o Chars(s, ~quoted, from)]
      val == ParamRaw(st, p.name)
      none == val = Unset \/ (Colon(p.op) /\ val = <<>>)
      word == Items([st |-> st, items |-> <<>>], p.word, quoted)
      value == Contents(word.items)
      use(s, st1) == [st |-> st1, items |-> m.items \o Chars(s, ~quoted, from)]
      param(i) == (IF quoted THEN <<Mark>> ELSE <<>>) \o Chars(st.pos[i], ~quoted, from + i)
  IN CASE p.kind = "lit" -> [m EXCEPT !.items = @ \o Chars(p.s, FALSE, 0)]
       [] p.kind = "quote" -> [m EXCEPT !.items = @ \o <<Mark>> \o Chars(p.s, FALSE, 0)]
       [] p.kind = "double" -> Items([m EXCEPT !.items = Append(@, Mark)], p.parts, TRUE)
       [] p.kind = "tilde" ->
            [m EXCEPT !.items = @ \o
               IF quoted \/ st.vars["HOME"] = Unset THEN Chars(<<"~">>, FALSE, 0)
               ELSE <<Mark>> \o Chars(st.vars["HOME"], FALSE, 0)]
       [] p.kind = "star" /\ quoted ->
            [m EXCEPT !.items = @ \o Chars(FoldLeft(LAMBDA s, i :
               s \o (IF i = 1 THEN <<>> ELSE IF st.vars["IFS"] = Unset THEN <<" ">>
                     ELSE First(st.vars["IFS"])) \o st.pos[i],
               <<>>, [i \in DOMAIN st.pos |-> i]), FALSE, 0)]
       [] p.kind \in {"at", "star"} ->
            [m EXCEPT !.items = @ \o FlattenSeq([i \in DOMAIN st.pos |->
               (IF i = 1 THEN <<>> ELSE <<Break>>) \o param(i)])]
       [] p.kind = "par" /\ p.op \in {"", "#"} /\ val = Unset /\ st.nounset ->
            [m EXCEPT !.st.exiting = TRUE]
       [] p.kind = "par" /\ p.op = "" -> plain(IF val = Unset THEN <<>> ELSE val)
       [] p.kind = "par" /\ p.op = "#" ->
            plain(<<Digits[1 + IF val = Unset THEN 0 ELSE Len(val)]>>)
       [] p.kind = "par" /\ p.op \in {"+", ":+"} -> IF none THEN m ELSE use(value, word.st)
       [] ~none -> plain(val)
       [] p.op \in {"-", ":-"} -> use(value, word.st)
       [] p.op \in {"=", ":="} ->
            use(value, IF Positional(p.name) THEN word.st
                       ELSE [word.st EXCEPT !.vars[p.name] = value])
       [] OTHER -> [m EXCEPT !.st = [word.st EXCEPT !.exiting = TRUE]]
Items(m, parts, quoted) == FoldLeft(LAMBDA acc, p : Item(acc, p, quoted), m, parts)

\* Split the whole: each run of delimiters that one expansion yields ends a
\* field, and each of its non-whitespace delimiters but the first is one more.
RECURSIVE Fields(_, _)
Fields(items, ifs) ==
  LET delimits(i) == items[i] = Break \/ (items[i].split /\ items[i].c \in ifs)
      ends == {i \in DOMAIN items : delimits(i)}
      first == CHOOSE i \in ends : \A j \in ends : i <= j
      last == CHOOSE i \in first..Len(items) :
                /\ \A j \in first..i : delimits(j) /\ items[j].from = items[first].from
                /\ i < Len(items) => ~(delimits(i + 1) /\ items[i + 1].from = items[first].from)
      others == Cardinality({i \in first..last : items[i].c \notin Whitespace \cup {"break"}})
      content == SubSeq(items, 1, first - 1)
  IN IF ends = {} THEN IF items = <<>> THEN <<>> ELSE << Contents(items) >>
     ELSE (IF content # <<>> \/ others > 0 THEN << Contents(content) >> ELSE <<>>)
            \o [i \in 1..others - 1 |-> <<>>]
            \o Fields(SubSeq(items, last + 1, Len(items)), ifs)

\* A word expands to the fields its whole value splits into, whatever its
\* parts are and however their values begin and end; assignments made on the
\* way are seen by the parts after them (append_val, do_brace, expand_at_star).
SplitsAsWhole(st, word) ==
  LET code == ExpandWord(st, word)
      m == Items([st |-> st, items |-> <<>>], word, FALSE)
  IN /\ code.fields = Fields(m.items, IFS(st))
     /\ code.st = m.st

\* read gives each name the field of the line that splitting would give it,
\* nothing when there are fewer, and the last one all that is left when there
\* are more, without the whitespace at its end (read_split_assign).
ReadsFields(raw, keep, nv, ifs) ==
  LET line == Logical(raw, keep)
      items(n) == [i \in 1..n |-> Char(line[i].c, ~line[i].esc, 1)]
      fields(n) == Fields(items(n), ifs)
      all == fields(Len(line))
      got == ReadSplit(line, nv, ifs)
      before == CHOOSE k \in 0..Len(line) :
                  /\ fields(k) = SubSeq(all, 1, nv - 1)
                  /\ \A j \in k + 1..Len(line) : fields(j) # SubSeq(all, 1, nv - 1)
      blank(i) == ~line[i].esc /\ line[i].c \in ifs \cap Whitespace
      end == CHOOSE k \in 0..Len(line) : /\ \A j \in k + 1..Len(line) : blank(j)
                                         /\ k > 0 => ~blank(k)
  IN IF Len(all) <= nv
     THEN got = [i \in 1..nv |-> IF i \in DOMAIN all THEN all[i] ELSE <<>>]
     ELSE got = Append(SubSeq(all, 1, nv - 1), [i \in 1..end - before |-> line[before + i].c])

\* "$@" without parameters vanishes, alone in its word (expand_at_star).
NoParametersNoField(st) ==
  st.pos = <<>> => ExpandWord(st, <<Double(<<At>>)>>).fields = <<>>
=============================================================================
