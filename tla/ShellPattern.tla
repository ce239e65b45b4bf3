---------------------------- MODULE ShellPattern ----------------------------
(***************************************************************************)
(* Patterns (breezybox/shell/sh_glob.c): matching a string, removing a     *)
(* matching prefix or suffix, pathname expansion.                          *)
(*                                                                         *)
(* Strings are sequences of characters.  The second half defines what a    *)
(* pattern means from its parts, without scanning its text.                *)
(***************************************************************************)
EXTENDS Integers, Sequences, FiniteSetsExt, SequencesExt

CONSTANTS
  Code,          \* the code of each character
  ClassMembers,  \* name of a class |-> its characters
  Directories    \* path of a directory |-> the names in it

NUL == "nul"
At(p, i) == IF i \in 1..Len(p) THEN p[i] ELSE NUL
Class(name) == IF name \in DOMAIN ClassMembers THEN ClassMembers[name] ELSE {}
From(s, i) == SubSeq(s, i, Len(s))

\* Where the ":]" of a class begins that is open at i; 0 when there is none.
ClassEnd(p, i) ==
  Min({j \in i..Len(p) : At(p, j) = ":" /\ At(p, j + 1) = "]"} \cup {Len(p) + 1})
    % (Len(p) + 1)

\* The members of a bracket expression from i on, and where the text after
\* it begins: 0 when it is not terminated.
RECURSIVE BracketFrom(_, _, _)
BracketFrom(p, i, start) ==
  LET end == IF At(p, i) = "[" /\ At(p, i + 1) = ":" THEN ClassEnd(p, i + 2) ELSE 0
      range == At(p, i + 1) = "-" /\ At(p, i + 2) \notin {NUL, "]"}
      add(set, next) == LET rest == BracketFrom(p, next, start)
                        IN [rest EXCEPT !.set = @ \cup set]
  IN IF At(p, i) = NUL THEN [set |-> {}, next |-> 0]
     ELSE IF At(p, i) = "]" /\ i # start THEN [set |-> {}, next |-> i + 1]
     ELSE IF end # 0 THEN add(Class(SubSeq(p, i + 2, end - 1)), end + 2)
     ELSE IF range
          THEN add({c \in DOMAIN Code : Code[p[i]] <= Code[c] /\ Code[c] <= Code[p[i + 2]]},
                   i + 3)
     ELSE add({p[i]}, i + 1)

\* A bracket closed by its first "]", the leading one included.
MutantBracketMatch(p, i) ==
  LET negate == At(p, i) \in {"!", "^"}
      start == IF negate THEN i + 1 ELSE i
      b == BracketFrom(p, start, 0)
  IN IF negate THEN [b EXCEPT !.set = DOMAIN Code \ @] ELSE b

BracketMatch(p, i) ==
  LET negate == At(p, i) \in {"!", "^"}
      start == IF negate THEN i + 1 ELSE i
      b == BracketFrom(p, start, start)
  IN IF negate THEN [b EXCEPT !.set = DOMAIN Code \ @] ELSE b

RECURSIVE PatternMatch(_, _)
PatternMatch(p, s) ==
  LET bracket == IF At(p, 1) = "[" THEN BracketMatch(p, 2) ELSE [set |-> {}, next |-> 0]
      escaped == At(p, 1) = "\\" /\ Len(p) > 1
      one(set, next) == s # <<>> /\ Head(s) \in set /\ PatternMatch(From(p, next), Tail(s))
  IN IF p = <<>> THEN s = <<>>
     ELSE IF bracket.next # 0 THEN one(bracket.set, bracket.next)
     ELSE IF p[1] = "*" THEN Len(p) = 1 \/ \E i \in 1..Len(s) + 1 : PatternMatch(Tail(p), From(s, i))
     ELSE IF p[1] = "?" THEN one(DOMAIN Code, 2)
     ELSE IF escaped THEN one({p[2]}, 3)
     ELSE one({p[1]}, 2)

\* ${s#p}, ${s##p}; ${s%p}, ${s%%p}.
StripPrefix(s, p, longest) ==
  LET ends == {i \in 0..Len(s) : PatternMatch(p, SubSeq(s, 1, i))}
  IN IF ends = {} THEN s ELSE From(s, 1 + IF longest THEN Max(ends) ELSE Min(ends))

StripSuffix(s, p, longest) ==
  LET kept == {i \in 0..Len(s) : PatternMatch(p, From(s, i + 1))}
  IN IF kept = {} THEN s ELSE SubSeq(s, 1, IF longest THEN Min(kept) ELSE Max(kept))

-----------------------------------------------------------------------------
(* Pathname expansion: names of one directory against the last component.  *)

\* The characters that no backslash precedes, or an escaped one.
Active(p) ==
  {i \in DOMAIN p : (i - 1 - Max({j \in 0..i - 1 : At(p, j) # "\\"})) % 2 = 0}

Before(a, b) ==
  \E i \in 1..Len(b) : /\ SubSeq(a, 1, i - 1) = SubSeq(b, 1, i - 1)
                       /\ Len(a) >= i - 1
                       /\ Len(a) >= i => Code[a[i]] < Code[b[i]]

Pathnames(p) ==
  LET meta == {i \in Active(p) : p[i] \in {"*", "?", "["}}
      slashes == {i \in Active(p) : p[i] = "/"}
      last == Max(slashes \cup {0})
      base == From(p, last + 1)
      dir == IF last = 0 THEN <<".">> ELSE IF last = 1 THEN <<"/">> ELSE SubSeq(p, 1, last - 1)
      hidden(n) == n[1] = "." /\ (base[1] # "." \/ n \in {<<".">>, <<".", ".">>})
      names == {n \in Directories[dir] : ~hidden(n) /\ PatternMatch(base, n)}
  IN IF meta = {} \/ (\E i \in meta : i < last) \/ dir \notin DOMAIN Directories
     THEN <<>>
     ELSE [i \in 1..Cardinality(names) |->
             SubSeq(p, 1, last) \o SetToSortSeq(names, Before)[i]]

-----------------------------------------------------------------------------
(* The meaning of a pattern: a sequence of parts, each a star, or one      *)
(* character out of a set; and its text.                                   *)

Star == [kind |-> "star"]
One == [kind |-> "any"]
Open == [kind |-> "open"]  \* a "[" that nothing closes
Lit(c) == [kind |-> "lit", c |-> c]
Set(neg, items) == [kind |-> "set", neg |-> neg, items |-> items]

ItemSet(item) ==
  CASE item.kind = "lit" -> {item.c}
    [] item.kind = "range" ->
         {c \in DOMAIN Code : Code[item.lo] <= Code[c] /\ Code[c] <= Code[item.hi]}
    [] item.kind = "class" -> ClassMembers[item.name]
PartSet(part) ==
  CASE part.kind = "any" -> DOMAIN Code
    [] part.kind = "lit" -> {part.c}
    [] part.kind = "open" -> {"["}
    [] part.kind = "set" ->
         LET members == UNION {ItemSet(part.items[i]) : i \in DOMAIN part.items}
         IN IF part.neg THEN DOMAIN Code \ members ELSE members

\* Cut s into pieces, one for each part.
Denotes(parts, s) ==
  \E cut \in [0..Len(parts) -> 0..Len(s)] :
    /\ cut[0] = 0 /\ cut[Len(parts)] = Len(s)
    /\ \A i \in 1..Len(parts) :
         IF parts[i] = Star THEN cut[i - 1] <= cut[i]
         ELSE cut[i] = cut[i - 1] + 1 /\ s[cut[i]] \in PartSet(parts[i])

ItemText(item) ==
  CASE item.kind = "lit" -> <<item.c>>
    [] item.kind = "range" -> <<item.lo, "-", item.hi>>
    [] item.kind = "class" -> <<"[", ":">> \o item.name \o <<":", "]">>
PartText(part) ==
  CASE part.kind = "star" -> <<"*">>
    [] part.kind = "any" -> <<"?">>
    [] part.kind = "open" -> <<"[">>
    [] part.kind = "lit" -> IF part.c \in {"*", "?", "[", "\\"} THEN <<"\\", part.c>> ELSE <<part.c>>
    [] part.kind = "set" ->
         <<"[">> \o (IF part.neg THEN <<"!">> ELSE <<>>)
           \o FlattenSeq([i \in DOMAIN part.items |-> ItemText(part.items[i])]) \o <<"]">>
Text(parts) == FlattenSeq([i \in DOMAIN parts |-> PartText(parts[i])])

\* A pattern matches exactly the strings that can be cut into pieces, one for
\* each of its parts: the scan of brackets and the backtracking over stars
\* lose and invent no match (sh_pattern_match).
MatchesByParts(parts, strings) ==
  LET p == Text(parts) IN \A s \in strings : PatternMatch(p, s) = Denotes(parts, s)

\* Removing a suffix is removing a prefix of the string and the pattern read
\* backwards, the shortest and the longest (sh_strip_suffix, sh_strip_prefix).
SuffixIsPrefixReversed(parts, strings) ==
  LET p == Text(parts)
      r == Text(Reverse(parts))
  IN \A s \in strings : \A longest \in BOOLEAN :
       StripSuffix(s, p, longest) = Reverse(StripPrefix(Reverse(s), r, longest))

\* Pathname expansion of a pattern behind a directory yields, in order, the
\* paths of the names it denotes; names with a leading dot only for a pattern
\* that begins with one (sh_glob_pathnames).
PathnamesAreNames(dir, parts) ==
  LET paths == Pathnames(dir \o Text(parts))
      in == IF dir = <<>> THEN <<".">> ELSE IF dir = <<"/">> THEN dir ELSE Front(dir)
      shown(n) == n[1] = "." => /\ parts[1] = Lit(".")
                                /\ n \notin {<<".">>, <<".", ".">>}
      globs == \E i \in DOMAIN parts : parts[i].kind # "lit"
  IN /\ Range(paths) = IF globs THEN {dir \o n : n \in {n \in Directories[in] : shown(n) /\ Denotes(parts, n)}}
                       ELSE {}
     /\ \A i, j \in DOMAIN paths : i < j => Before(paths[i], paths[j])

=============================================================================
