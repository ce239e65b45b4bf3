---------------------------- MODULE ConsoleLine ----------------------------
(***************************************************************************)
(* How a command line becomes a program's arguments (breezy_exec.c): the   *)
(* arguments of the shell, written out again for esp_console, and the      *)
(* command line of a build without the shell, which is split at |, < and   *)
(* > and parsed twice, once for programs and once for esp_console.  A line *)
(* is a sequence of characters.                                            *)
(***************************************************************************)
EXTENDS Integers, Sequences, SequencesExt

CONSTANTS MaxArgs, MaxLine    \* max_cmdline_args and max_cmdline_length of esp_console

Separator == " "
Escape == "\\"
Quotes == {"\"", "'"}

\* Of s, what a scan that stops at the first of the characters C passes by,
\* and where it stops.
Upto(s, C) == LET i == SelectInSeq(s, LAMBDA c : c \in C)
              IN  IF i = 0 THEN s ELSE SubSeq(s, 1, i - 1)
From(s, C) == SubSeq(s, Len(Upto(s, C)) + 1, Len(s))
NoSpaces(s) == LET i == SelectInSeq(s, LAMBDA c : c # Separator)
               IN  IF i = 0 THEN <<>> ELSE SubSeq(s, i, Len(s))
Trim(s) == Reverse(NoSpaces(Reverse(NoSpaces(s))))
Cut(s, n) == IF Len(s) <= n THEN s ELSE SubSeq(s, 1, n)
After(s) == SubSeq(s, 2, Len(s))
Ends(s) == IF Head(s) \in Quotes THEN {Head(s)} ELSE {Separator}

-----------------------------------------------------------------------------
(* parse_args: the first pass counts, the second cuts.  The first leaves   *)
(* the space after a word, the second writes the word's end over it.       *)
RECURSIVE CountArgs(_), CutArgs(_, _)
CountArgs(line) ==
  LET s == NoSpaces(line)
  IN  IF s = <<>> THEN 0
      ELSE IF Head(s) \in Quotes THEN 1 + CountArgs(After(From(After(s), Ends(s))))
      ELSE 1 + CountArgs(From(s, {Separator}))

CutArgs(line, n) ==
  LET s == NoSpaces(line)
      word == IF Head(s) \in Quotes THEN After(s) ELSE s
  IN  IF n = 0 \/ s = <<>> THEN <<>>
      ELSE <<Upto(word, Ends(s))>> \o CutArgs(After(From(word, Ends(s))), n - 1)

ParseArgs(line) == CutArgs(line, CountArgs(line))

(* breezybox_run_argv: every argument between quotes, \ and " escaped.     *)
\* Mutants are the operators called Mutant..., each before the one it alters.
\* Here a backslash is written as it is.
MutantQuoted(arg) ==
  <<"\"">> \o FlattenSeq([i \in DOMAIN arg |-> IF arg[i] = "\"" THEN <<Escape, arg[i]>> ELSE <<arg[i]>>])
    \o <<"\"">>

Quoted(arg) ==
  <<"\"">> \o FlattenSeq([i \in DOMAIN arg |->
                IF arg[i] \in {Escape, "\""} THEN <<Escape, arg[i]>> ELSE <<arg[i]>>]) \o <<"\"">>
Joined(words) ==
  FlattenSeq([i \in DOMAIN words |-> IF i = 1 THEN words[i] ELSE <<Separator>> \o words[i]])
Rebuilt(argv) == Joined([i \in DOMAIN argv |-> Quoted(argv[i])])

(* esp_console_run, external: it cuts the line to its buffer and splits it *)
(* with esp_console_split_argv.  The state is the arguments so far, whether *)
(* one is open and how, and whether an escape has just been read.          *)
Split(line) ==
  LET start == [args |-> <<>>, in |-> "space", escaped |-> FALSE]
      open(st, how, chars) == [args |-> Append(st.args, chars), in |-> how, escaped |-> FALSE]
      add(st, c) == [st EXCEPT !.args = Front(@) \o <<Append(Last(@), c)>>]
      step(st, c) ==
        IF st.in = "full" THEN st
        ELSE IF st.escaped THEN LET plain == [st EXCEPT !.escaped = FALSE]
             IN  IF c \in {Escape, "\"", Separator} THEN add(plain, c) ELSE plain
        ELSE IF st.in = "space" THEN
               CASE c = Separator -> st
                 [] c = "\"" -> open(st, "quoted", <<>>)
                 [] c = Escape -> [open(st, "word", <<>>) EXCEPT !.escaped = TRUE]
                 [] OTHER -> open(st, "word", <<c>>)
        ELSE IF c = (IF st.in = "quoted" THEN "\"" ELSE Separator)
             THEN [st EXCEPT !.in = IF Len(st.args) = MaxArgs - 1 THEN "full" ELSE "space"]
        ELSE IF c = Escape THEN [st EXCEPT !.escaped = TRUE]
        ELSE add(st, c)
  IN  FoldLeft(step, start, Cut(line, MaxLine - 1)).args

-----------------------------------------------------------------------------
(* breezybox_exec: what is run, with which input and output.  The | is     *)
(* looked for first, then >> or >, then < in what is before it.            *)
PipeFile == <<".pipe_tmp">>
Standard == <<>>
Run(cmd, in, out, append) == [cmd |-> cmd, in |-> in, out |-> out, append |-> append]

AppendAt(line) == {i \in 1 .. Len(line) - 1 : line[i] = ">" /\ line[i + 1] = ">"}

\* The input is looked for in the whole line.
MutantSimple(line) ==
  LET append == AppendAt(line) # {}
      out == From(line, {">"})
      in == From(line, {"<"})
      name(s) == Trim(SubSeq(s, IF append THEN 3 ELSE 2, Len(s)))
  IN  <<IF out # <<>> THEN Run(Trim(Upto(line, {"<", ">"})), Standard, name(out), append)
        ELSE Run(Trim(Upto(line, {"<"})), Trim(Upto(After(in), {Separator})), Standard, FALSE)>>

Simple(line) ==
  LET append == AppendAt(line) # {}
      i == IF append THEN CHOOSE j \in AppendAt(line) : \A k \in AppendAt(line) : j <= k
           ELSE Len(Upto(line, {">"})) + 1
      left == SubSeq(line, 1, i - 1)
      out == Trim(SubSeq(line, IF append THEN i + 2 ELSE i + 1, Len(line)))
      cmd == Trim(Upto(left, {"<"}))
  IN  <<IF i <= Len(line) THEN Run(cmd, Standard, out, append)    \* "output takes precedence"
        ELSE Run(cmd, Trim(After(From(left, {"<"}))), Standard, FALSE)>>

Exec(line) ==
  IF \A i \in DOMAIN line : line[i] # "|" THEN Simple(line)
  ELSE <<Run(Trim(Upto(line, {"|"})), Standard, PipeFile, FALSE),
         Run(Trim(After(From(line, {"|"}))), PipeFile, Standard, FALSE)>>

-----------------------------------------------------------------------------
(* Properties, of arguments and of lines that a user would write for them. *)

(* breezy_exec.c:321: the line rebuilt for esp_console gives a builtin the *)
(* arguments the shell made, byte for byte, as far as its limits allow.    *)
ArgumentsSurvive(argv) ==
  Len(argv) < MaxArgs /\ Len(Rebuilt(argv)) < MaxLine => Split(Rebuilt(argv)) = argv

(* An argument as the line of a build without the shell may give it.       *)
Written(arg) ==
  IF arg = <<>> \/ \E i \in DOMAIN arg : arg[i] \in {Separator} \cup Quotes THEN <<"\"">> \o arg \o <<"\"">>
  ELSE arg
Writable(argv) == \A i \in DOMAIN argv, c \in {Escape, "\""} : c \notin ToSet(argv[i])

(* The two passes agree on any line, and a program and a builtin get the   *)
(* same arguments from one (parse_args).                                   *)
PassesAgree(line) == Len(ParseArgs(line)) = CountArgs(line)
ParsersAgree(argv) ==
  LET line == Joined([i \in DOMAIN argv |-> Written(argv[i])])
  IN  Writable(argv) /\ Len(argv) < MaxArgs /\ Len(line) < MaxLine =>
        ParseArgs(line) = argv /\ Split(line) = argv

(* A command with a redirection or a pipe, whatever the spaces, is run as  *)
(* written (breezybox_exec).                                               *)
RunsAsWritten(argv, gap) ==
  LET cmd == Joined([i \in DOMAIN argv |-> Written(argv[i])])
      f == <<"f">>
      line(parts) == gap \o FlattenSeq([i \in DOMAIN parts |-> parts[i] \o gap])
  IN  Writable(argv) =>
        /\ Exec(line(<<cmd>>)) = <<Run(cmd, Standard, Standard, FALSE)>>
        /\ Exec(line(<<cmd, <<">">>, f>>)) = <<Run(cmd, Standard, f, FALSE)>>
        /\ Exec(line(<<cmd, <<">", ">">>, f>>)) = <<Run(cmd, Standard, f, TRUE)>>
        /\ Exec(line(<<cmd, <<"<">>, f>>)) = <<Run(cmd, f, Standard, FALSE)>>
        /\ Exec(line(<<cmd, <<"<">>, <<"i">>, <<">">>, f>>)) = <<Run(cmd, Standard, f, FALSE)>>
        /\ Exec(line(<<cmd, <<"|">>, cmd>>)) =
             <<Run(cmd, Standard, PipeFile, FALSE), Run(cmd, PipeFile, Standard, FALSE)>>
=============================================================================
