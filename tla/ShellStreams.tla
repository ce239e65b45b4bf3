---------------------------- MODULE ShellStreams ----------------------------
(***************************************************************************)
(* The standard streams of the shell and the temporary files behind them   *)
(* (shell/sh_redir.c; redir_begin, redir_end and exec_pipe of sh_exec.c;   *)
(* command_subst of sh_expand.c; sh_port_tmpfile).                         *)
(*                                                                         *)
(* stdin, stdout and stderr are C pointers that a construct changes and    *)
(* puts back.  Pipelines, substitutions and here-documents go through      *)
(* files named by a small number; a name leads to an inode, which an open  *)
(* stream keeps when the name is removed.  Whatever a file's reader still  *)
(* has to read is taken to be all of it.                                   *)
(***************************************************************************)
EXTENDS Integers, Sequences, SequencesExt, FiniteSets

CONSTANTS
  Tokens,                          \* what commands write
  MaxPipes, MaxSubsts, MaxDocs,    \* bounds on the nesting of each construct
  MaxRedirs,                       \* and of commands with redirections
  Inodes                           \* enough of them for the open files

VARIABLES
  slots,     \* 0..2: the streams
  names,     \* the directory: temporary file number to inode
  content,   \* of each inode
  frames     \* the constructs in progress, innermost last

vars == <<slots, names, content, frames>>

None == 0
Console == [ino |-> None, by |-> 0]
Fds == 0..2
Ids == 0..2 * MaxPipes + MaxSubsts + 2
Top == frames[Len(frames)]
In(kind, phase) == frames # <<>> /\ Top.kind = kind /\ Top.phase = phase
Active(kind) == Cardinality({i \in DOMAIN frames : frames[i].kind = kind})
Push(f) == frames' = Append(frames, f)
SetTop(f) == frames' = [frames EXCEPT ![Len(frames)] = f]
Pop == frames' = Front(frames)

(* orig and touched are sh_redir_saved; in and out are the inodes of the   *)
(* construct's own files, read holds what should be read from the former   *)
(* and wrote what went through the stream to the latter.                   *)
Frame(kind, phase, id) ==
  [kind |-> kind, phase |-> phase, id |-> id, stage |-> 0, stages |-> 0, items |-> <<>>,
   orig |-> slots, touched |-> {}, in |-> None, out |-> None, read |-> <<>>, wrote |-> <<>>,
   docs |-> 0]

(* The program runs something where a stage, a substitution, a redirected  *)
(* command or the expansion of a redirection's word is in progress.        *)
Runs == frames # <<>> => Top.phase \in {"run", "build"}
Executes == frames # <<>> => Top.phase = "run"

-----------------------------------------------------------------------------
(* The file system.                                                        *)
Opened == {slots[fd].ino : fd \in Fds}
            \cup UNION {{frames[i].orig[fd].ino : fd \in Fds} : i \in DOMAIN frames}
Unused(fs) == CHOOSE k \in Inodes :
  /\ k \notin Opened
  /\ \A id \in Ids : fs.names[id] # k
  /\ \A fd \in Fds : fs.slots[fd].ino # k

(* fopen(name, "w"): the file is emptied, or made.                         *)
Create(fs, id) ==
  LET k == IF fs.names[id] # None THEN fs.names[id] ELSE Unused(fs)
  IN [fs EXCEPT !.names[id] = k, !.content[k] = <<>>]
Unlink(fs, id) == [fs EXCEPT !.names[id] = None]
Files == [names |-> names, content |-> content, slots |-> slots, touched |-> {}, ok |-> TRUE]

(* sh_redir_apply, one item: a stream is opened and put in its slot, or    *)
(* another one's is shared.  What it had opened is closed when it fails.   *)
ApplyItem(fs, it) ==
  LET owner == it.by
      put(k) == [fs EXCEPT !.slots[it.fd] = [ino |-> k, by |-> owner], !.touched = @ \cup {it.fd}]
  IN IF ~fs.ok THEN fs
     ELSE CASE it.op = "in" /\ it.id \in Ids ->
                 IF fs.names[it.id] = None THEN [fs EXCEPT !.ok = FALSE] ELSE put(fs.names[it.id])
            [] it.op = "out" /\ it.id \in Ids ->
                 LET made == Create(fs, it.id) IN
                 [made EXCEPT !.slots[it.fd] = [ino |-> made.names[it.id], by |-> owner],
                              !.touched = @ \cup {it.fd}]
            [] it.op = "dup" ->
                 IF it.id \in Fds
                 THEN [fs EXCEPT !.slots[it.fd] = fs.slots[it.id], !.touched = @ \cup {it.fd}]
                 ELSE [fs EXCEPT !.ok = FALSE]
            [] it.op = "close" -> put(None)
            [] OTHER -> [fs EXCEPT !.ok = FALSE]
\* The mistake of leaving out stderr.
MutantRestore(fs, orig) ==
  [fs EXCEPT !.slots = [fd \in Fds |-> IF fd \in fs.touched \ {2} THEN orig[fd] ELSE @[fd]], !.touched = {}]

(* sh_redir_restore.                                                       *)
Restore(fs, orig) ==
  [fs EXCEPT !.slots = [fd \in Fds |-> IF fd \in fs.touched THEN orig[fd] ELSE @[fd]], !.touched = {}]

Apply(fs, items) ==
  LET done == FoldLeft(ApplyItem, fs, items)
  IN IF done.ok THEN done ELSE Restore(done, fs.slots)

Becomes(fs) == slots' = fs.slots /\ names' = fs.names /\ content' = fs.content

Item(op, fd, id, by) == [op |-> op, fd |-> fd, id |-> id, by |-> by]

-----------------------------------------------------------------------------
(* A command writes a word to its standard output.  (A here-document that  *)
(* a command writes to itself stays out.)                                  *)
Write ==
  /\ Executes
  /\ LET s == slots[1] IN
     \E t \in Tokens :
       /\ s.ino # None /\ s.by # 0 /\ Len(frames[s.by].wrote) < 1
       /\ content' = [content EXCEPT ![s.ino] = Append(@, t)]
       /\ frames' = [frames EXCEPT ![s.by].wrote = Append(@, t)]
  /\ UNCHANGED <<slots, names>>

(* exec_pipe: pipe_depth is the number of pipelines in progress; stage i   *)
(* writes to the second file if i is even and to the first if it is odd.   *)
BeginPipe ==
  /\ Executes /\ Active("pipe") < MaxPipes
  /\ \E n \in 2..3 : Push([Frame("pipe", "next", 2 * Active("pipe")) EXCEPT !.stages = n])
  /\ UNCHANGED <<slots, names, content>>

OutOf(f, i) == f.id + (IF i % 2 = 1 THEN 0 ELSE 1)
StageItems(f, by) ==
  (IF f.stage = 0 THEN <<>> ELSE <<Item("in", 0, OutOf(f, f.stage - 1), by)>>)
    \o (IF f.stage = f.stages - 1 THEN <<>> ELSE <<Item("out", 1, OutOf(f, f.stage), by)>>)

StartStage ==
  /\ In("pipe", "next") /\ Top.stage < Top.stages
  /\ LET fs == Apply(Files, StageItems(Top, Len(frames))) IN
     /\ Becomes(fs)
     /\ SetTop(IF fs.ok
               THEN [Top EXCEPT !.phase = "run", !.orig = slots, !.touched = fs.touched,
                                !.in = IF 0 \in fs.touched THEN fs.slots[0].ino ELSE None,
                                !.out = IF 1 \in fs.touched THEN fs.slots[1].ino ELSE None]
               ELSE [Top EXCEPT !.stage = Top.stages])

EndStage ==
  /\ In("pipe", "run")
  /\ Becomes(Restore([Files EXCEPT !.touched = Top.touched], Top.orig))
  /\ SetTop([Top EXCEPT !.phase = "next", !.stage = @ + 1, !.touched = {}, !.in = None,
                        !.out = None, !.read = Top.wrote, !.wrote = <<>>])

EndPipe ==
  /\ In("pipe", "next") /\ Top.stage = Top.stages
  /\ Becomes(Unlink(Unlink(Files, Top.id), Top.id + 1)) /\ Pop

(* command_subst: the file is numbered by the substitutions in progress.   *)
SubstId == 2 + Active("subst")
\* The mistake of one number for all substitutions.
MutantBeginSubst ==
  /\ Runs /\ Active("subst") < MaxSubsts
  /\ LET fs == Apply(Files, <<Item("out", 1, 2, Len(frames) + 1)>>) IN
     /\ Becomes(fs)
     /\ Push([Frame("subst", "run", 2) EXCEPT !.touched = fs.touched, !.out = fs.slots[1].ino])

BeginSubst ==
  /\ Runs /\ Active("subst") < MaxSubsts
  /\ LET fs == Apply(Files, <<Item("out", 1, SubstId, Len(frames) + 1)>>) IN
     /\ Becomes(fs)
     /\ Push([Frame("subst", "run", SubstId) EXCEPT !.touched = fs.touched, !.out = fs.slots[1].ino])

EndSubst ==
  /\ In("subst", "run")
  /\ Becomes(Unlink(Restore([Files EXCEPT !.touched = Top.touched], Top.orig), Top.id))
  /\ Pop

(* redir_begin: the list is built first, item by item; a here-document's   *)
(* body goes to file 2 when its turn comes, a word may run a substitution. *)
BeginRedir ==
  /\ Executes /\ Active("redir") < MaxRedirs
  /\ Push(Frame("redir", "build", 2)) /\ UNCHANGED <<slots, names, content>>

Building == In("redir", "build") /\ Len(Top.items) < 2
Docs == Cardinality({i \in DOMAIN frames : frames[i].docs > 0})

BuildDoc ==
  /\ Building /\ (Top.docs = 0 => Docs < MaxDocs)
  /\ \E t \in Tokens :
       LET fs == Create(Files, 2) IN
       /\ Becomes([fs EXCEPT !.content[fs.names[2]] = <<t>>])
       /\ SetTop([Top EXCEPT !.items = Append(@, Item("in", 0, 2, Len(frames))),
                             !.docs = @ + 1, !.read = <<t>>])

BuildItem ==
  /\ Building
  /\ \E it \in {Item("dup", 2, 1, Len(frames)), Item("dup", 1, 2, Len(frames)),
                Item("dup", 1, 9, Len(frames)), Item("close", 0, None, Len(frames)),
                Item("in", 0, -1, Len(frames))} :
       SetTop([Top EXCEPT !.items = Append(@, it)])
  /\ UNCHANGED <<slots, names, content>>

Cleaned(fs, docs) == IF docs > 0 THEN Unlink(fs, 2) ELSE fs

ApplyRedir ==
  /\ In("redir", "build") /\ Top.items # <<>>
  /\ LET fs == Apply(Files, Top.items)
     IN IF fs.ok
        THEN /\ Becomes(fs)
             /\ SetTop([Top EXCEPT !.phase = "run", !.orig = slots, !.touched = fs.touched,
                          !.in = IF Top.docs > 0 /\ 0 \in fs.touched THEN fs.slots[0].ino ELSE None])
        ELSE Becomes(Cleaned(fs, Top.docs)) /\ Pop

EndRedir ==
  /\ In("redir", "run")
  /\ Becomes(Cleaned(Restore([Files EXCEPT !.touched = Top.touched], Top.orig), Top.docs))
  /\ Pop

Init ==
  /\ slots = [fd \in Fds |-> Console] /\ frames = <<>>
  /\ names = [id \in Ids |-> None] /\ content = [k \in Inodes \cup {None} |-> <<>>]

Next == \/ Write \/ BeginPipe \/ StartStage \/ EndStage \/ EndPipe
        \/ BeginSubst \/ EndSubst
        \/ BeginRedir \/ BuildDoc \/ BuildItem \/ ApplyRedir \/ EndRedir

Spec == Init /\ [][Next]_vars

-----------------------------------------------------------------------------
(* Properties.                                                             *)

TypeOK ==
  /\ slots \in [Fds -> [ino: Inodes \cup {None}, by: Nat]]
  /\ names \in [Ids -> Inodes \cup {None}]
  /\ content \in [Inodes \cup {None} -> Seq(Tokens)]

(* What a stage still has to read is what the stage before it wrote, what  *)
(* a substitution will return is what its commands wrote, and a command    *)
(* reads its own here-document, whatever runs meanwhile: "each nesting     *)
(* level must use its own temp files" (sh_exec.c).                         *)
Intact(f) ==
  CASE f.kind = "subst" -> names[f.id] = f.out /\ content[f.out] = f.wrote
    [] f.kind = "pipe" /\ f.phase = "run" ->
         /\ f.out # None => names[OutOf(f, f.stage)] = f.out /\ content[f.out] = f.wrote
         /\ f.in # None => content[f.in] = f.read
    [] f.kind = "pipe" /\ f.phase = "next" /\ f.stage \in 1 .. f.stages - 1 ->
         content[names[OutOf(f, f.stage - 1)]] = f.read
    [] f.kind = "redir" /\ f.in # None -> content[f.in] = f.read
    [] f.kind = "redir" /\ f.in = None /\ f.docs > 0 -> names[2] # None /\ content[names[2]] = f.read
    [] OTHER -> TRUE
DataArrives == \A i \in DOMAIN frames : Intact(frames[i])

(* Every way out of a construct, a failed redirection included, leaves the *)
(* streams as they were before it, and none is closed while it is in use.  *)
StreamsOpen == \A fd \in Fds : slots[fd].by <= Len(frames)
Reverts ==
  Len(frames') < Len(frames) \/ (In("pipe", "run") /\ Len(frames') = Len(frames) /\ Top'.phase = "next") =>
    slots' = Top.orig
StreamsRestored == [][Reverts]_vars
=============================================================================
