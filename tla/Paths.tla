------------------------------- MODULE Paths -------------------------------
(***************************************************************************)
(* The current directory and the paths relative to it (breezy_vfs.c, and   *)
(* breezy_wrap.c, whose every function resolves its path first).  A path   *)
(* is a sequence of slashes and names; its length counts them.             *)
(***************************************************************************)
EXTENDS Integers, Sequences, SequencesExt

CONSTANTS
  Tree,       \* the directories, as sequences of names from the root
  MaxPath     \* BREEZYBOX_MAX_PATH

Slash == "/"
Root == <<Slash>>

(* External: where a path leads in littlefs, which is mounted at one name. *)
(* Empty names and "." are skipped, and ".." takes back the name before it, *)
(* the mount's excepted.                                                   *)
Mount == "root"
Nowhere == <<"?">>
Walk(dir, path) ==
  FoldLeft(LAMBDA d, n : CASE n \in {Slash, "."} -> d
                           [] n = ".." -> IF Len(d) = 1 THEN d ELSE Front(d)
                           [] OTHER -> Append(d, n), dir, path)
Where(path) ==
  IF path = Root THEN <<>>
  ELSE IF Len(path) >= 2 /\ SubSeq(path, 1, 2) = <<Slash, Mount>>
       THEN Walk(<<Mount>>, SubSeq(path, 3, Len(path)))
  ELSE Nowhere
Isdir(path) == Where(path) \in Tree

-----------------------------------------------------------------------------
Cut(path, n) == IF Len(path) <= n THEN path ELSE SubSeq(path, 1, n)
Under(cwd, path) == (IF cwd = Root THEN cwd ELSE Append(cwd, Slash)) \o path

(* A wrapped function takes what breezybox_resolve_path writes into its    *)
(* buffer of twice a path's length, or the path itself if that is refused. *)
Buffer == 2 * MaxPath + 1
Resolve(cwd, path) ==
  CASE path # <<>> /\ Head(path) = Slash -> Cut(path, Buffer)
    [] OTHER -> IF Len(cwd) + 1 + Len(path) > Buffer THEN path ELSE Under(cwd, path)

(* breezybox_set_cwd: ".." cuts the text at the last slash.                *)
\* Mutants are the operators called Mutant..., each before the one it alters.
\* Here the slash of the root is cut too.
MutantParent(cwd) == SubSeq(cwd, 1, SelectLastInSeq(cwd, LAMBDA c : c = Slash) - 1)

Parent(cwd) ==
  LET i == SelectLastInSeq(cwd, LAMBDA c : c = Slash)
  IN  IF i = 1 THEN Root ELSE SubSeq(cwd, 1, i - 1)

\* Here the slash between them is not counted.
MutantFits(cwd, path) == Len(cwd) + Len(path) <= MaxPath
Fits(cwd, path) == Len(cwd) + 1 + Len(path) <= MaxPath

SetCwd(cwd, path) ==
  LET up == path = <<"..">>
      absolute == path # <<>> /\ Head(path) = Slash
      new == CASE up -> Parent(cwd)
               [] absolute -> Cut(path, MaxPath)
               [] OTHER -> Under(cwd, path)
  IN  IF (up \/ absolute \/ Fits(cwd, path)) /\ Isdir(new) THEN new ELSE cwd

-----------------------------------------------------------------------------
(* The current directory fits its buffer and is written without detours,   *)
(* so that ".." leads to the directory above; a relative path, as long as  *)
(* it fits, leads where it does from the current directory.                *)
Written(dir) ==
  IF dir = <<>> THEN Root ELSE FlattenSeq([i \in DOMAIN dir |-> <<Slash, dir[i]>>])
CwdIsWritten(cwd) ==
  Where(cwd) \in Tree /\ cwd = Written(Where(cwd)) /\ Len(cwd) <= MaxPath
Follows(cwd, path) ==
  cwd # Root /\ Fits(cwd, path) => Where(Resolve(cwd, path)) = Walk(Where(cwd), path)
GoesUp(cwd) ==
  SetCwd(cwd, <<"..">>) = Written(LET d == Where(cwd) IN IF d = <<>> THEN d ELSE Front(d))
=============================================================================
