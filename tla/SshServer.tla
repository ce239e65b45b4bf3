----------------------------- MODULE SshServer -----------------------------
(***************************************************************************)
(* The SSH server (breezy_ssh/ssh_server.c): one task that accepts a       *)
(* client, serves it and accepts the next, and the sshd command, which     *)
(* starts the task and, to stop it, deletes it wherever it is.  The command *)
(* may come from the console or be typed in a session.                     *)
(*                                                                         *)
(* libssh and FreeRTOS are external: `live` is what has been allocated and *)
(* not freed, `port` the bind that listens.  A step is what lies between    *)
(* two points where the server and a caller of sshd can meet; a line that  *)
(* is not an sshd command changes nothing here.                            *)
(***************************************************************************)
EXTENDS Naturals, FiniteSets

CONSTANTS
  Tasks,      \* the handles of server tasks
  Handles,    \* the handles of libssh: binds, sessions and channels
  Console,    \* the task of the local console
  None,       \* NULL
  Starters,   \* the tasks that may run `sshd start`
  Stoppers    \* the tasks that may run `sshd stop`

VARIABLES
  running, serverTask, sshbind, conn,   \* s_running, s_server_task, s_sshbind, s_conn
  at,             \* where each task is
  accepting,      \* the session that a server task has not stored in s_conn
  live, port,     \* libssh
  override, sized,  \* the console's overrides of stdio and of the terminal size
  eof             \* the client has hung up

server == <<running, serverTask, sshbind, conn>>
console == <<override, sized>>
vars == <<server, at, accepting, live, port, console, eof>>

Callers == Tasks \cup {Console}

Init ==
  /\ running = FALSE /\ serverTask = None /\ sshbind = None
  /\ conn = [session |-> None, channel |-> None]
  /\ at = [c \in Callers |-> IF c = Console THEN "reading" ELSE "none"]
  /\ accepting = [t \in Tasks |-> None]
  /\ live = {} /\ port = None
  /\ override = None /\ sized = FALSE /\ eof = FALSE

(* The command over, the console reads on; a session first tests s_running. *)
Back(c) == IF c = Console THEN "reading" ELSE "prompt"

From(c, here, next) == at[c] = here /\ at' = [at EXCEPT ![c] = next]

Fresh(h) == h \in Handles \ live
Frees(hs) == live' = live \ hs /\ port' = IF port \in hs THEN None ELSE port

-----------------------------------------------------------------------------
(* The sshd command.  ssh_server_start claims s_running, then creates the  *)
(* task, or takes the claim back.                                          *)
StartCall(c) ==
  /\ c \in Starters /\ From(c, "reading", "create") /\ ~running
  /\ running' = TRUE
  /\ UNCHANGED <<serverTask, sshbind, conn, accepting, live, port, console, eof>>

Create(c) ==
  /\ at[c] = "create"
  /\ \E t \in Tasks :
       /\ at[t] = "none"
       /\ serverTask' = t
       /\ at' = [at EXCEPT ![c] = Back(c), ![t] = "init"]
  /\ UNCHANGED <<running, sshbind, conn, accepting, live, port, console, eof>>

CreateFails(c) ==
  /\ From(c, "create", Back(c))
  /\ running' = FALSE
  /\ UNCHANGED <<serverTask, sshbind, conn, accepting, live, port, console, eof>>

(* ssh_server_stop clears s_running, deletes the task, which may be its    *)
(* caller, and frees what it finds.                                        *)
StopCall(c) ==
  /\ c \in Stoppers /\ From(c, "reading", "delete") /\ running
  /\ running' = FALSE
  /\ UNCHANGED <<serverTask, sshbind, conn, accepting, live, port, console, eof>>

DeleteNobody(c) ==
  /\ From(c, "delete", "free") /\ serverTask = None
  /\ UNCHANGED <<server, accepting, live, port, console, eof>>

Delete(c) ==
  /\ at[c] = "delete" /\ serverTask \notin {None, c}
  /\ at' = [at EXCEPT ![c] = "free", ![serverTask] = "none"]
  /\ accepting' = [accepting EXCEPT ![serverTask] = None]
  /\ serverTask' = None
  /\ UNCHANGED <<running, sshbind, conn, live, port, console, eof>>

DeleteItself(c) ==
  /\ From(c, "delete", "none") /\ serverTask = c
  /\ UNCHANGED <<server, accepting, live, port, console, eof>>

Free(c) ==
  /\ From(c, "free", Back(c))
  /\ Frees({conn.channel, conn.session, sshbind})
  /\ conn' = [session |-> None, channel |-> None] /\ sshbind' = None
  /\ UNCHANGED <<running, serverTask, accepting, console, eof>>

SshdCommand(c) ==
  \/ StartCall(c) \/ Create(c) \/ CreateFails(c)
  \/ StopCall(c) \/ DeleteNobody(c) \/ Delete(c) \/ DeleteItself(c) \/ Free(c)

-----------------------------------------------------------------------------
(* server_task sets libssh up and listens, unless the port is taken.       *)
InitFails(t) ==
  /\ From(t, "init", "none")
  /\ running' = FALSE
  /\ UNCHANGED <<serverTask, sshbind, conn, accepting, live, port, console, eof>>

Bind(t) ==
  /\ From(t, "init", "listen")
  /\ \E h \in Handles : Fresh(h) /\ sshbind' = h /\ live' = live \cup {h}
  /\ UNCHANGED <<running, serverTask, conn, accepting, port, console, eof>>

Listen(t) ==
  /\ From(t, "listen", "loop")
  /\ port = None /\ port' = sshbind
  /\ UNCHANGED <<server, accepting, live, console, eof>>

ListenFails(t) ==
  /\ From(t, "listen", "none")
  /\ Frees({sshbind}) /\ sshbind' = None /\ running' = FALSE
  /\ UNCHANGED <<serverTask, conn, accepting, console, eof>>

NewSession(t) ==
  /\ From(t, "loop", "accept") /\ running
  /\ \E h \in Handles :
       Fresh(h) /\ accepting' = [accepting EXCEPT ![t] = h] /\ live' = live \cup {h}
  /\ UNCHANGED <<server, port, console, eof>>

AcceptFails(t) ==
  /\ From(t, "accept", IF running THEN "loop" ELSE "exit")
  /\ Frees({accepting[t]}) /\ accepting' = [accepting EXCEPT ![t] = None]
  /\ UNCHANGED <<server, console, eof>>

\* Mutants are the operators called Mutant..., each before the one it alters.
\* Here the session is not freed.
MutantKeyExchangeFails(t) ==
  /\ From(t, "accept", "loop")
  /\ accepting' = [accepting EXCEPT ![t] = None]
  /\ UNCHANGED <<server, live, port, console, eof>>

KeyExchangeFails(t) ==
  /\ From(t, "accept", "loop")
  /\ Frees({accepting[t]}) /\ accepting' = [accepting EXCEPT ![t] = None]
  /\ UNCHANGED <<server, console, eof>>

Connected(t) ==
  /\ From(t, "accept", "auth")
  /\ conn' = [session |-> accepting[t], channel |-> None]
  /\ accepting' = [accepting EXCEPT ![t] = None] /\ eof' = FALSE
  /\ UNCHANGED <<running, serverTask, sshbind, live, port, console>>

-----------------------------------------------------------------------------
(* handle_session: the client is let in, opens a channel and asks for a    *)
(* shell, or it is refused three times, errs, or takes too long.           *)
OpenChannel(t) ==
  /\ at[t] = "auth" /\ conn.channel = None
  /\ \E h \in Handles :
       Fresh(h) /\ conn' = [conn EXCEPT !.channel = h] /\ live' = live \cup {h}
  /\ UNCHANGED <<running, serverTask, sshbind, at, accepting, port, console, eof>>

NoShell(t) ==
  /\ From(t, "auth", "cleanup")
  /\ UNCHANGED <<server, accepting, live, port, console, eof>>

(* run_shell takes over the stdio and the size of the terminal, reads lines *)
(* until the client leaves or the server is to stop, and gives them back.  *)
Shell(t) ==
  /\ From(t, "auth", "prompt") /\ conn.channel # None
  /\ override' = t /\ sized' = TRUE
  /\ UNCHANGED <<server, accepting, live, port, eof>>

NoStream(t) ==
  /\ From(t, "auth", "cleanup") /\ conn.channel # None
  /\ UNCHANGED <<server, accepting, live, port, console, eof>>

ReadLine(t) ==
  /\ From(t, "prompt", "reading") /\ running /\ ~eof
  /\ UNCHANGED <<server, accepting, live, port, console, eof>>

\* The console's stdio stays the session's.
MutantLeave(t) ==
  /\ \/ From(t, "prompt", "cleanup") /\ (~running \/ eof)
     \/ From(t, "reading", "cleanup")
  /\ sized' = FALSE
  /\ UNCHANGED <<server, accepting, live, port, override, eof>>

Leave(t) ==
  /\ \/ From(t, "prompt", "cleanup") /\ (~running \/ eof)
     \/ From(t, "reading", "cleanup")
  /\ override' = None /\ sized' = FALSE
  /\ UNCHANGED <<server, accepting, live, port, eof>>

HangUp ==
  /\ \E t \in Tasks : at[t] \in {"auth", "prompt", "reading"}
  /\ ~eof /\ eof' = TRUE
  /\ UNCHANGED <<server, at, accepting, live, port, console>>

\* A connection without a channel is not cleaned up.
MutantCleanUpWaits(t) ==
  /\ From(t, "cleanup", "loop") /\ conn.channel # None
  /\ Frees({conn.channel, conn.session})
  /\ conn' = [session |-> None, channel |-> None]
  /\ UNCHANGED <<running, serverTask, sshbind, accepting, console, eof>>

CleanUp(t) ==
  /\ From(t, "cleanup", "loop")
  /\ Frees({conn.channel, conn.session})
  /\ conn' = [session |-> None, channel |-> None]
  /\ UNCHANGED <<running, serverTask, sshbind, accepting, console, eof>>

(* A task that sees s_running cleared before it is deleted ends by itself. *)
SeeStop(t) ==
  /\ From(t, "loop", "exit") /\ ~running
  /\ UNCHANGED <<server, accepting, live, port, console, eof>>

Exit(t) ==
  /\ From(t, "exit", "none")
  /\ Frees({sshbind}) /\ sshbind' = None
  /\ running' = FALSE /\ serverTask' = None
  /\ UNCHANGED <<conn, accepting, console, eof>>

ServerTask(t) ==
  \/ InitFails(t) \/ Bind(t) \/ Listen(t) \/ ListenFails(t)
  \/ NewSession(t) \/ AcceptFails(t) \/ KeyExchangeFails(t) \/ Connected(t)
  \/ OpenChannel(t) \/ NoShell(t) \/ Shell(t) \/ NoStream(t)
  \/ ReadLine(t) \/ Leave(t) \/ CleanUp(t) \/ SeeStop(t) \/ Exit(t)

Next ==
  \/ \E c \in Callers : SshdCommand(c)
  \/ \E t \in Tasks : ServerTask(t)
  \/ HangUp

Spec == Init /\ [][Next]_vars

-----------------------------------------------------------------------------
(* Properties.                                                             *)

Quiet == ~running /\ at = [c \in Callers |-> IF c = Console THEN "reading" ELSE "none"]

(* ssh_server.c:521, "Free libssh resources that the task no longer owns": *)
(* once the server is stopped nothing of it is left in libssh.             *)
StopFreesAll == Quiet => live = {}

(* However a session ends, the next client finds the server as the first   *)
(* did: nothing of the last one is left but the bind, and the console has   *)
(* its own stdio and size again.                                           *)
SessionsLeaveNothing ==
  /\ \A t \in Tasks : at[t] \in {"loop", "accept"} =>
       /\ conn = [session |-> None, channel |-> None]
       /\ live = {sshbind, accepting[t]} \ {None}
       /\ override = None /\ ~sized
  /\ Quiet => live = {}

(* Stopped from the console in whatever state, the server can be started   *)
(* again: the port is free, no connection is left, and one task serves.    *)
StartsAgain ==
  /\ Quiet => port = None /\ conn = [session |-> None, channel |-> None]
  /\ Cardinality({t \in Tasks : at[t] # "none"}) <= 1
=============================================================================
