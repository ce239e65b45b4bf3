---------------------------- MODULE ConsoleProofs ----------------------------
(***************************************************************************)
(* Proofs about what takes the console over and gives it back: the SSH     *)
(* server, whose sessions have stdio and a size of their own, and the LCD, *)
(* whose graphics modes divert the console's output.                       *)
(*                                                                         *)
(* The SSH server, for any tasks and any handles of libssh.  The sshd      *)
(* command is typed at the console: a session that stops the server deletes*)
(* itself half way, and one that starts it while the console stops it      *)
(* leaves two servers.                                                     *)
(***************************************************************************)
EXTENDS SshServer, FiniteSetTheorems, TLAPS

\* The console is no server task, and NULL is nobody's handle.
Names == Console \notin Tasks /\ None \notin Callers \cup Handles

Serving == {"auth", "prompt", "reading", "cleanup"}
Places == {"none", "init", "listen", "loop", "accept", "exit"} \cup Serving
NoConn == [session |-> None, channel |-> None]

TypeOK ==
  /\ running \in BOOLEAN
  /\ serverTask \in Tasks \cup {None} /\ sshbind \in Handles \cup {None}
  /\ at \in [Callers -> Places \cup {"create", "delete", "free"}]
  /\ conn \in [session : Handles \cup {None}, channel : Handles \cup {None}]
  /\ accepting \in [Tasks -> Handles \cup {None}]

(* A server task is known to s_server_task, and the console is at its      *)
(* prompt while it serves, or about to delete it.                          *)
OneServer ==
  /\ at[Console] \in {"reading", "create", "delete", "free"}
  /\ at[Console] = "create" => running
  /\ at[Console] \in {"delete", "free"} => ~running
  /\ \A t \in Tasks :
       /\ at[t] \in Places
       /\ at[t] # "none" =>
            serverTask = t /\ at[Console] = IF running THEN "reading" ELSE "delete"

(* The bind and the connection belong to the task, or to the console that  *)
(* has deleted it.                                                         *)
Owned ==
  /\ port \in {None, sshbind}
  /\ \/ at[Console] = "free"
     \/ \E t \in Tasks : at[t] \in Serving
     \/ conn = NoConn
  /\ \/ at[Console] = "free"
     \/ \E t \in Tasks : at[t] \notin {"none", "init"}
     \/ sshbind = None

IInv == TypeOK /\ OneServer /\ Owned

-----------------------------------------------------------------------------
(* Without a stop: what each point of the server's loop has allocated.     *)
Alone ==
  /\ at[Console] \in {"reading", "create"}
  /\ at[Console] = "create" => running
  /\ \A t \in Tasks :
       /\ at[t] \in Places \ {"exit"}
       /\ at[t] # "none" => serverTask = t /\ at[Console] = "reading" /\ running

Idle == live = {} /\ sshbind = None /\ conn = NoConn
Bound == sshbind \in Handles /\ conn = NoConn

Accounted ==
  /\ (\A t \in Tasks : at[t] = "none") => Idle
  /\ \A t \in Tasks :
       /\ at[t] = "init" => Idle
       /\ at[t] \in {"listen", "loop"} => Bound /\ live = {sshbind}
       /\ at[t] = "accept" =>
            /\ Bound /\ live = {sshbind, accepting[t]}
            /\ accepting[t] \in Handles \ {sshbind}
       /\ at[t] # "accept" => accepting[t] = None
       /\ at[t] \in Serving =>
            /\ sshbind \in Handles /\ conn.session \in Handles \ {sshbind}
            /\ conn.channel \notin {sshbind, conn.session}
            /\ live = {sshbind, conn.session, conn.channel} \ {None}

Lent ==
  \/ \E t \in Tasks : at[t] \in {"prompt", "reading"}
  \/ override = None /\ sized = FALSE

SInv == TypeOK /\ Alone /\ Accounted /\ Lent

-----------------------------------------------------------------------------
(* Every step keeps the types.                                             *)
LEMMA TypeStep ==
  ASSUME TypeOK, [Next]_vars, Names
  PROVE  TypeOK'
<1>c. ASSUME NEW c \in Callers, SshdCommand(c) PROVE TypeOK'
  <2>1. CASE StartCall(c)
    BY <1>c, <2>1
       DEF StartCall, From, TypeOK, Callers, Places, Serving, Names, NoConn, server, console
  <2>2. CASE Create(c)
    BY <1>c, <2>2
       DEF Create, Back, TypeOK, Callers, Places, Serving, Names, NoConn, server, console
  <2>3. CASE CreateFails(c)
    BY <1>c, <2>3
       DEF CreateFails, From, Back, TypeOK, Callers, Places, Serving, Names, NoConn, server,
           console
  <2>4. CASE StopCall(c)
    BY <1>c, <2>4
       DEF StopCall, From, TypeOK, Callers, Places, Serving, Names, NoConn, server, console
  <2>5. CASE DeleteNobody(c)
    BY <1>c, <2>5
       DEF DeleteNobody, From, TypeOK, Callers, Places, Serving, Names, NoConn, server, console
  <2>6. CASE Delete(c)
    BY <1>c, <2>6 DEF Delete, TypeOK, Callers, Places, Serving, Names, NoConn, server, console
  <2>7. CASE DeleteItself(c)
    BY <1>c, <2>7
       DEF DeleteItself, From, TypeOK, Callers, Places, Serving, Names, NoConn, server, console
  <2>8. CASE Free(c)
    BY <1>c, <2>8
       DEF Free, From, Frees, Back, TypeOK, Callers, Places, Serving, Names, NoConn, server,
           console
  <2> QED BY <1>c, <2>1, <2>2, <2>3, <2>4, <2>5, <2>6, <2>7, <2>8 DEF SshdCommand
<1>t. ASSUME NEW t \in Tasks, ServerTask(t) PROVE TypeOK'
  <2>1. CASE InitFails(t)
    BY <1>t, <2>1
       DEF InitFails, From, TypeOK, Callers, Places, Serving, Names, NoConn, server, console
  <2>2. CASE Bind(t)
    BY <1>t, <2>2
       DEF Bind, From, Fresh, TypeOK, Callers, Places, Serving, Names, NoConn, server, console
  <2>3. CASE Listen(t)
    BY <1>t, <2>3
       DEF Listen, From, TypeOK, Callers, Places, Serving, Names, NoConn, server, console
  <2>4. CASE ListenFails(t)
    BY <1>t, <2>4
       DEF ListenFails, From, Frees, TypeOK, Callers, Places, Serving, Names, NoConn, server,
           console
  <2>5. CASE NewSession(t)
    BY <1>t, <2>5
       DEF NewSession, From, Fresh, TypeOK, Callers, Places, Serving, Names, NoConn, server,
           console
  <2>6. CASE AcceptFails(t)
    BY <1>t, <2>6
       DEF AcceptFails, From, Frees, TypeOK, Callers, Places, Serving, Names, NoConn, server,
           console
  <2>7. CASE KeyExchangeFails(t)
    BY <1>t, <2>7
       DEF KeyExchangeFails, From, Frees, TypeOK, Callers, Places, Serving, Names, NoConn, server,
           console
  <2>8. CASE Connected(t)
    BY <1>t, <2>8
       DEF Connected, From, TypeOK, Callers, Places, Serving, Names, NoConn, server, console
  <2>9. CASE OpenChannel(t)
    BY <1>t, <2>9
       DEF OpenChannel, Fresh, TypeOK, Callers, Places, Serving, Names, NoConn, server, console
  <2>10. CASE NoShell(t)
    BY <1>t, <2>10
       DEF NoShell, From, TypeOK, Callers, Places, Serving, Names, NoConn, server, console
  <2>11. CASE Shell(t)
    BY <1>t, <2>11
       DEF Shell, From, TypeOK, Callers, Places, Serving, Names, NoConn, server, console
  <2>12. CASE NoStream(t)
    BY <1>t, <2>12
       DEF NoStream, From, TypeOK, Callers, Places, Serving, Names, NoConn, server, console
  <2>13. CASE ReadLine(t)
    BY <1>t, <2>13
       DEF ReadLine, From, TypeOK, Callers, Places, Serving, Names, NoConn, server, console
  <2>14. CASE Leave(t)
    BY <1>t, <2>14
       DEF Leave, From, TypeOK, Callers, Places, Serving, Names, NoConn, server, console
  <2>15. CASE CleanUp(t)
    BY <1>t, <2>15
       DEF CleanUp, From, Frees, TypeOK, Callers, Places, Serving, Names, NoConn, server, console
  <2>16. CASE SeeStop(t)
    BY <1>t, <2>16
       DEF SeeStop, From, TypeOK, Callers, Places, Serving, Names, NoConn, server, console
  <2>17. CASE Exit(t)
    BY <1>t, <2>17
       DEF Exit, From, Frees, TypeOK, Callers, Places, Serving, Names, NoConn, server, console
  <2> QED
    BY <1>t, <2>1, <2>2, <2>3, <2>4, <2>5, <2>6, <2>7, <2>8, <2>9, <2>10, <2>11, <2>12, <2>13,
       <2>14, <2>15, <2>16, <2>17
       DEF ServerTask
<1>h. CASE HangUp
  BY <1>h DEF HangUp, TypeOK, Callers, Places, Serving, Names, NoConn, server, console
<1>s. CASE UNCHANGED vars
  BY <1>s
     DEF vars, server, console, TypeOK, Callers, Places, Serving, Names, NoConn, server, console
<1> QED BY <1>c, <1>t, <1>h, <1>s DEF Next

(* The commands of the console and the steps of the task take turns.       *)
LEMMA OneServerStep ==
  ASSUME TypeOK, TypeOK', OneServer, [Next]_vars, Names,
         Starters \subseteq {Console}, Stoppers \subseteq {Console}
  PROVE  OneServer'
<1>c. ASSUME NEW c \in Callers, SshdCommand(c) PROVE OneServer'
  <2>1. CASE StartCall(c)
    BY <1>c, <2>1
       DEF StartCall, From, TypeOK, OneServer, Callers, Places, Serving, Names, server, console
  <2>2. CASE Create(c)
    BY <1>c, <2>2
       DEF Create, Back, TypeOK, OneServer, Callers, Places, Serving, Names, server, console
  <2>3. CASE CreateFails(c)
    BY <1>c, <2>3
       DEF CreateFails, From, Back, TypeOK, OneServer, Callers, Places, Serving, Names, server,
           console
  <2>4. CASE StopCall(c)
    BY <1>c, <2>4
       DEF StopCall, From, TypeOK, OneServer, Callers, Places, Serving, Names, server, console
  <2>5. CASE DeleteNobody(c)
    BY <1>c, <2>5
       DEF DeleteNobody, From, TypeOK, OneServer, Callers, Places, Serving, Names, server, console
  <2>6. CASE Delete(c)
    BY <1>c, <2>6 DEF Delete, TypeOK, OneServer, Callers, Places, Serving, Names, server, console
  <2>7. CASE DeleteItself(c)
    BY <1>c, <2>7
       DEF DeleteItself, From, TypeOK, OneServer, Callers, Places, Serving, Names, server, console
  <2>8. CASE Free(c)
    BY <1>c, <2>8
       DEF Free, From, Frees, Back, TypeOK, OneServer, Callers, Places, Serving, Names, server,
           console
  <2> QED BY <1>c, <2>1, <2>2, <2>3, <2>4, <2>5, <2>6, <2>7, <2>8 DEF SshdCommand
<1>t. ASSUME NEW t \in Tasks, ServerTask(t) PROVE OneServer'
  <2>1. CASE InitFails(t)
    BY <1>t, <2>1
       DEF InitFails, From, TypeOK, OneServer, Callers, Places, Serving, Names, server, console
  <2>2. CASE Bind(t)
    BY <1>t, <2>2
       DEF Bind, From, Fresh, TypeOK, OneServer, Callers, Places, Serving, Names, server, console
  <2>3. CASE Listen(t)
    BY <1>t, <2>3
       DEF Listen, From, TypeOK, OneServer, Callers, Places, Serving, Names, server, console
  <2>4. CASE ListenFails(t)
    BY <1>t, <2>4
       DEF ListenFails, From, Frees, TypeOK, OneServer, Callers, Places, Serving, Names, server,
           console
  <2>5. CASE NewSession(t)
    BY <1>t, <2>5
       DEF NewSession, From, Fresh, TypeOK, OneServer, Callers, Places, Serving, Names, server,
           console
  <2>6. CASE AcceptFails(t)
    BY <1>t, <2>6
       DEF AcceptFails, From, Frees, TypeOK, OneServer, Callers, Places, Serving, Names, server,
           console
  <2>7. CASE KeyExchangeFails(t)
    BY <1>t, <2>7
       DEF KeyExchangeFails, From, Frees, TypeOK, OneServer, Callers, Places, Serving, Names,
           server, console
  <2>8. CASE Connected(t)
    BY <1>t, <2>8
       DEF Connected, From, TypeOK, OneServer, Callers, Places, Serving, Names, server, console
  <2>9. CASE OpenChannel(t)
    BY <1>t, <2>9
       DEF OpenChannel, Fresh, TypeOK, OneServer, Callers, Places, Serving, Names, server, console
  <2>10. CASE NoShell(t)
    BY <1>t, <2>10
       DEF NoShell, From, TypeOK, OneServer, Callers, Places, Serving, Names, server, console
  <2>11. CASE Shell(t)
    BY <1>t, <2>11
       DEF Shell, From, TypeOK, OneServer, Callers, Places, Serving, Names, server, console
  <2>12. CASE NoStream(t)
    BY <1>t, <2>12
       DEF NoStream, From, TypeOK, OneServer, Callers, Places, Serving, Names, server, console
  <2>13. CASE ReadLine(t)
    BY <1>t, <2>13
       DEF ReadLine, From, TypeOK, OneServer, Callers, Places, Serving, Names, server, console
  <2>14. CASE Leave(t)
    BY <1>t, <2>14
       DEF Leave, From, TypeOK, OneServer, Callers, Places, Serving, Names, server, console
  <2>15. CASE CleanUp(t)
    BY <1>t, <2>15
       DEF CleanUp, From, Frees, TypeOK, OneServer, Callers, Places, Serving, Names, server,
           console
  <2>16. CASE SeeStop(t)
    BY <1>t, <2>16
       DEF SeeStop, From, TypeOK, OneServer, Callers, Places, Serving, Names, server, console
  <2>17. CASE Exit(t)
    BY <1>t, <2>17
       DEF Exit, From, Frees, TypeOK, OneServer, Callers, Places, Serving, Names, server, console
  <2> QED
    BY <1>t, <2>1, <2>2, <2>3, <2>4, <2>5, <2>6, <2>7, <2>8, <2>9, <2>10, <2>11, <2>12, <2>13,
       <2>14, <2>15, <2>16, <2>17
       DEF ServerTask
<1>h. CASE HangUp
  BY <1>h DEF HangUp, TypeOK, OneServer, Callers, Places, Serving, Names, server, console
<1>s. CASE UNCHANGED vars
  BY <1>s
     DEF vars, server, console, TypeOK, OneServer, Callers, Places, Serving, Names, server, console
<1> QED BY <1>c, <1>t, <1>h, <1>s DEF Next

(* What a stopped server held is freed before the next can start.          *)
LEMMA OwnedStep ==
  ASSUME TypeOK, OneServer, Owned, [Next]_vars, Names,
         Starters \subseteq {Console}, Stoppers \subseteq {Console}
  PROVE  Owned'
<1>c. ASSUME NEW c \in Callers, SshdCommand(c) PROVE Owned'
  <2>1. CASE StartCall(c)
    BY <1>c, <2>1
       DEF StartCall, From, TypeOK, OneServer, Owned, Callers, Places, Serving, Names, NoConn,
           server, console
  <2>2. CASE Create(c)
    BY <1>c, <2>2
       DEF Create, Back, TypeOK, OneServer, Owned, Callers, Places, Serving, Names, NoConn, server,
           console
  <2>3. CASE CreateFails(c)
    BY <1>c, <2>3
       DEF CreateFails, From, Back, TypeOK, OneServer, Owned, Callers, Places, Serving, Names,
           NoConn, server, console
  <2>4. CASE StopCall(c)
    BY <1>c, <2>4
       DEF StopCall, From, TypeOK, OneServer, Owned, Callers, Places, Serving, Names, NoConn,
           server, console
  <2>5. CASE DeleteNobody(c)
    BY <1>c, <2>5
       DEF DeleteNobody, From, TypeOK, OneServer, Owned, Callers, Places, Serving, Names, NoConn,
           server, console
  <2>6. CASE Delete(c)
    BY <1>c, <2>6
       DEF Delete, TypeOK, OneServer, Owned, Callers, Places, Serving, Names, NoConn, server,
           console
  <2>7. CASE DeleteItself(c)
    BY <1>c, <2>7
       DEF DeleteItself, From, TypeOK, OneServer, Owned, Callers, Places, Serving, Names, NoConn,
           server, console
  <2>8. CASE Free(c)
    BY <1>c, <2>8
       DEF Free, From, Frees, Back, TypeOK, OneServer, Owned, Callers, Places, Serving, Names,
           NoConn, server, console
  <2> QED BY <1>c, <2>1, <2>2, <2>3, <2>4, <2>5, <2>6, <2>7, <2>8 DEF SshdCommand
<1>t. ASSUME NEW t \in Tasks, ServerTask(t) PROVE Owned'
  <2>1. CASE InitFails(t)
    BY <1>t, <2>1
       DEF InitFails, From, TypeOK, OneServer, Owned, Callers, Places, Serving, Names, NoConn,
           server, console
  <2>2. CASE Bind(t)
    BY <1>t, <2>2
       DEF Bind, From, Fresh, TypeOK, OneServer, Owned, Callers, Places, Serving, Names, NoConn,
           server, console
  <2>3. CASE Listen(t)
    BY <1>t, <2>3
       DEF Listen, From, TypeOK, OneServer, Owned, Callers, Places, Serving, Names, NoConn, server,
           console
  <2>4. CASE ListenFails(t)
    BY <1>t, <2>4
       DEF ListenFails, From, Frees, TypeOK, OneServer, Owned, Callers, Places, Serving, Names,
           NoConn, server, console
  <2>5. CASE NewSession(t)
    BY <1>t, <2>5
       DEF NewSession, From, Fresh, TypeOK, OneServer, Owned, Callers, Places, Serving, Names,
           NoConn, server, console
  <2>6. CASE AcceptFails(t)
    BY <1>t, <2>6
       DEF AcceptFails, From, Frees, TypeOK, OneServer, Owned, Callers, Places, Serving, Names,
           NoConn, server, console
  <2>7. CASE KeyExchangeFails(t)
    BY <1>t, <2>7
       DEF KeyExchangeFails, From, Frees, TypeOK, OneServer, Owned, Callers, Places, Serving,
           Names, NoConn, server, console
  <2>8. CASE Connected(t)
    BY <1>t, <2>8
       DEF Connected, From, TypeOK, OneServer, Owned, Callers, Places, Serving, Names, NoConn,
           server, console
  <2>9. CASE OpenChannel(t)
    BY <1>t, <2>9
       DEF OpenChannel, Fresh, TypeOK, OneServer, Owned, Callers, Places, Serving, Names, NoConn,
           server, console
  <2>10. CASE NoShell(t)
    BY <1>t, <2>10
       DEF NoShell, From, TypeOK, OneServer, Owned, Callers, Places, Serving, Names, NoConn,
           server, console
  <2>11. CASE Shell(t)
    BY <1>t, <2>11
       DEF Shell, From, TypeOK, OneServer, Owned, Callers, Places, Serving, Names, NoConn, server,
           console
  <2>12. CASE NoStream(t)
    BY <1>t, <2>12
       DEF NoStream, From, TypeOK, OneServer, Owned, Callers, Places, Serving, Names, NoConn,
           server, console
  <2>13. CASE ReadLine(t)
    BY <1>t, <2>13
       DEF ReadLine, From, TypeOK, OneServer, Owned, Callers, Places, Serving, Names, NoConn,
           server, console
  <2>14. CASE Leave(t)
    BY <1>t, <2>14
       DEF Leave, From, TypeOK, OneServer, Owned, Callers, Places, Serving, Names, NoConn, server,
           console
  <2>15. CASE CleanUp(t)
    BY <1>t, <2>15
       DEF CleanUp, From, Frees, TypeOK, OneServer, Owned, Callers, Places, Serving, Names, NoConn,
           server, console
  <2>16. CASE SeeStop(t)
    BY <1>t, <2>16
       DEF SeeStop, From, TypeOK, OneServer, Owned, Callers, Places, Serving, Names, NoConn,
           server, console
  <2>17. CASE Exit(t)
    BY <1>t, <2>17
       DEF Exit, From, Frees, TypeOK, OneServer, Owned, Callers, Places, Serving, Names, NoConn,
           server, console
  <2> QED
    BY <1>t, <2>1, <2>2, <2>3, <2>4, <2>5, <2>6, <2>7, <2>8, <2>9, <2>10, <2>11, <2>12, <2>13,
       <2>14, <2>15, <2>16, <2>17
       DEF ServerTask
<1>h. CASE HangUp
  BY <1>h
     DEF HangUp, TypeOK, OneServer, Owned, Callers, Places, Serving, Names, NoConn, server, console
<1>s. CASE UNCHANGED vars
  BY <1>s
     DEF vars, server, console, TypeOK, OneServer, Owned, Callers, Places, Serving, Names, NoConn,
         server, console
<1> QED BY <1>c, <1>t, <1>h, <1>s DEF Next

(* While nobody stops the server, a task that serves is the only one, and *)
(* no session can start another.                                           *)
LEMMA AloneStep ==
  ASSUME TypeOK, TypeOK', Alone, [Next]_vars, Names, Stoppers = {}
  PROVE  Alone'
<1>c. ASSUME NEW c \in Callers, SshdCommand(c) PROVE Alone'
  <2>1. CASE StartCall(c)
    BY <1>c, <2>1
       DEF StartCall, From, TypeOK, Alone, Callers, Places, Serving, Names, server, console
  <2>2. CASE Create(c)
    BY <1>c, <2>2 DEF Create, Back, TypeOK, Alone, Callers, Places, Serving, Names, server, console
  <2>3. CASE CreateFails(c)
    BY <1>c, <2>3
       DEF CreateFails, From, Back, TypeOK, Alone, Callers, Places, Serving, Names, server, console
  <2>4. CASE StopCall(c)
    BY <1>c, <2>4
       DEF StopCall, From, TypeOK, Alone, Callers, Places, Serving, Names, server, console
  <2>5. CASE DeleteNobody(c)
    BY <1>c, <2>5
       DEF DeleteNobody, From, TypeOK, Alone, Callers, Places, Serving, Names, server, console
  <2>6. CASE Delete(c)
    BY <1>c, <2>6 DEF Delete, TypeOK, Alone, Callers, Places, Serving, Names, server, console
  <2>7. CASE DeleteItself(c)
    BY <1>c, <2>7
       DEF DeleteItself, From, TypeOK, Alone, Callers, Places, Serving, Names, server, console
  <2>8. CASE Free(c)
    BY <1>c, <2>8
       DEF Free, From, Frees, Back, TypeOK, Alone, Callers, Places, Serving, Names, server, console
  <2> QED BY <1>c, <2>1, <2>2, <2>3, <2>4, <2>5, <2>6, <2>7, <2>8 DEF SshdCommand
<1>t. ASSUME NEW t \in Tasks, ServerTask(t) PROVE Alone'
  <2>1. CASE InitFails(t)
    BY <1>t, <2>1
       DEF InitFails, From, TypeOK, Alone, Callers, Places, Serving, Names, server, console
  <2>2. CASE Bind(t)
    BY <1>t, <2>2
       DEF Bind, From, Fresh, TypeOK, Alone, Callers, Places, Serving, Names, server, console
  <2>3. CASE Listen(t)
    BY <1>t, <2>3 DEF Listen, From, TypeOK, Alone, Callers, Places, Serving, Names, server, console
  <2>4. CASE ListenFails(t)
    BY <1>t, <2>4
       DEF ListenFails, From, Frees, TypeOK, Alone, Callers, Places, Serving, Names, server,
           console
  <2>5. CASE NewSession(t)
    BY <1>t, <2>5
       DEF NewSession, From, Fresh, TypeOK, Alone, Callers, Places, Serving, Names, server, console
  <2>6. CASE AcceptFails(t)
    BY <1>t, <2>6
       DEF AcceptFails, From, Frees, TypeOK, Alone, Callers, Places, Serving, Names, server,
           console
  <2>7. CASE KeyExchangeFails(t)
    BY <1>t, <2>7
       DEF KeyExchangeFails, From, Frees, TypeOK, Alone, Callers, Places, Serving, Names, server,
           console
  <2>8. CASE Connected(t)
    BY <1>t, <2>8
       DEF Connected, From, TypeOK, Alone, Callers, Places, Serving, Names, server, console
  <2>9. CASE OpenChannel(t)
    BY <1>t, <2>9
       DEF OpenChannel, Fresh, TypeOK, Alone, Callers, Places, Serving, Names, server, console
  <2>10. CASE NoShell(t)
    BY <1>t, <2>10
       DEF NoShell, From, TypeOK, Alone, Callers, Places, Serving, Names, server, console
  <2>11. CASE Shell(t)
    BY <1>t, <2>11 DEF Shell, From, TypeOK, Alone, Callers, Places, Serving, Names, server, console
  <2>12. CASE NoStream(t)
    BY <1>t, <2>12
       DEF NoStream, From, TypeOK, Alone, Callers, Places, Serving, Names, server, console
  <2>13. CASE ReadLine(t)
    BY <1>t, <2>13
       DEF ReadLine, From, TypeOK, Alone, Callers, Places, Serving, Names, server, console
  <2>14. CASE Leave(t)
    BY <1>t, <2>14 DEF Leave, From, TypeOK, Alone, Callers, Places, Serving, Names, server, console
  <2>15. CASE CleanUp(t)
    BY <1>t, <2>15
       DEF CleanUp, From, Frees, TypeOK, Alone, Callers, Places, Serving, Names, server, console
  <2>16. CASE SeeStop(t)
    BY <1>t, <2>16
       DEF SeeStop, From, TypeOK, Alone, Callers, Places, Serving, Names, server, console
  <2>17. CASE Exit(t)
    BY <1>t, <2>17
       DEF Exit, From, Frees, TypeOK, Alone, Callers, Places, Serving, Names, server, console
  <2> QED
    BY <1>t, <2>1, <2>2, <2>3, <2>4, <2>5, <2>6, <2>7, <2>8, <2>9, <2>10, <2>11, <2>12, <2>13,
       <2>14, <2>15, <2>16, <2>17
       DEF ServerTask
<1>h. CASE HangUp
  BY <1>h DEF HangUp, TypeOK, Alone, Callers, Places, Serving, Names, server, console
<1>s. CASE UNCHANGED vars
  BY <1>s
     DEF vars, server, console, TypeOK, Alone, Callers, Places, Serving, Names, server, console
<1> QED BY <1>c, <1>t, <1>h, <1>s DEF Next

(* What is allocated is what the point of the loop accounts for.           *)
LEMMA AccountedStep ==
  ASSUME TypeOK, Alone, Alone', Accounted, [Next]_vars, Names, Stoppers = {}
  PROVE  Accounted'
<1>c. ASSUME NEW c \in Callers, SshdCommand(c) PROVE Accounted'
  <2>1. CASE StartCall(c)
    BY <1>c, <2>1
       DEF StartCall, From, TypeOK, Alone, Accounted, Idle, Bound, NoConn, Callers, Places,
           Serving, Names, server, console
  <2>2. CASE Create(c)
    BY <1>c, <2>2
       DEF Create, Back, TypeOK, Alone, Accounted, Idle, Bound, NoConn, Callers, Places, Serving,
           Names, server, console
  <2>3. CASE CreateFails(c)
    BY <1>c, <2>3
       DEF CreateFails, From, Back, TypeOK, Alone, Accounted, Idle, Bound, NoConn, Callers, Places,
           Serving, Names, server, console
  <2>4. CASE StopCall(c)
    BY <1>c, <2>4
       DEF StopCall, From, TypeOK, Alone, Accounted, Idle, Bound, NoConn, Callers, Places, Serving,
           Names, server, console
  <2>5. CASE DeleteNobody(c)
    BY <1>c, <2>5
       DEF DeleteNobody, From, TypeOK, Alone, Accounted, Idle, Bound, NoConn, Callers, Places,
           Serving, Names, server, console
  <2>6. CASE Delete(c)
    BY <1>c, <2>6
       DEF Delete, TypeOK, Alone, Accounted, Idle, Bound, NoConn, Callers, Places, Serving, Names,
           server, console
  <2>7. CASE DeleteItself(c)
    BY <1>c, <2>7
       DEF DeleteItself, From, TypeOK, Alone, Accounted, Idle, Bound, NoConn, Callers, Places,
           Serving, Names, server, console
  <2>8. CASE Free(c)
    BY <1>c, <2>8
       DEF Free, From, Frees, Back, TypeOK, Alone, Accounted, Idle, Bound, NoConn, Callers, Places,
           Serving, Names, server, console
  <2> QED BY <1>c, <2>1, <2>2, <2>3, <2>4, <2>5, <2>6, <2>7, <2>8 DEF SshdCommand
<1>t. ASSUME NEW t \in Tasks, ServerTask(t) PROVE Accounted'
  <2>1. CASE InitFails(t)
    BY <1>t, <2>1
       DEF InitFails, From, TypeOK, Alone, Accounted, Idle, Bound, NoConn, Callers, Places,
           Serving, Names, server, console
  <2>2. CASE Bind(t)
    BY <1>t, <2>2
       DEF Bind, From, Fresh, TypeOK, Alone, Accounted, Idle, Bound, NoConn, Callers, Places,
           Serving, Names, server, console
  <2>3. CASE Listen(t)
    BY <1>t, <2>3
       DEF Listen, From, TypeOK, Alone, Accounted, Idle, Bound, NoConn, Callers, Places, Serving,
           Names, server, console
  <2>4. CASE ListenFails(t)
    BY <1>t, <2>4
       DEF ListenFails, From, Frees, TypeOK, Alone, Accounted, Idle, Bound, NoConn, Callers,
           Places, Serving, Names, server, console
  <2>5. CASE NewSession(t)
    BY <1>t, <2>5
       DEF NewSession, From, Fresh, TypeOK, Alone, Accounted, Idle, Bound, NoConn, Callers, Places,
           Serving, Names, server, console
  <2>6. CASE AcceptFails(t)
    BY <1>t, <2>6
       DEF AcceptFails, From, Frees, TypeOK, Alone, Accounted, Idle, Bound, NoConn, Callers,
           Places, Serving, Names, server, console
  <2>7. CASE KeyExchangeFails(t)
    BY <1>t, <2>7
       DEF KeyExchangeFails, From, Frees, TypeOK, Alone, Accounted, Idle, Bound, NoConn, Callers,
           Places, Serving, Names, server, console
  <2>8. CASE Connected(t)
    BY <1>t, <2>8
       DEF Connected, From, TypeOK, Alone, Accounted, Idle, Bound, NoConn, Callers, Places,
           Serving, Names, server, console
  <2>9. CASE OpenChannel(t)
    BY <1>t, <2>9
       DEF OpenChannel, Fresh, TypeOK, Alone, Accounted, Idle, Bound, NoConn, Callers, Places,
           Serving, Names, server, console
  <2>10. CASE NoShell(t)
    BY <1>t, <2>10
       DEF NoShell, From, TypeOK, Alone, Accounted, Idle, Bound, NoConn, Callers, Places, Serving,
           Names, server, console
  <2>11. CASE Shell(t)
    BY <1>t, <2>11
       DEF Shell, From, TypeOK, Alone, Accounted, Idle, Bound, NoConn, Callers, Places, Serving,
           Names, server, console
  <2>12. CASE NoStream(t)
    BY <1>t, <2>12
       DEF NoStream, From, TypeOK, Alone, Accounted, Idle, Bound, NoConn, Callers, Places, Serving,
           Names, server, console
  <2>13. CASE ReadLine(t)
    BY <1>t, <2>13
       DEF ReadLine, From, TypeOK, Alone, Accounted, Idle, Bound, NoConn, Callers, Places, Serving,
           Names, server, console
  <2>14. CASE Leave(t)
    BY <1>t, <2>14
       DEF Leave, From, TypeOK, Alone, Accounted, Idle, Bound, NoConn, Callers, Places, Serving,
           Names, server, console
  <2>15. CASE CleanUp(t)
    BY <1>t, <2>15
       DEF CleanUp, From, Frees, TypeOK, Alone, Accounted, Idle, Bound, NoConn, Callers, Places,
           Serving, Names, server, console
  <2>16. CASE SeeStop(t)
    BY <1>t, <2>16
       DEF SeeStop, From, TypeOK, Alone, Accounted, Idle, Bound, NoConn, Callers, Places, Serving,
           Names, server, console
  <2>17. CASE Exit(t)
    BY <1>t, <2>17
       DEF Exit, From, Frees, TypeOK, Alone, Accounted, Idle, Bound, NoConn, Callers, Places,
           Serving, Names, server, console
  <2> QED
    BY <1>t, <2>1, <2>2, <2>3, <2>4, <2>5, <2>6, <2>7, <2>8, <2>9, <2>10, <2>11, <2>12, <2>13,
       <2>14, <2>15, <2>16, <2>17
       DEF ServerTask
<1>h. CASE HangUp
  BY <1>h
     DEF HangUp, TypeOK, Alone, Accounted, Idle, Bound, NoConn, Callers, Places, Serving, Names,
         server, console
<1>s. CASE UNCHANGED vars
  BY <1>s
     DEF vars, server, console, TypeOK, Alone, Accounted, Idle, Bound, NoConn, Callers, Places,
         Serving, Names, server, console
<1> QED BY <1>c, <1>t, <1>h, <1>s DEF Next

(* Only a session at its prompt has the console's stdio.                   *)
LEMMA LentStep ==
  ASSUME TypeOK, Alone, Lent, [Next]_vars, Names, Stoppers = {}
  PROVE  Lent'
<1>c. ASSUME NEW c \in Callers, SshdCommand(c) PROVE Lent'
  <2>1. CASE StartCall(c)
    BY <1>c, <2>1
       DEF StartCall, From, TypeOK, Alone, Lent, Callers, Places, Serving, Names, server, console
  <2>2. CASE Create(c)
    BY <1>c, <2>2
       DEF Create, Back, TypeOK, Alone, Lent, Callers, Places, Serving, Names, server, console
  <2>3. CASE CreateFails(c)
    BY <1>c, <2>3
       DEF CreateFails, From, Back, TypeOK, Alone, Lent, Callers, Places, Serving, Names, server,
           console
  <2>4. CASE StopCall(c)
    BY <1>c, <2>4
       DEF StopCall, From, TypeOK, Alone, Lent, Callers, Places, Serving, Names, server, console
  <2>5. CASE DeleteNobody(c)
    BY <1>c, <2>5
       DEF DeleteNobody, From, TypeOK, Alone, Lent, Callers, Places, Serving, Names, server,
           console
  <2>6. CASE Delete(c)
    BY <1>c, <2>6 DEF Delete, TypeOK, Alone, Lent, Callers, Places, Serving, Names, server, console
  <2>7. CASE DeleteItself(c)
    BY <1>c, <2>7
       DEF DeleteItself, From, TypeOK, Alone, Lent, Callers, Places, Serving, Names, server,
           console
  <2>8. CASE Free(c)
    BY <1>c, <2>8
       DEF Free, From, Frees, Back, TypeOK, Alone, Lent, Callers, Places, Serving, Names, server,
           console
  <2> QED BY <1>c, <2>1, <2>2, <2>3, <2>4, <2>5, <2>6, <2>7, <2>8 DEF SshdCommand
<1>t. ASSUME NEW t \in Tasks, ServerTask(t) PROVE Lent'
  <2>1. CASE InitFails(t)
    BY <1>t, <2>1
       DEF InitFails, From, TypeOK, Alone, Lent, Callers, Places, Serving, Names, server, console
  <2>2. CASE Bind(t)
    BY <1>t, <2>2
       DEF Bind, From, Fresh, TypeOK, Alone, Lent, Callers, Places, Serving, Names, server, console
  <2>3. CASE Listen(t)
    BY <1>t, <2>3
       DEF Listen, From, TypeOK, Alone, Lent, Callers, Places, Serving, Names, server, console
  <2>4. CASE ListenFails(t)
    BY <1>t, <2>4
       DEF ListenFails, From, Frees, TypeOK, Alone, Lent, Callers, Places, Serving, Names, server,
           console
  <2>5. CASE NewSession(t)
    BY <1>t, <2>5
       DEF NewSession, From, Fresh, TypeOK, Alone, Lent, Callers, Places, Serving, Names, server,
           console
  <2>6. CASE AcceptFails(t)
    BY <1>t, <2>6
       DEF AcceptFails, From, Frees, TypeOK, Alone, Lent, Callers, Places, Serving, Names, server,
           console
  <2>7. CASE KeyExchangeFails(t)
    BY <1>t, <2>7
       DEF KeyExchangeFails, From, Frees, TypeOK, Alone, Lent, Callers, Places, Serving, Names,
           server, console
  <2>8. CASE Connected(t)
    BY <1>t, <2>8
       DEF Connected, From, TypeOK, Alone, Lent, Callers, Places, Serving, Names, server, console
  <2>9. CASE OpenChannel(t)
    BY <1>t, <2>9
       DEF OpenChannel, Fresh, TypeOK, Alone, Lent, Callers, Places, Serving, Names, server,
           console
  <2>10. CASE NoShell(t)
    BY <1>t, <2>10
       DEF NoShell, From, TypeOK, Alone, Lent, Callers, Places, Serving, Names, server, console
  <2>11. CASE Shell(t)
    BY <1>t, <2>11
       DEF Shell, From, TypeOK, Alone, Lent, Callers, Places, Serving, Names, server, console
  <2>12. CASE NoStream(t)
    BY <1>t, <2>12
       DEF NoStream, From, TypeOK, Alone, Lent, Callers, Places, Serving, Names, server, console
  <2>13. CASE ReadLine(t)
    BY <1>t, <2>13
       DEF ReadLine, From, TypeOK, Alone, Lent, Callers, Places, Serving, Names, server, console
  <2>14. CASE Leave(t)
    BY <1>t, <2>14
       DEF Leave, From, TypeOK, Alone, Lent, Callers, Places, Serving, Names, server, console
  <2>15. CASE CleanUp(t)
    BY <1>t, <2>15
       DEF CleanUp, From, Frees, TypeOK, Alone, Lent, Callers, Places, Serving, Names, server,
           console
  <2>16. CASE SeeStop(t)
    BY <1>t, <2>16
       DEF SeeStop, From, TypeOK, Alone, Lent, Callers, Places, Serving, Names, server, console
  <2>17. CASE Exit(t)
    BY <1>t, <2>17
       DEF Exit, From, Frees, TypeOK, Alone, Lent, Callers, Places, Serving, Names, server, console
  <2> QED
    BY <1>t, <2>1, <2>2, <2>3, <2>4, <2>5, <2>6, <2>7, <2>8, <2>9, <2>10, <2>11, <2>12, <2>13,
       <2>14, <2>15, <2>16, <2>17
       DEF ServerTask
<1>h. CASE HangUp
  BY <1>h DEF HangUp, TypeOK, Alone, Lent, Callers, Places, Serving, Names, server, console
<1>s. CASE UNCHANGED vars
  BY <1>s
     DEF vars, server, console, TypeOK, Alone, Lent, Callers, Places, Serving, Names, server,
         console
<1> QED BY <1>c, <1>t, <1>h, <1>s DEF Next

-----------------------------------------------------------------------------
LEMMA InitTypes == Init => TypeOK
<1> SUFFICES ASSUME Init PROVE TypeOK
  OBVIOUS
<1>1. at \in [Callers -> Places \cup {"create", "delete", "free"}]
  BY DEF Init, Places, Serving
<1>2. accepting \in [Tasks -> Handles \cup {None}]
  BY DEF Init
<1>3. conn \in [session : Handles \cup {None}, channel : Handles \cup {None}]
  BY DEF Init
<1> QED BY <1>1, <1>2, <1>3 DEF Init, TypeOK

LEMMA Invariance ==
  ASSUME Names, Starters \subseteq {Console}, Stoppers \subseteq {Console}
  PROVE  Spec => []IInv
<1>1. Init => IInv
  BY InitTypes DEF Init, IInv, OneServer, Owned, Names, Callers, Places, Serving, NoConn
<1>2. IInv /\ [Next]_vars => IInv'
  BY TypeStep, OneServerStep, OwnedStep DEF IInv
<1> QED BY <1>1, <1>2, PTL DEF Spec

LEMMA SessionInvariance ==
  ASSUME Names, Stoppers = {}
  PROVE  Spec => []SInv
<1>1. Init => SInv
  BY InitTypes
     DEF Init, SInv, Alone, Accounted, Lent, Idle, NoConn, Names, Callers, Places, Serving
<1>2. SInv /\ [Next]_vars => SInv'
  BY TypeStep, AloneStep, AccountedStep, LentStep DEF SInv
<1> QED BY <1>1, <1>2, PTL DEF Spec

-----------------------------------------------------------------------------
(* StartsAgain: commanded from the console, a server stopped in whatever   *)
(* state leaves its port free and no connection, and never two tasks serve, *)
(* so that it can be started again (ssh_server_start, ssh_server_stop).     *)
THEOREM CanStartAgain ==
  ASSUME Names, Starters \subseteq {Console}, Stoppers \subseteq {Console}
  PROVE  Spec => []StartsAgain
<1> DEFINE Alive == {t \in Tasks : at[t] # "none"}
<1>1. ASSUME IInv PROVE StartsAgain
  <2>1. Quiet => port = None /\ conn = [session |-> None, channel |-> None]
    BY <1>1 DEF IInv, TypeOK, OneServer, Owned, Quiet, Callers, Places, Serving, Names, NoConn
  <2>2. Alive = {} \/ Alive = {serverTask}
    BY <1>1 DEF IInv, OneServer
  <2>3. Cardinality(Alive) <= 1
    <3> HIDE DEF Alive
    <3>1. CASE Alive = {}
      <4>1. Cardinality(Alive) = 0
        BY <3>1, FS_EmptySet
      <4> QED BY <4>1
    <3>2. CASE Alive = {serverTask}
      <4>1. Cardinality({serverTask}) = 1
        BY FS_Singleton, Zenon
      <4> QED BY <3>2, <4>1
    <3> QED BY <2>2, <3>1, <3>2
  <2> QED BY <2>1, <2>3 DEF StartsAgain
<1> QED BY <1>1, Invariance, PTL

(* SessionsLeaveNothing: while nobody stops the server, whoever may start   *)
(* it, the next client finds it as the first did, and the console has its   *)
(* stdio and size back (handle_session, run_shell, server_task).            *)
THEOREM NothingIsLeft ==
  ASSUME Names, Stoppers = {}
  PROVE  Spec => []SessionsLeaveNothing
<1>1. ASSUME SInv PROVE SessionsLeaveNothing
  <2>1. ASSUME NEW t \in Tasks, at[t] \in {"loop", "accept"}
        PROVE  /\ conn = [session |-> None, channel |-> None]
               /\ live = {sshbind, accepting[t]} \ {None}
               /\ override = None /\ ~sized
    BY <1>1, <2>1 DEF SInv, TypeOK, Alone, Accounted, Lent, Bound, NoConn, Names, Callers
  <2>2. Quiet => live = {}
    BY <1>1 DEF SInv, Accounted, Idle, Quiet, Callers, Names
  <2> QED BY <2>1, <2>2 DEF SessionsLeaveNothing
<1> QED BY <1>1, SessionInvariance, PTL

-----------------------------------------------------------------------------
(* The LCD's modes: for any number of calls, an app that goes from one     *)
(* graphics mode to another through the text mode only (Direct = FALSE)    *)
(* has the console back whenever it is in the text mode, the interrupt     *)
(* draws inside the frame buffer, and waits for a sync wait.               *)
CONSTANTS Direct, MaxCalls

VARIABLES sScreenMode, frame, dims, sDisplayBuffer, inGraphics, output, saved, chosen,
          sem, sWaiting, app, synced, timedOut, calls

Display == INSTANCE RgbDisplay

Labels == {"idle", "enter", "allocate", "buffer", "show", "unlink", "leave", "free", "restore",
           "link", "waiting"}

DisplayTypeOK ==
  /\ sScreenMode \in Display!Modes /\ frame \in Display!Graphics \cup {Display!NoFrame}
  /\ dims \in Display!Graphics \cup {Display!NoFrame}
  /\ sDisplayBuffer \in BOOLEAN /\ inGraphics \in BOOLEAN
  /\ output \in Display!Outputs \cup {"gfx"} /\ chosen \in Display!Outputs
  /\ app \in [at : Labels, mode : Display!Modes]
  /\ sem \in {0, 1} /\ sWaiting \in BOOLEAN /\ synced \in BOOLEAN /\ timedOut \in BOOLEAN

\* The console before, during and after a change of mode.
InText ==
  sScreenMode = "text" /\ output = chosen /\ inGraphics = FALSE /\ frame = Display!NoFrame
Diverted == output = "gfx" /\ saved = chosen /\ inGraphics = TRUE
Changing == sScreenMode = "text" /\ Diverted
InGraphics == sScreenMode \in Display!Graphics /\ Diverted /\ frame = dims
Linked == sDisplayBuffer = TRUE

(* What a change of mode has done by each of its points.                   *)
ModeOK ==
  /\ Display!At("idle") => (InText /\ Linked) \/ (InGraphics /\ ~Linked)
  /\ Display!At("waiting") => InGraphics /\ ~Linked
  /\ Display!At("enter") => InText /\ Linked /\ app.mode \in Display!Graphics
  /\ Display!At("allocate") =>
       Changing /\ Linked /\ frame = Display!NoFrame /\ app.mode \in Display!Graphics
  /\ Display!At("buffer") =>
       /\ Changing /\ Linked /\ frame = Display!NoFrame
       /\ app.mode \in Display!Graphics /\ dims = app.mode
  /\ Display!At("show") => Changing /\ Linked /\ app.mode \in Display!Graphics /\ frame = dims
  /\ Display!At("unlink") => InGraphics /\ Linked
  /\ Display!At("leave") => InGraphics /\ ~Linked
  /\ Display!At("free") => Changing /\ ~Linked
  /\ Display!At("restore") => Changing /\ ~Linked /\ frame = Display!NoFrame
  /\ Display!At("link") => InText /\ ~Linked

(* A request is outstanding, or the semaphore given, only during a wait.   *)
SyncOK ==
  timedOut = FALSE =>
    /\ sWaiting = TRUE => Display!At("waiting") /\ sem = 0
    /\ sem = 1 => Display!At("waiting") /\ synced = TRUE

DisplayIInv == DisplayTypeOK /\ ModeOK /\ SyncOK

LEMMA DisplayInitInv == Display!Init => DisplayIInv
  <1> SUFFICES ASSUME Display!Init PROVE DisplayIInv
    OBVIOUS
  <1>1. app.at = "idle" /\ app.mode = "text"
    BY DEF Display!Init
  <1>2. DisplayTypeOK
    BY DEF Display!Init, DisplayTypeOK, Labels, Display!Modes, Display!Graphics, Display!Outputs
  <1>3. ModeOK
    BY <1>1 DEF Display!Init, ModeOK, InText, Linked, Display!At
  <1>4. SyncOK
    BY <1>1 DEF Display!Init, SyncOK, Display!At
  <1> QED
    BY <1>2, <1>3, <1>4 DEF DisplayIInv

(* The steps that change no mode keep ModeOK, as long as the app is where  *)
(* it was or goes between idle and waiting.                                *)
LEMMA Waits ==
  ASSUME DisplayIInv, Display!Wait \/ Display!Woken \/ Display!TimeOut \/ Display!OnVsync
  PROVE  DisplayIInv'
  <1> USE DEF DisplayIInv, Display!At, Display!Goto, Display!modeVars
  <1>1. CASE Display!Wait
    <2>1. DisplayTypeOK'
      BY <1>1 DEF DisplayTypeOK, Display!Wait, Labels
    <2>2. ModeOK'
      BY <1>1
         DEF Display!Wait, DisplayTypeOK, ModeOK, InText, InGraphics, Diverted, Linked,
             Display!Modes, Display!Graphics
    <2>3. SyncOK'
      BY <1>1 DEF Display!Wait, DisplayTypeOK, SyncOK
    <2> QED
      BY <2>1, <2>2, <2>3
  <1>2. CASE Display!Woken
    <2>1. DisplayTypeOK'
      BY <1>2 DEF DisplayTypeOK, Display!Woken, Labels
    <2>2. ModeOK'
      BY <1>2 DEF Display!Woken, DisplayTypeOK, ModeOK, InText, InGraphics, Diverted, Linked
    <2>3. SyncOK'
      BY <1>2 DEF Display!Woken, DisplayTypeOK, SyncOK
    <2> QED
      BY <2>1, <2>2, <2>3
  <1>3. CASE Display!TimeOut
    <2>1. DisplayTypeOK'
      BY <1>3 DEF DisplayTypeOK, Display!TimeOut, Labels
    <2>2. ModeOK'
      BY <1>3 DEF Display!TimeOut, DisplayTypeOK, ModeOK, InText, InGraphics, Diverted, Linked
    <2>3. SyncOK'
      BY <1>3 DEF Display!TimeOut, DisplayTypeOK, SyncOK
    <2> QED
      BY <2>1, <2>2, <2>3
  <1>4. CASE Display!OnVsync
    <2>1. DisplayTypeOK'
      BY <1>4 DEF DisplayTypeOK, Display!OnVsync
    <2>2. ModeOK'
      BY <1>4
         DEF Display!OnVsync, DisplayTypeOK, ModeOK, InText, InGraphics, Changing, Diverted, Linked
    <2>3. SyncOK'
      BY <1>4 DEF Display!OnVsync, DisplayTypeOK, SyncOK
    <2> QED
      BY <2>1, <2>2, <2>3
  <1> QED
    BY <1>1, <1>2, <1>3, <1>4

(* A change of mode waits for no sync, so that no request is outstanding.  *)
LEMMA SyncKept ==
  ASSUME DisplayIInv, UNCHANGED Display!syncVars, ~Display!At("waiting")
  PROVE  SyncOK'
  BY DEF DisplayIInv, DisplayTypeOK, SyncOK, Display!At, Display!syncVars

LEMMA Enters ==
  ASSUME DisplayIInv, ~Direct,
         (\E m \in Display!Modes : Display!SetMode(m)) \/ Display!Enter \/ Display!Allocate
         \/ Display!Allocated \/ Display!NotAllocated \/ Display!Show
           \/ Display!Unlink
  PROVE  DisplayIInv'
  <1> USE DEF DisplayIInv, Display!At, Display!Goto, Display!modeVars, Display!syncVars
  <1>1. ASSUME NEW m \in Display!Modes, Display!SetMode(m) PROVE DisplayIInv'
    <2>1. DisplayTypeOK'
      BY <1>1 DEF DisplayTypeOK, Display!SetMode, Labels
    <2>2. ModeOK'
      BY <1>1
         DEF Display!SetMode, DisplayTypeOK, ModeOK, InText, InGraphics, Diverted, Linked,
             Display!Modes, Display!Graphics
    <2> QED
      BY <1>1, <2>1, <2>2, SyncKept DEF Display!SetMode
  <1>2. CASE Display!Enter
    <2>1. DisplayTypeOK'
      BY <1>2 DEF DisplayTypeOK, Display!Enter, Labels
    <2>2. ModeOK'
      BY <1>2 DEF Display!Enter, DisplayTypeOK, ModeOK, InText, Changing, Diverted, Linked
    <2> QED
      BY <1>2, <2>1, <2>2, SyncKept DEF Display!Enter
  <1>3. CASE Display!Allocate
    <2>1. DisplayTypeOK'
      BY <1>3 DEF DisplayTypeOK, Display!Allocate, ModeOK, Labels
    <2>2. ModeOK'
      BY <1>3 DEF Display!Allocate, DisplayTypeOK, ModeOK, Changing, Diverted, Linked
    <2> QED
      BY <1>3, <2>1, <2>2, SyncKept DEF Display!Allocate
  <1>4. CASE Display!Allocated
    <2>1. DisplayTypeOK'
      BY <1>4 DEF DisplayTypeOK, Display!Allocated, ModeOK, Labels
    <2>2. ModeOK'
      BY <1>4 DEF Display!Allocated, DisplayTypeOK, ModeOK, Changing, Diverted, Linked
    <2> QED
      BY <1>4, <2>1, <2>2, SyncKept DEF Display!Allocated
  <1>5. CASE Display!NotAllocated
    <2>1. DisplayTypeOK'
      BY <1>5
         DEF DisplayTypeOK, Display!NotAllocated, Display!ConsoleBack, ModeOK, Changing, Diverted,
             Labels
    <2>2. ModeOK'
      BY <1>5
         DEF Display!NotAllocated, Display!ConsoleBack, DisplayTypeOK, ModeOK, InText, Changing,
             Diverted, Linked
    <2> QED
      BY <1>5, <2>1, <2>2, SyncKept DEF Display!NotAllocated
  <1>6. CASE Display!Show
    <2>1. DisplayTypeOK'
      BY <1>6 DEF DisplayTypeOK, Display!Show, Labels
    <2>2. ModeOK'
      BY <1>6 DEF Display!Show, DisplayTypeOK, ModeOK, InGraphics, Changing, Diverted, Linked
    <2> QED
      BY <1>6, <2>1, <2>2, SyncKept DEF Display!Show
  <1>7. CASE Display!Unlink
    <2>1. DisplayTypeOK'
      BY <1>7 DEF DisplayTypeOK, Display!Unlink, Labels
    <2>2. ModeOK'
      BY <1>7 DEF Display!Unlink, DisplayTypeOK, ModeOK, InGraphics, Diverted, Linked
    <2> QED
      BY <1>7, <2>1, <2>2, SyncKept DEF Display!Unlink
  <1> QED
    BY <1>1, <1>2, <1>3, <1>4, <1>5, <1>6, <1>7

LEMMA Leaves ==
  ASSUME DisplayIInv, Display!Leave \/ Display!Free \/ Display!Restore \/ Display!Link
           \/ \E o \in Display!Outputs : Display!SetOutput(o)
  PROVE  DisplayIInv'
  <1> USE DEF DisplayIInv, Display!At, Display!Goto, Display!syncVars
  <1>1. CASE Display!Leave
    <2>1. DisplayTypeOK'
      BY <1>1 DEF DisplayTypeOK, Display!Leave, Labels, Display!Modes
    <2>2. ModeOK'
      BY <1>1 DEF Display!Leave, DisplayTypeOK, ModeOK, InGraphics, Changing, Diverted, Linked
    <2> QED
      BY <1>1, <2>1, <2>2, SyncKept DEF Display!Leave
  <1>2. CASE Display!Free
    <2>1. DisplayTypeOK'
      BY <1>2 DEF DisplayTypeOK, Display!Free, Labels
    <2>2. ModeOK'
      BY <1>2 DEF Display!Free, DisplayTypeOK, ModeOK, Changing, Diverted, Linked
    <2> QED
      BY <1>2, <2>1, <2>2, SyncKept DEF Display!Free
  <1>3. CASE Display!Restore
    <2>1. DisplayTypeOK'
      BY <1>3
         DEF DisplayTypeOK, Display!Restore, Display!ConsoleBack, ModeOK, Changing, Diverted,
             Labels
    <2>2. ModeOK'
      BY <1>3
         DEF Display!Restore, Display!ConsoleBack, DisplayTypeOK, ModeOK, InText, Changing,
             Diverted, Linked
    <2> QED
      BY <1>3, <2>1, <2>2, SyncKept DEF Display!Restore
  <1>4. CASE Display!Link
    <2>1. DisplayTypeOK'
      BY <1>4 DEF DisplayTypeOK, Display!Link, Labels
    <2>2. ModeOK'
      BY <1>4 DEF Display!Link, DisplayTypeOK, ModeOK, InText, Linked
    <2> QED
      BY <1>4, <2>1, <2>2, SyncKept DEF Display!Link
  <1>5. ASSUME NEW o \in Display!Outputs, Display!SetOutput(o) PROVE DisplayIInv'
    <2>1. DisplayTypeOK'
      BY <1>5 DEF DisplayTypeOK, Display!SetOutput
    <2>2. ModeOK'
      BY <1>5
         DEF Display!SetOutput, DisplayTypeOK, ModeOK, InText, InGraphics, Linked, Display!Graphics
    <2> QED
      BY <1>5, <2>1, <2>2, SyncKept DEF Display!SetOutput
  <1> QED
    BY <1>1, <1>2, <1>3, <1>4, <1>5

LEMMA DisplayStepInv == ASSUME DisplayIInv, ~Direct, [Display!Next]_Display!vars PROVE DisplayIInv'
  <1>1. CASE UNCHANGED Display!vars
    BY <1>1
       DEF Display!vars, Display!modeVars, Display!syncVars, DisplayIInv, DisplayTypeOK, ModeOK,
           SyncOK, Display!At, InText, InGraphics,
                Changing, Diverted, Linked
  <1> QED
    BY <1>1, Waits, Enters, Leaves DEF Display!Next

LEMMA DisplayInvariance == ASSUME ~Direct PROVE Display!Spec => []DisplayIInv
  BY DisplayInitInv, DisplayStepInv, PTL DEF Display!Spec

(* "Exit graphics mode: restore text buffer and console routing"           *)
(* (rgb_display.h:36), however often the modes change and memory fails.    *)
THEOREM ConsoleComesBack == ASSUME ~Direct PROVE Display!Spec => []Display!ConsoleRestored
  <1>1. DisplayIInv => Display!ConsoleRestored
    BY DEF DisplayIInv, ModeOK, DisplayTypeOK, Display!ConsoleRestored, InText, InGraphics,
           Diverted, Linked, Display!Graphics
  <1> QED
    BY <1>1, DisplayInvariance, PTL

(* The interrupt draws inside the frame buffer at every point of a change  *)
(* of mode, and a wait comes back from a sync of its own unless an earlier *)
(* one has timed out.                                                      *)
THEOREM DisplayCorrect == ASSUME ~Direct PROVE Display!Spec => []Display!DisplayKept
  <1>1. ASSUME DisplayIInv, sScreenMode \in Display!Graphics PROVE frame = dims
    BY <1>1
       DEF DisplayIInv, DisplayTypeOK, ModeOK, Labels, Display!At, InText, InGraphics, Changing,
           Display!Graphics
  <1>2. DisplayIInv => Display!DrawsInside
    BY <1>1 DEF Display!DrawsInside, Display!Pixels
  <1>3. DisplayIInv => Display!WaitsForSync
    BY DEF DisplayIInv, DisplayTypeOK, SyncOK, Display!WaitsForSync
  <1>4. DisplayIInv => Display!ConsoleRestored
    BY DEF DisplayIInv, ModeOK, DisplayTypeOK, Display!ConsoleRestored, InText, InGraphics,
           Diverted, Linked, Display!Graphics
  <1> QED
    BY <1>2, <1>3, <1>4, DisplayInvariance, PTL DEF Display!DisplayKept
=============================================================================
