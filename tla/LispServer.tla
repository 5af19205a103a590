----------------------------- MODULE LispServer -----------------------------
(***************************************************************************)
(* The chat server of Lunix (lunix-sys/kernel/net/lisp/server/server.cpp): *)
(* one object shared by                                                    *)
(*   - the shell thread, which runs start() and stop(),                    *)
(*   - the acceptor thread, run(), which selects and accepts,              *)
(*   - one detached thread per accepted connection, handleClient().        *)
(*                                                                         *)
(* A handler is named after the connection it was started for; what it     *)
(* holds of that connection is only the NUMBER of a descriptor, and the    *)
(* kernel reuses numbers, so the table of descriptors is part of the state.*)
(*                                                                         *)
(* The peers and the TCP stack are external.  A connection carries whole   *)
(* commands and replies; one read may return several commands at once      *)
(* (TCP keeps no boundaries) but never half of one.                        *)
(***************************************************************************)
EXTENDS Integers, Sequences, FiniteSets

CONSTANTS
  Conns,       \* the connections peers may open, each at most once
  FDs,         \* the descriptor numbers the process can hand out to accept()
  NoConn,      \* no connection: an unused descriptor, an empty name
  NoFD,        \* the parameter of a handler that has not been started
  Shell,       \* the shell thread, as an owner of the mutex
  Free,        \* the mutex has no owner
  Commands,    \* the commands peers send
  MaxStarts,   \* bound: calls of start() that find the server stopped
  MaxCmds,     \* bound: commands the peers send in all
  MaxChunk,    \* bound: commands one read() can return together
  SendBuffer   \* replies a connection holds before send() blocks

ASSUME ConnsAssumption ==
  /\ NoConn \notin Conns
  /\ Shell \notin Conns /\ Free \notin Conns /\ Shell # Free
  /\ NoFD \notin FDs
ASSUME CommandsAssumption ==
  Commands \subseteq {"PING", "CONN_REQ", "USER_SET", "CHAT", "DISS"}
ASSUME BoundsAssumption ==
  {MaxStarts, MaxCmds, MaxChunk, SendBuffer} \subseteq Nat

VARIABLES
  proc,            \* "up", or how the Lunix process ended
  running,         \* Server::running
  serverThread,    \* Server::serverThread.joinable()
  starts,          \* how often start() has created the acceptor
  shell,           \* where the shell thread is inside stop()
  acceptor,        \* where the acceptor thread is inside run()
  clientMutex,     \* owner of Server::clientMutex
  pos,             \* the owner's position in clientSockets
  clientSockets,   \* Server::clientSockets
  clientUsernames, \* Server::clientUsernames; NoConn for an absent or empty name
  fdTable,         \* the connection each descriptor refers to
  pc,              \* where each handler is inside handleClient()
  clientSocket,    \* its parameter
  source,          \* the connection its last read() was on
  authenticated,   \* its local flag
  username,        \* its local name: the peer that chose it
  response,        \* the message it is about to send or broadcast
  broadcasts,      \* number of broadcasts so far (ghost)
  peer,            \* the far end of each connection
  shut,            \* shutdown(SHUT_RDWR) has been called on the connection
  inbox,           \* commands sent by the peer, not yet read
  cmds,            \* how many commands the peers have sent
  outbox,          \* everything ever sent to the peer
  rcvd             \* how much of it the peer has read

serverVars  == <<running, serverThread, starts, shell, acceptor>>
lockVars    == <<clientMutex, pos>>
sharedVars  == <<clientSockets, clientUsernames>>
handlerVars == <<pc, clientSocket, source, authenticated, username, response>>
netVars     == <<peer, shut, inbox, cmds, outbox, rcvd>>
vars == <<proc, serverVars, lockVars, sharedVars, fdTable, handlerVars,
          broadcasts, netVars>>

-----------------------------------------------------------------------------
(* Messages.  "by" is the connection whose command caused the message and  *)
(* "id" the number of the broadcast: the code sends neither.               *)

Replies    == {"200", "100", "USER_OK", "NOT_AUTHENTICATED", "BAD_REQ"}
Broadcasts == {"joined", "chat", "left"}
Message == [kind : Replies \cup Broadcasts, from : Conns \cup {NoConn},
            by : Conns \cup {NoConn}, id : Nat]

Reply(kind)               == [kind |-> kind, from |-> NoConn, by |-> NoConn, id |-> 0]
Announcement(kind, n, by) == [kind |-> kind, from |-> n, by |-> by, id |-> 0]
NoMessage == Reply("BAD_REQ")

\* What the comparisons of handleClient() make of the bytes one read returned.
Classify(chunk) ==
  IF Len(chunk) = 1 \/ Head(chunk) \in {"USER_SET", "CHAT"}
    THEN Head(chunk) ELSE "BAD_REQ"

AcceptorPC == {"none", "setup", "check", "select", "accept", "exited"}
ShellPC    == {"idle", "lock", "shutdown", "close", "join"}
HandlerPC  == {"none", "start", "check", "call", "read", "naming", "lookup", "lock",
               "sending", "respond", "close", "done"}

\* The handler has been started and has not yet called close().
Serving(h) ==
  \/ pc[h] \in {"start", "check", "call", "read", "naming", "lookup", "respond", "close"}
  \/ pc[h] \in {"lock", "sending"} /\ response[h].kind # "left"

Listening == acceptor \in {"check", "select", "accept"}

Init ==
  /\ proc = "up"
  /\ running = FALSE /\ serverThread = FALSE /\ starts = 0
  /\ shell = "idle" /\ acceptor = "none"
  /\ clientMutex = Free /\ pos = 1
  /\ clientSockets = <<>>
  /\ clientUsernames = [f \in FDs |-> NoConn]
  /\ fdTable = [f \in FDs |-> NoConn]
  /\ pc = [h \in Conns |-> "none"]
  /\ clientSocket = [h \in Conns |-> NoFD]
  /\ source = [h \in Conns |-> NoConn]
  /\ authenticated = [h \in Conns |-> FALSE]
  /\ username = [h \in Conns |-> NoConn]
  /\ response = [h \in Conns |-> NoMessage]
  /\ broadcasts = 0
  /\ peer = [c \in Conns |-> "none"]
  /\ shut = [c \in Conns |-> FALSE]
  /\ inbox = [c \in Conns |-> <<>>]
  /\ cmds = 0
  /\ outbox = [c \in Conns |-> <<>>]
  /\ rcvd = [c \in Conns |-> 0]

-----------------------------------------------------------------------------
(* send() on descriptor f without MSG_NOSIGNAL.  A peer that has closed    *)
(* takes one more message, which is lost, and answers it with a reset.     *)
(* After the reset the kernel reports an error once and then, as after     *)
(* shutdown(), raises SIGPIPE, for which no handler is installed.  A full  *)
(* send buffer blocks the caller: neither action is enabled.               *)

Room(c) == Len(outbox[c]) - rcvd[c] < SendBuffer

SendOk(f, m) ==
  LET c == fdTable[f] IN
  /\ c # NoConn /\ ~shut[c]
  /\ \/ /\ peer[c] = "connected" /\ Room(c)
        /\ outbox' = [outbox EXCEPT ![c] = Append(@, m)]
        /\ UNCHANGED peer
     \/ /\ peer[c] = "closed"
        /\ peer' = [peer EXCEPT ![c] = "reset"]
        /\ UNCHANGED outbox
  /\ UNCHANGED <<shut, inbox, cmds, rcvd>>

SendFails(f) ==
  /\ fdTable[f] # NoConn => peer[fdTable[f]] = "reset"
  /\ UNCHANGED netVars

SendKills(f) ==
  /\ fdTable[f] # NoConn
  /\ shut[fdTable[f]] \/ peer[fdTable[f]] = "reset"

Die(how) ==
  /\ proc' = how
  /\ UNCHANGED <<serverVars, lockVars, sharedVars, fdTable, handlerVars,
                 broadcasts, netVars>>

-----------------------------------------------------------------------------
(* The shell thread: start() and stop().                                   *)

Start ==
  /\ shell = "idle" /\ ~running
  /\ starts < MaxStarts
  /\ running' = TRUE /\ serverThread' = TRUE /\ acceptor' = "setup"
  /\ starts' = starts + 1
  /\ UNCHANGED <<proc, shell, lockVars, sharedVars, fdTable, handlerVars,
                 broadcasts, netVars>>

StopRequest ==
  /\ shell = "idle" /\ running
  /\ running' = FALSE /\ shell' = "lock"
  /\ UNCHANGED <<proc, serverThread, starts, acceptor, lockVars, sharedVars,
                 fdTable, handlerVars, broadcasts, netVars>>

\* closeAllConnections(): the lock_guard, then one shutdown() and one close()
\* per registered number, then the two clear() and the end of the guard.
CloseAllLock ==
  /\ shell = "lock" /\ clientMutex = Free
  /\ clientMutex' = Shell /\ pos' = 1
  /\ shell' = "shutdown"
  /\ UNCHANGED <<proc, running, serverThread, starts, acceptor, sharedVars,
                 fdTable, handlerVars, broadcasts, netVars>>

\* Mutant of CloseAllShutdown: close() without shutdown().
NoShutdown ==
  /\ shell = "shutdown" /\ pos <= Len(clientSockets)
  /\ shell' = "close"
  /\ UNCHANGED <<proc, running, serverThread, starts, acceptor, lockVars,
                 sharedVars, fdTable, handlerVars, broadcasts, netVars>>

CloseAllShutdown ==
  /\ shell = "shutdown" /\ pos <= Len(clientSockets)
  /\ shell' = "close"
  /\ LET c == fdTable[clientSockets[pos]] IN
       shut' = IF c = NoConn THEN shut ELSE [shut EXCEPT ![c] = TRUE]
  /\ UNCHANGED <<proc, running, serverThread, starts, acceptor, lockVars,
                 sharedVars, fdTable, handlerVars, broadcasts,
                 peer, inbox, cmds, outbox, rcvd>>

CloseAllClose ==
  /\ shell = "close"
  /\ fdTable' = [fdTable EXCEPT ![clientSockets[pos]] = NoConn]
  /\ pos' = pos + 1
  /\ shell' = "shutdown"
  /\ UNCHANGED <<proc, running, serverThread, starts, acceptor, clientMutex,
                 sharedVars, handlerVars, broadcasts, netVars>>

CloseAllClear ==
  /\ shell = "shutdown" /\ pos > Len(clientSockets)
  /\ clientSockets' = <<>>
  /\ clientUsernames' = [f \in FDs |-> NoConn]
  /\ clientMutex' = Free /\ pos' = 1
  /\ shell' = "join"
  /\ UNCHANGED <<proc, running, serverThread, starts, acceptor, fdTable,
                 handlerVars, broadcasts, netVars>>

\* Mutant of StopJoin: the thread is detached instead of joined.
StopDetach ==
  /\ shell = "join"
  /\ serverThread' = FALSE /\ shell' = "idle"
  /\ UNCHANGED <<proc, running, starts, acceptor, lockVars, sharedVars, fdTable,
                 handlerVars, broadcasts, netVars>>

StopJoin ==
  /\ shell = "join" /\ acceptor = "exited"
  /\ serverThread' = FALSE /\ shell' = "idle" /\ acceptor' = "none"
  /\ UNCHANGED <<proc, running, starts, lockVars, sharedVars, fdTable,
                 handlerVars, broadcasts, netVars>>

-----------------------------------------------------------------------------
(* The acceptor thread: run().                                             *)

AcceptorMoves(to) ==
  /\ acceptor' = to
  /\ UNCHANGED <<proc, running, serverThread, starts, shell, lockVars,
                 sharedVars, broadcasts>>

\* socket, setsockopt, getPrivateIP, bind and listen: any of them may fail,
\* and then run() returns and running stays TRUE.
RunSetup ==
  /\ acceptor = "setup"
  /\ AcceptorMoves("check") \/ AcceptorMoves("exited")
  /\ UNCHANGED <<fdTable, handlerVars, netVars>>

\* Leaving the loop closes the listening socket, which resets the
\* connections nobody accepted.
CloseListener ==
  /\ AcceptorMoves("exited")
  /\ peer' = [c \in Conns |-> IF peer[c] = "backlog" THEN "reset" ELSE peer[c]]
  /\ UNCHANGED <<fdTable, handlerVars, shut, inbox, cmds, outbox, rcvd>>

RunCheck ==
  /\ acceptor = "check"
  /\ \/ /\ running
        /\ AcceptorMoves("select")
        /\ UNCHANGED <<fdTable, handlerVars, netVars>>
     \/ /\ ~running
        /\ CloseListener

RunSelectReady ==
  /\ acceptor = "select"
  /\ \E c \in Conns : peer[c] = "backlog"
  /\ AcceptorMoves("accept")
  /\ UNCHANGED <<fdTable, handlerVars, netVars>>

\* Mutant of RunSelectTimeout: select() without a timeout.
SelectForever ==
  /\ acceptor = "select" /\ \E c \in Conns : peer[c] = "backlog"
  /\ AcceptorMoves("check")
  /\ UNCHANGED <<fdTable, handlerVars, netVars>>

RunSelectTimeout ==
  /\ acceptor = "select"
  /\ AcceptorMoves("check")
  /\ UNCHANGED <<fdTable, handlerVars, netVars>>

RunSelectError ==
  /\ acceptor = "select"
  /\ CloseListener

\* accept() gives the connection an unused number; with none left it fails
\* and the loop continues.  On success the detached handler is started.
RunAccept ==
  /\ acceptor = "accept"
  /\ AcceptorMoves("check")
  /\ \/ \E c \in Conns, f \in FDs :
          /\ peer[c] = "backlog" /\ fdTable[f] = NoConn
          /\ fdTable' = [fdTable EXCEPT ![f] = c]
          /\ peer' = [peer EXCEPT ![c] = "connected"]
          /\ pc' = [pc EXCEPT ![c] = "start"]
          /\ clientSocket' = [clientSocket EXCEPT ![c] = f]
          /\ UNCHANGED <<source, authenticated, username, response,
                         shut, inbox, cmds, outbox, rcvd>>
     \/ /\ \A f \in FDs : fdTable[f] # NoConn
        /\ UNCHANGED <<fdTable, handlerVars, netVars>>

-----------------------------------------------------------------------------
(* A handler thread: handleClient().                                       *)

Goto(h, to) == pc' = [pc EXCEPT ![h] = to]

\* Mutant of Register: push_back without the lock.
RegisterUnlocked(h) ==
  /\ pc[h] = "start"
  /\ clientSockets' = Append(clientSockets, clientSocket[h])
  /\ Goto(h, "check")
  /\ UNCHANGED <<proc, serverVars, lockVars, clientUsernames, fdTable,
                 clientSocket, source, authenticated, username, response,
                 broadcasts, netVars>>

\* The thread's first act: push_back under the lock.
Register(h) ==
  /\ pc[h] = "start" /\ clientMutex = Free
  /\ clientSockets' = Append(clientSockets, clientSocket[h])
  /\ Goto(h, "check")
  /\ UNCHANGED <<proc, serverVars, lockVars, clientUsernames, fdTable,
                 clientSocket, source, authenticated, username, response,
                 broadcasts, netVars>>

\* Mutant of Check: once stopped, the socket is left to closeAllConnections().
CheckTrustsStop(h) ==
  /\ pc[h] = "check"
  /\ Goto(h, IF running THEN "call" ELSE "done")
  /\ UNCHANGED <<proc, serverVars, lockVars, sharedVars, fdTable, clientSocket,
                 source, authenticated, username, response, broadcasts, netVars>>

\* while (running)
Check(h) ==
  /\ pc[h] = "check"
  /\ Goto(h, IF running THEN "call" ELSE "close")
  /\ UNCHANGED <<proc, serverVars, lockVars, sharedVars, fdTable, clientSocket,
                 source, authenticated, username, response, broadcasts, netVars>>

\* read() is called: the kernel looks the number up, which may have been closed
\* since the test, and keeps the connection it finds while the call blocks.
ReadCall(h) ==
  /\ pc[h] = "call"
  /\ Goto(h, "read")
  /\ source' = [source EXCEPT ![h] = fdTable[clientSocket[h]]]
  /\ UNCHANGED <<proc, serverVars, lockVars, sharedVars, fdTable, clientSocket,
                 authenticated, username, response, broadcasts, netVars>>

\* Mutant of ReadEnd: continue in the place of break.
ReadEndContinues(h) ==
  /\ pc[h] = "read"
  /\ source[h] # NoConn =>
       /\ inbox[source[h]] = <<>>
       /\ shut[source[h]] \/ peer[source[h]] \in {"closed", "reset"}
  /\ Goto(h, "check")
  /\ UNCHANGED <<proc, serverVars, lockVars, sharedVars, fdTable, clientSocket,
                 source, authenticated, username, response, broadcasts, netVars>>

\* read() returns 0 or -1: the number was closed, or nothing is left to read
\* and the connection is at its end.
ReadEnd(h) ==
  /\ pc[h] = "read"
  /\ source[h] # NoConn =>
       /\ inbox[source[h]] = <<>>
       /\ shut[source[h]] \/ peer[source[h]] \in {"closed", "reset"}
  /\ Goto(h, "close")
  /\ UNCHANGED <<proc, serverVars, lockVars, sharedVars, fdTable, clientSocket,
                 source, authenticated, username, response, broadcasts, netVars>>

\* The chain of comparisons on what was read.
Dispatch(h, command) ==
  LET Respond(kind) ==
        /\ Goto(h, "respond")
        /\ response' = [response EXCEPT ![h] = Reply(kind)]
        /\ UNCHANGED <<authenticated, username>>
  IN
  \/ command = "PING"     /\ Respond("200")
  \/ command = "CONN_REQ" /\ Respond("100")
  \/ command = "BAD_REQ"  /\ Respond("BAD_REQ")
  \/ command = "CHAT" /\ ~authenticated[h] /\ Respond("NOT_AUTHENTICATED")
  \/ /\ command = "CHAT" /\ authenticated[h]
     /\ Goto(h, "lookup")
     /\ UNCHANGED <<authenticated, username, response>>
  \/ /\ command = "USER_SET"
     /\ Goto(h, "naming")
     /\ username' = [username EXCEPT ![h] = source[h]]
     /\ authenticated' = [authenticated EXCEPT ![h] = TRUE]
     /\ UNCHANGED response
  \/ /\ command = "DISS"
     /\ Goto(h, "close")
     /\ UNCHANGED <<authenticated, username, response>>

Read(h) ==
  /\ pc[h] = "read" /\ source[h] # NoConn
  /\ \E n \in 1..MaxChunk :
       /\ n <= Len(inbox[source[h]])
       /\ Dispatch(h, Classify(SubSeq(inbox[source[h]], 1, n)))
       /\ inbox' = [inbox EXCEPT
                      ![source[h]] = SubSeq(@, n + 1, Len(@))]
  /\ UNCHANGED <<proc, serverVars, lockVars, sharedVars, fdTable, clientSocket,
                 source, broadcasts, peer, shut, cmds, outbox, rcvd>>

\* Mutant of SetName: emplace(), which keeps the entry that is there.
EmplaceName(h) ==
  /\ pc[h] = "naming"
  /\ clientUsernames' = [clientUsernames EXCEPT ![clientSocket[h]] =
                           IF @ = NoConn THEN username[h] ELSE @]
  /\ response' = [response EXCEPT ![h] =
                    Announcement("joined", username[h], source[h])]
  /\ Goto(h, "lock")
  /\ UNCHANGED <<proc, serverVars, lockVars, clientSockets, fdTable,
                 clientSocket, source, authenticated, username, broadcasts,
                 netVars>>

\* clientUsernames[clientSocket] = username, without the lock.
SetName(h) ==
  /\ pc[h] = "naming"
  /\ clientUsernames' = [clientUsernames EXCEPT ![clientSocket[h]] = username[h]]
  /\ response' = [response EXCEPT ![h] =
                    Announcement("joined", username[h], source[h])]
  /\ Goto(h, "lock")
  /\ UNCHANGED <<proc, serverVars, lockVars, clientSockets, fdTable,
                 clientSocket, source, authenticated, username, broadcasts,
                 netVars>>

\* handleChatCommand(): the name is looked up in the shared map, without the
\* lock; operator[] yields an empty name where the map has none.
LookupName(h) ==
  /\ pc[h] = "lookup"
  /\ response' = [response EXCEPT ![h] =
                    Announcement("chat", clientUsernames[clientSocket[h]], source[h])]
  /\ Goto(h, "lock")
  /\ UNCHANGED <<proc, serverVars, lockVars, sharedVars, fdTable, clientSocket,
                 source, authenticated, username, broadcasts, netVars>>

\* Mutants of BroadcastLock: a shared_lock, which other broadcasts do not
\* wait for; a loop that starts one early.
BroadcastShared(h) ==
  /\ pc[h] = "lock" /\ clientMutex # Shell
  /\ clientMutex' = h /\ pos' = 1
  /\ broadcasts' = broadcasts + 1
  /\ response' = [response EXCEPT ![h].id = broadcasts + 1]
  /\ Goto(h, "sending")
  /\ UNCHANGED <<proc, serverVars, sharedVars, fdTable, clientSocket, source,
                 authenticated, username, netVars>>

BroadcastFromZero(h) ==
  /\ pc[h] = "lock" /\ clientMutex = Free
  /\ clientMutex' = h /\ pos' = 0
  /\ broadcasts' = broadcasts + 1
  /\ response' = [response EXCEPT ![h].id = broadcasts + 1]
  /\ Goto(h, "sending")
  /\ UNCHANGED <<proc, serverVars, sharedVars, fdTable, clientSocket, source,
                 authenticated, username, netVars>>

\* broadcastMessage(): the lock_guard, one send() per registered number, the
\* end of the guard.  The result of send() is ignored.
BroadcastLock(h) ==
  /\ pc[h] = "lock" /\ clientMutex = Free
  /\ clientMutex' = h /\ pos' = 1
  /\ broadcasts' = broadcasts + 1
  /\ response' = [response EXCEPT ![h].id = broadcasts + 1]
  /\ Goto(h, "sending")
  /\ UNCHANGED <<proc, serverVars, sharedVars, fdTable, clientSocket, source,
                 authenticated, username, netVars>>

\* Mutant of BroadcastSend: a send() that fails ends the loop.
SendGivesUp(h) ==
  /\ pc[h] = "sending" /\ pos <= Len(clientSockets)
  /\ \/ SendOk(clientSockets[pos], response[h]) /\ pos' = pos + 1
     \/ SendFails(clientSockets[pos]) /\ pos' = Len(clientSockets) + 1
  /\ UNCHANGED <<proc, serverVars, clientMutex, sharedVars, fdTable,
                 handlerVars, broadcasts>>

BroadcastSend(h) ==
  /\ pc[h] = "sending" /\ pos <= Len(clientSockets)
  /\ \/ SendOk(clientSockets[pos], response[h])
     \/ SendFails(clientSockets[pos])
  /\ pos' = pos + 1
  /\ UNCHANGED <<proc, serverVars, clientMutex, sharedVars, fdTable,
                 handlerVars, broadcasts>>

\* Mutant of BroadcastUnlock: a handler that leaves takes its number off the
\* list, after it has closed it.
UnlockErases(h) ==
  /\ pc[h] = "sending" /\ pos > Len(clientSockets)
  /\ clientMutex' = Free /\ pos' = 1
  /\ \/ /\ response[h].kind = "joined"
        /\ Goto(h, "respond")
        /\ response' = [response EXCEPT ![h] = Reply("USER_OK")]
        /\ UNCHANGED clientSockets
     \/ /\ response[h].kind = "chat"
        /\ Goto(h, "check")
        /\ response' = [response EXCEPT ![h] = NoMessage]
        /\ UNCHANGED clientSockets
     \/ /\ response[h].kind = "left"
        /\ Goto(h, "done")
        /\ response' = [response EXCEPT ![h] = NoMessage]
        /\ clientSockets' =
             SelectSeq(clientSockets, LAMBDA f : f # clientSocket[h])
  /\ UNCHANGED <<proc, serverVars, clientUsernames, fdTable, clientSocket,
                 source, authenticated, username, broadcasts, netVars>>

BroadcastUnlock(h) ==
  /\ pc[h] = "sending" /\ pos > Len(clientSockets)
  /\ clientMutex' = Free /\ pos' = 1
  /\ \/ /\ response[h].kind = "joined"
        /\ Goto(h, "respond")
        /\ response' = [response EXCEPT ![h] = Reply("USER_OK")]
     \/ /\ response[h].kind = "chat"
        /\ Goto(h, "check")
        /\ response' = [response EXCEPT ![h] = NoMessage]
     \/ /\ response[h].kind = "left"
        /\ Goto(h, "done")
        /\ response' = [response EXCEPT ![h] = NoMessage]
  /\ UNCHANGED <<proc, serverVars, sharedVars, fdTable, clientSocket, source,
                 authenticated, username, broadcasts, netVars>>

\* Mutant of Respond: after an error the socket is closed and the loop goes on.
RespondCloses(h) ==
  /\ pc[h] = "respond"
  /\ \/ /\ SendOk(clientSocket[h], response[h])
        /\ UNCHANGED fdTable
     \/ /\ SendFails(clientSocket[h])
        /\ fdTable' = [fdTable EXCEPT ![clientSocket[h]] = NoConn]
  /\ Goto(h, "check")
  /\ response' = [response EXCEPT ![h] = NoMessage]
  /\ UNCHANGED <<proc, serverVars, lockVars, sharedVars, clientSocket,
                 source, authenticated, username, broadcasts>>

Respond(h) ==
  /\ pc[h] = "respond"
  /\ \/ SendOk(clientSocket[h], response[h]) /\ Goto(h, "check")
     \/ SendFails(clientSocket[h]) /\ Goto(h, "close")
  /\ response' = [response EXCEPT ![h] = NoMessage]
  /\ UNCHANGED <<proc, serverVars, lockVars, sharedVars, fdTable, clientSocket,
                 source, authenticated, username, broadcasts>>

\* Mutant of Close: "has left" is announced whether or not the peer has joined.
CloseAnnounces(h) ==
  /\ pc[h] = "close"
  /\ fdTable' = [fdTable EXCEPT ![clientSocket[h]] = NoConn]
  /\ Goto(h, "lock")
  /\ response' = [response EXCEPT ![h] =
                    Announcement("left", username[h], source[h])]
  /\ UNCHANGED <<proc, serverVars, lockVars, sharedVars, clientSocket, source,
                 authenticated, username, broadcasts, netVars>>

\* close(clientSocket), whatever the number refers to by now.  The number
\* stays in clientSockets.
Close(h) ==
  /\ pc[h] = "close"
  /\ fdTable' = [fdTable EXCEPT ![clientSocket[h]] = NoConn]
  /\ \/ /\ authenticated[h]
        /\ Goto(h, "lock")
        /\ response' = [response EXCEPT ![h] =
                          Announcement("left", username[h], source[h])]
     \/ /\ ~authenticated[h]
        /\ Goto(h, "done")
        /\ UNCHANGED response
  /\ UNCHANGED <<proc, serverVars, lockVars, sharedVars, clientSocket, source,
                 authenticated, username, broadcasts, netVars>>

Handler(h) ==
  \/ Register(h) \/ Check(h) \/ ReadCall(h) \/ ReadEnd(h) \/ Read(h)
  \/ SetName(h) \/ LookupName(h) \/ BroadcastLock(h) \/ BroadcastSend(h)
  \/ BroadcastUnlock(h) \/ Respond(h) \/ Close(h)

-----------------------------------------------------------------------------
(* How the process can end under these threads.                            *)

BrokenPipe ==
  /\ \E h \in Conns :
       \/ pc[h] = "respond" /\ SendKills(clientSocket[h])
       \/ /\ pc[h] = "sending" /\ pos <= Len(clientSockets)
          /\ SendKills(clientSockets[pos])
  /\ Die("killed")

\* The handlers use the unordered_map outside the lock.  Two of them inside
\* an operation at once, one writing, or one inside when closeAllConnections()
\* clears the map, is a data race: either nothing is noticed (the actions
\* above) or the broken table faults and the signal handler panics.
InMap(h)    == pc[h] \in {"naming", "lookup"}
WritesMap(h) ==
  \/ pc[h] = "naming"
  \/ pc[h] = "lookup" /\ clientUsernames[clientSocket[h]] = NoConn

UsernamesRace ==
  /\ \/ \E g, h \in Conns : g # h /\ InMap(g) /\ InMap(h) /\ WritesMap(g)
     \/ /\ shell = "shutdown" /\ pos > Len(clientSockets)
        /\ \E h \in Conns : InMap(h)
  /\ Die("panic")

-----------------------------------------------------------------------------
(* The peers.                                                              *)

Unchanged4Peers == <<proc, serverVars, lockVars, sharedVars, fdTable,
                     handlerVars, broadcasts>>

PeerConnect(c) ==
  /\ peer[c] = "none" /\ Listening
  /\ peer' = [peer EXCEPT ![c] = "backlog"]
  /\ UNCHANGED <<Unchanged4Peers, shut, inbox, cmds, outbox, rcvd>>

PeerSend(c) ==
  /\ peer[c] \in {"backlog", "connected"} /\ ~shut[c]
  /\ cmds < MaxCmds
  /\ \E m \in Commands : inbox' = [inbox EXCEPT ![c] = Append(@, m)]
  /\ cmds' = cmds + 1
  /\ UNCHANGED <<Unchanged4Peers, peer, shut, outbox, rcvd>>

PeerRead(c) ==
  /\ peer[c] = "connected" /\ rcvd[c] < Len(outbox[c])
  /\ rcvd' = [rcvd EXCEPT ![c] = Len(outbox[c])]
  /\ UNCHANGED <<Unchanged4Peers, peer, shut, inbox, cmds, outbox>>

\* A peer that closes with unread data resets the connection at once.
PeerClose(c) ==
  /\ peer[c] = "connected"
  /\ peer' = [peer EXCEPT ![c] =
                IF rcvd[c] < Len(outbox[c]) THEN "reset" ELSE "closed"]
  /\ UNCHANGED <<Unchanged4Peers, shut, inbox, cmds, outbox, rcvd>>

Peers == \E c \in Conns :
           PeerConnect(c) \/ PeerSend(c) \/ PeerRead(c) \/ PeerClose(c)

-----------------------------------------------------------------------------
AcceptorRuns == RunSetup \/ RunCheck \/ RunSelectReady \/ RunSelectTimeout
                  \/ RunAccept
Acceptor == AcceptorRuns \/ RunSelectError
Stopping == CloseAllLock \/ CloseAllShutdown \/ CloseAllClose
              \/ CloseAllClear \/ StopJoin

\* What the threads of a server do that nobody stops.
ServerRuns ==
  \/ Start \/ Acceptor
  \/ \E h \in Conns : Handler(h)
  \/ BrokenPipe \/ UsernamesRace

\* One run of the server: start(), and no stop() ever.
SessionNext == proc = "up" /\ (ServerRuns \/ Peers)

Next ==
  \/ SessionNext
  \/ proc = "up" /\ (StopRequest \/ Stopping)

SessionSpec == Init /\ [][SessionNext]_vars
Spec        == Init /\ [][Next]_vars

\* The operating system runs every thread that can take a step, a thread that
\* waits for the mutex gets it once it stays free, and select() times out (but
\* need not fail).
\* Nothing makes the user type a command or a peer connect, send or close.
HandlersRun == \A h \in Conns : WF_vars(proc = "up" /\ Handler(h))

ThreadFairness ==
  /\ WF_vars(proc = "up" /\ Stopping)
  /\ WF_vars(proc = "up" /\ AcceptorRuns)
  /\ HandlersRun

\* A peer that stays connected reads what it is sent, as the receive thread
\* of the Lunix client does.
PeersRead == \A c \in Conns : WF_vars(proc = "up" /\ PeerRead(c))

FairSpec == Spec /\ ThreadFairness /\ PeersRead

-----------------------------------------------------------------------------
TypeOK ==
  /\ proc \in {"up", "killed", "panic", "exited"}
  /\ running \in BOOLEAN /\ serverThread \in BOOLEAN
  /\ starts \in 0..MaxStarts
  /\ shell \in ShellPC /\ acceptor \in AcceptorPC
  /\ clientMutex \in Conns \cup {Shell, Free}
  /\ pos \in Nat \ {0}
  /\ clientSockets \in Seq(FDs)
  /\ clientUsernames \in [FDs -> Conns \cup {NoConn}]
  /\ fdTable \in [FDs -> Conns \cup {NoConn}]
  /\ pc \in [Conns -> HandlerPC]
  /\ clientSocket \in [Conns -> FDs \cup {NoFD}]
  /\ source \in [Conns -> Conns \cup {NoConn}]
  /\ authenticated \in [Conns -> BOOLEAN]
  /\ username \in [Conns -> Conns \cup {NoConn}]
  /\ response \in [Conns -> Message]
  /\ broadcasts \in Nat
  /\ peer \in [Conns -> {"none", "backlog", "connected", "closed", "reset"}]
  /\ shut \in [Conns -> BOOLEAN]
  /\ inbox \in [Conns -> Seq(Commands)]
  /\ cmds \in 0..MaxCmds
  /\ outbox \in [Conns -> Seq(Message)]
  /\ rcvd \in [Conns -> Nat]

Registered == {clientSockets[i] : i \in 1..Len(clientSockets)}

\* start() assigns to serverThread whenever the server is not running; the
\* assignment terminates the process if the old thread is still joinable, and
\* the port is taken if the old listener is still open.  So whenever the shell
\* can run start() and finds running false, the previous run() has been joined
\* and has closed its socket (server.cpp 19-34, 151-153).
RestartSafe ==
  shell = "idle" /\ ~running => ~serverThread /\ ~Listening

\* A range-for over clientSockets never sees the vector change under it: no
\* push_back and no clear between the first and the last send() of a broadcast
\* or the first and the last close() of closeAllConnections()
\* (server.cpp 36-44, 156-161, 182-185).
IterationStable ==
  [][clientMutex # Free /\ clientMutex' = clientMutex
       => clientSockets' = clientSockets]_vars

\* Every descriptor accept() returned that is still open has its own handler,
\* which has not yet reached its close(): none is ever leaked, whatever path
\* the handler leaves its loop by and however stop() and start() fall between
\* (server.cpp 139-147, 187-233).
NoLeakedDescriptor ==
  \A f \in FDs : fdTable[f] # NoConn =>
    /\ Serving(fdTable[f])
    /\ clientSocket[fdTable[f]] = f

\* An open connection whose handler has got past its first lock is registered,
\* so every later broadcast reaches it (server.cpp 36-44, 182-185).
OpenIsRegistered ==
  \A c \in Conns :
    /\ pc[c] \notin {"none", "start"}
    /\ fdTable[clientSocket[c]] = c
    => clientSocket[c] \in Registered

\* All peers see the broadcasts in one order and without a gap: what any
\* connection has been sent is, apart from replies, a stretch of the sequence of
\* broadcasts, where a message may be repeated (server.cpp 156-161).
BroadcastAt(c, i) == outbox[c][i].id # 0

OrderedDelivery ==
  \A c \in Conns : \A i, j \in 1..Len(outbox[c]) :
    /\ i < j /\ BroadcastAt(c, i) /\ BroadcastAt(c, j)
    /\ \A k \in i+1..j-1 : ~BroadcastAt(c, k)
    => outbox[c][j].id \in {outbox[c][i].id, outbox[c][i].id + 1}

\* In one run of the server a chat message is shown under the name its sender
\* chose, although the name is found by descriptor number in a map whose
\* entries outlive their connections (server.cpp 169-174, 204-219).
ChatAttribution ==
  \A c \in Conns : \A i \in 1..Len(outbox[c]) :
    outbox[c][i].kind = "chat" => outbox[c][i].from = outbox[c][i].by

\* Each client is handled by a thread of its own: a handler reads from the
\* connection it was started for and from no other (server.cpp 145-147).
OwnConnection ==
  \A h \in Conns : pc[h] = "read" => source[h] \in {h, NoConn}

\* A peer that goes away ends its own handler and not the process
\* (server.cpp 189-193, 226-230).
PeerCannotKill == proc # "killed"

-----------------------------------------------------------------------------
\* server stop returns (server.cpp 26-34).
StopReturns == shell # "idle" ~> shell = "idle" \/ proc # "up"

\* server stop ends every handler, wherever it was and whether or not it had
\* registered its connection yet, unless start() comes first
\* (server.cpp 26-44, 182-187, 233).
StopEndsHandlers ==
  starts > 0 /\ ~running
    ~> running \/ proc # "up" \/ \A h \in Conns : pc[h] \in {"none", "done"}

\* The handler is in read() on a connection that was given its number between
\* its test of running and the call.
Strayed(h) == pc[h] = "read" /\ source[h] \notin {h, NoConn}

\* The only handler of a run that server stop may leave behind is one that
\* has strayed (server.cpp 26-44, 187-193, 233).
StopEndsOthers ==
  \A h \in Conns :
    <>[](starts > 0 /\ ~running /\ proc = "up")
      => <>[](pc[h] \in {"none", "done"} \/ Strayed(h))

\* A connection whose peer has gone is given up: its handler ends, unless it
\* has strayed (server.cpp 187-237).
GoneIsReaped ==
  \A c \in Conns :
    pc[c] # "none" /\ peer[c] \in {"closed", "reset"}
      ~> pc[c] = "done" \/ Strayed(c) \/ proc # "up"

=============================================================================
