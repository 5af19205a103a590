------------------------------ MODULE LispHost ------------------------------
(***************************************************************************)
(* The Lunix process the server runs in, as far as it acts on the server   *)
(* other than by its commands: the shell forks to run a module or a        *)
(* program (disk.cpp, loadMod and fopenbin), and a process that exits runs *)
(* ~Server, the shell's as well as a child's that could not exec.  A child *)
(* has a copy of the Server object and of the mutex as they were, none of  *)
(* the threads, and the same connections under the same numbers; it has    *)
(* the listening socket, too, which is left out.                           *)
(***************************************************************************)
EXTENDS LispChat

VARIABLES
  child,   \* where the child of the shell is, which waits for it
  copy,    \* what it has of the Server: running, clientMutex taken, clientSockets
  exiting  \* the shell thread is in exit()

hostVars == <<child, copy, exiting>>
allVars  == <<chatVars, hostVars>>

NoCopy   == [running |-> FALSE, locked |-> FALSE, sockets |-> <<>>]
NoTable  == [f \in FDs |-> NoConn]
ShellFree == child = "none" /\ ~exiting

HostInit == ChatInit /\ child = "none" /\ copy = NoCopy /\ exiting = FALSE

ChildMoves(from, to) == child = from /\ child' = to /\ UNCHANGED exiting

-----------------------------------------------------------------------------
(* The child.                                                              *)

Fork ==
  /\ proc = "up" /\ shell = "idle" /\ ~exiting
  /\ ChildMoves("none", "forked")
  /\ copy' = [running |-> running, locked |-> clientMutex # Free,
              sockets |-> clientSockets]
  /\ childTable' = fdTable
  /\ UNCHANGED <<vars, clientVars>>

ExecSucceeds ==
  /\ ChildMoves("forked", "program")
  /\ UNCHANGED <<chatVars, copy>>

\* exit(EXIT_FAILURE), and with it ~Server, which calls stop() if the server
\* was running.
ExecFails ==
  /\ ChildMoves("forked", IF copy.running THEN "lock" ELSE "exit")
  /\ UNCHANGED <<chatVars, copy>>

\* closeAllConnections(): the mutex, if a thread had it at the fork, has no
\* owner in the child who could release it.
ChildLock ==
  /\ ~copy.locked
  /\ ChildMoves("lock", "closing")
  /\ UNCHANGED <<chatVars, copy>>

\* shutdown() acts on the connection, close() on the child's own table.
ChildClose ==
  /\ copy.sockets # <<>> /\ ChildMoves("closing", "closing")
  /\ LET c == childTable[Head(copy.sockets)] IN
       shut' = IF c = NoConn THEN shut ELSE [shut EXCEPT ![c] = TRUE]
  /\ childTable' = [childTable EXCEPT ![Head(copy.sockets)] = NoConn]
  /\ copy' = [copy EXCEPT !.sockets = Tail(@)]
  /\ UNCHANGED <<proc, serverVars, lockVars, sharedVars, fdTable, handlerVars,
                 broadcasts, peer, inbox, cmds, outbox, rcvd, clientVars>>

\* Mutant of ChildJoin: the child waits for the acceptor of its parent.
ChildJoinWaits ==
  /\ copy.sockets = <<>> /\ acceptor = "exited" /\ ChildMoves("closing", "exit")
  /\ UNCHANGED <<chatVars, copy>>

\* join() returns at once: the thread has no stack in the child.
ChildJoin ==
  /\ copy.sockets = <<>> /\ ChildMoves("closing", "exit")
  /\ UNCHANGED <<chatVars, copy>>

ChildEnds(from) ==
  /\ ChildMoves(from, "ended")
  /\ childTable' = NoTable
  /\ copy' = NoCopy
  /\ UNCHANGED <<vars, clientVars>>

\* waitpid() returns in the shell.
Reap ==
  /\ proc = "up" /\ ChildMoves("ended", "none")
  /\ UNCHANGED <<chatVars, copy>>

-----------------------------------------------------------------------------
(* exit() in the shell thread, after a shutdown or a panic.                *)

\* Mutant of ExitRequest: no ~Server, as if the object were never destroyed.
ExitsAtOnce ==
  /\ proc = "up" /\ shell = "idle" /\ ShellFree
  /\ exiting' = TRUE
  /\ UNCHANGED <<chatVars, child, copy>>

ExitRequest ==
  /\ proc = "up" /\ shell = "idle" /\ ShellFree
  /\ exiting' = TRUE
  /\ IF running THEN StopRequest ELSE UNCHANGED vars
  /\ UNCHANGED <<clientVars, childTable, child, copy>>

\* ~Server has returned.  A handler that is about to use the map, which has been
\* destroyed, may fault before the process ends.
Exits ==
  /\ proc = "up" /\ exiting /\ shell = "idle"
  /\ \/ Die("exited")
     \/ (\E h \in Conns : InMap(h)) /\ Die("panic")
  /\ UNCHANGED <<clientVars, childTable, hostVars>>

-----------------------------------------------------------------------------
\* start() and stop() are calls of a shell that neither waits nor exits.
ServerAndClients ==
  /\ ChatNext
  /\ running' # running => ShellFree
  /\ UNCHANGED hostVars

ClientsUnchanged == UNCHANGED <<clientVars, childTable, hostVars>>

ChildExits == ExecSucceeds \/ ExecFails \/ ChildLock \/ ChildClose \/ ChildJoin
                \/ ChildEnds("exit")

HostNext == ServerAndClients \/ Fork \/ ChildExits \/ ChildEnds("program") \/ Reap
              \/ ExitRequest \/ Exits

HostFairness ==
  /\ ChatFairness
  /\ WF_allVars(proc = "up" /\ BrokenPipe /\ ClientsUnchanged)
  /\ WF_allVars(ChildExits) /\ WF_allVars(Reap) /\ WF_allVars(Exits)

\* A program may run for ever; everything else is run to its end, and send() on
\* a connection a child has shut down does not wait but raises SIGPIPE.
HostSpec == HostInit /\ [][HostNext]_allVars /\ HostFairness

\* A shell that runs no program.
LoneNext == ServerAndClients \/ ExitRequest \/ Exits

-----------------------------------------------------------------------------
\* A std::thread that is destroyed while it can still be joined terminates the
\* process: when Lunix exits, by whatever way it left off using the server, the
\* acceptor has been joined before the object and its thread are destroyed
\* (server.cpp 13-34).
ExitJoins == proc = "exited" => ~serverThread

\* "server stop" frees every client that waits for its connection to end after
\* "/exit", also one whose DISS has been swallowed, wherever acceptor, handlers and
\* receive threads are, unless a broadcast waits for ever for a user to type a name
\* or a child of the shell keeps the connection for ever
\* (client.cpp 100, 150-156, server.cpp 26-44, 157-160, 176-237, disk.cpp 95, 173).
Held(c) == \E f \in FDs : childTable[f] = c

StopFreesClients ==
  \A c \in Conns :
    []<>~(Stalled \/ Held(c)) => []<>~(client[c] \in {"leave", "join"} /\ ~running)

\* A Lunix that exits with its server running stops it and ends, whatever the
\* acceptor and the handlers are doing, unless a broadcast waits for ever for a
\* user to type a name (server.cpp 13-17, 157-160, client.cpp 100, kernel.cpp
\* 108-119, error_handler.cpp 54-61).
ExitEnds == []<>~Stalled => []<>~(exiting /\ proc = "up")

\* A command that cannot be executed returns to the prompt, unless a handler had
\* the mutex when the shell forked: then the child, and the shell with it, wait
\* for ever (disk.cpp 104-111, 182-190, server.cpp 13-44).
FailedCommandReturns ==
  child \in {"lock", "closing", "exit"} /\ ~copy.locked ~> child = "none" \/ proc # "up"

\* "Exit child process on failure" (disk.cpp 107).  It is not so: added to the run
\* chat, TLC refutes it by a child forked while a handler had the mutex.
FailedChildExits ==
  child \in {"lock", "closing", "exit"} ~> child \notin {"lock", "closing", "exit"}

\* Only server stop and the end of Lunix disconnect the clients: a child that
\* cannot exec just exits (disk.cpp 105-107, 184-186, server.cpp 116).
CommandsLeaveServer == [][shut' # shut => shell = "shutdown"]_allVars

=============================================================================
