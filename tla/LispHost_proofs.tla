--------------------------- MODULE LispHost_proofs ---------------------------
(***************************************************************************)
(* Theorems about the Lunix process: the server with its clients, the      *)
(* children the shell forks and exit(), for any number of each.  What      *)
(* LispServer_proofs shows of the server with arbitrary peers still holds  *)
(* with clients in their place, a child that closes its copies of the      *)
(* descriptors and a shell that may exit.                                  *)
(***************************************************************************)
EXTENDS LispHost, LispChat_proofs

-----------------------------------------------------------------------------
(* The inductive invariant: that of the server, with what the clients and  *)
(* exit() add.                                                             *)

ServerInv == TypeInv /\ StopInv /\ DescriptorInv /\ LockInv /\ RegisteredInv

\* exit() has stopped the server, and nobody starts it again.
ExitInv ==
  /\ exiting => ~running
  /\ proc = "exited" => ~serverThread

\* A child's descriptors refer to connections of the server.
ChildTypeOK == childTable \in [FDs -> Conns \cup {NoConn}]

HostInv ==
  /\ ServerInv
  /\ ClientTypeOK /\ ChildTypeOK
  /\ \A c \in Conns : Unconnected(c)
  /\ ExitInv

-----------------------------------------------------------------------------
(* Who changes what of the server.                                         *)

LEMMA ServerInvStep == ServerInv /\ [Next]_vars => ServerInv'
BY TypeStep, StopStep, DescriptorStep, LockStep, RegisteredStep
   DEF ServerInv, TypeInv

\* A client, or a child that shuts connections down, moves nothing but the network.
LEMMA ServerInvFrame ==
  ASSUME ServerInv, TypeInv', DescriptorInv',
         UNCHANGED <<serverVars, lockVars, sharedVars, fdTable, handlerVars>>
  PROVE  ServerInv'
<1>1. StopInv'
  BY DEF ServerInv, StopInv, serverVars
<1>2. LockInv'
  BY DEF ServerInv, LockInv, serverVars, lockVars, handlerVars
<1>3. RegisteredInv'
  BY RegisteredFrame DEF ServerInv, serverVars, sharedVars, handlerVars
<1> QED  BY <1>1, <1>2, <1>3 DEF ServerInv

LEMMA ClientsKeepServerInv ==
  ASSUME ServerInv, NEW c \in Conns, Touches(c), ServerUnchanged
  PROVE  ServerInv'
<1>1. UNCHANGED <<proc, serverVars, lockVars, sharedVars, fdTable, handlerVars, broadcasts>>
  BY DEF ServerUnchanged, Unchanged4Peers
<1>2. TypeInv' /\ DescriptorInv'
  BY ClientsKeepTypes DEF ServerInv
<1> QED  BY <1>1, <1>2, ServerInvFrame

LEMMA ShutKeepsServerInv ==
  ASSUME ServerInv, NEW c, shut' \in {shut, [shut EXCEPT ![c] = TRUE]},
         UNCHANGED <<proc, serverVars, lockVars, sharedVars, fdTable, handlerVars,
                     broadcasts, peer, inbox, cmds, outbox, rcvd>>
  PROVE  ServerInv'
<1>1. shut' \in [Conns -> BOOLEAN]
  BY DEF ServerInv, TypeInv, TypeOK
<1>2. TypeInv'
  BY <1>1 DEF ServerInv, TypeInv, HandlerHasFD, TypeOK, serverVars, lockVars, sharedVars,
     handlerVars
<1>3. DescriptorInv'
  BY DescriptorFrame DEF ServerInv
<1> QED  BY <1>2, <1>3, ServerInvFrame

LEMMA DeathKeepsServerInv ==
  ASSUME ServerInv, NEW how \in {"panic", "exited"}, Die(how)
  PROVE  ServerInv'
<1>1. TypeInv'
  BY DEF Die, ServerInv, TypeInv, HandlerHasFD, TypeOK, serverVars, lockVars, sharedVars,
     handlerVars, netVars
<1>2. DescriptorInv'
  BY DescriptorFrame DEF Die, ServerInv, netVars
<1> QED  BY <1>1, <1>2, ServerInvFrame DEF Die

-----------------------------------------------------------------------------
(* The steps of the process.                                               *)

\* stop() touches no far end.
LEMMA StopLeavesPeers ==
  ASSUME StopRequest \/ Stopping
  PROVE  UNCHANGED peer
BY DEF StopRequest, Stopping, CloseAllLock, CloseAllShutdown, CloseAllClose, CloseAllClear,
       StopJoin, netVars

LEMMA ServerStep ==
  ASSUME HostInv, proc = "up", ServerRuns \/ StopRequest \/ Stopping,
         UNCHANGED <<clientVars, childTable, hostVars>>,
         running' # running => ShellFree
  PROVE  HostInv'
<1>1. ServerInv'
  BY ServerInvStep DEF HostInv, Next, SessionNext
<1>2. ClientTypeOK' /\ ChildTypeOK'
  BY DEF HostInv, ClientTypeOK, ChildTypeOK, clientVars
<1>3. \A c \in Conns : Unconnected(c)'
  BY StaysUnconnected, StopLeavesPeers DEF HostInv, ServerInv, Unconnected, clientVars
<1>4. exiting' => ~running'
  BY DEF HostInv, ExitInv, ShellFree, hostVars
<1>5. proc' # "exited"
  <2>1. CASE ServerRuns
    <3>1. CASE Start \/ BrokenPipe \/ UsernamesRace
      BY <3>1 DEF Start, BrokenPipe, UsernamesRace, Die
    <3>2. CASE Acceptor
      BY <3>2, AcceptorFrame
    <3>3. CASE \E h \in Conns : Handler(h)
      BY <3>3, HandlerFrame
    <3> QED  BY <2>1, <3>1, <3>2, <3>3 DEF ServerRuns
  <2>2. CASE StopRequest \/ Stopping
    BY <2>2 DEF StopRequest, Stopping, CloseAllLock, CloseAllShutdown, CloseAllClose,
       CloseAllClear, StopJoin
  <2> QED  BY <2>1, <2>2
<1> QED  BY <1>1, <1>2, <1>3, <1>4, <1>5 DEF HostInv, ExitInv

\* A client that has taken a step has connected.
LEMMA ClientConnects ==
  ASSUME ClientTypeOK, NEW c \in Conns, ClientStep(c)
  PROVE  client'[c] # "off"
<1>1. client \in [Conns -> ClientPC]
  BY DEF ClientTypeOK
<1>2. CASE Receiving(c)
  BY <1>2 DEF Receiving, ReceiveStarts, Receive, ReceiveEnd, ClientTypeOK
<1>3. CASE ~Receiving(c)
  BY <1>1, <1>3 DEF ClientStep, User, Handshake, Leaving, To, Connect, EnterName, Chat,
     OtherLine, ExitLine, ClientKilled, SendRequest, Await100, AwaitOK, Admitted,
     AdmittedIf, SendPing, AwaitPong, HangUp, Prompt, Leave, Join
<1> QED  BY <1>2, <1>3

LEMMA ClientsStep ==
  ASSUME HostInv, NEW c \in Conns, ClientStep(c), ServerUnchanged, UNCHANGED hostVars
  PROVE  HostInv'
<1>1. Touches(c)
  BY ClientTouches DEF HostInv, ServerInv
<1>2. ServerInv'
  BY <1>1, ClientsKeepServerInv DEF HostInv
<1>3. ClientTypeOK' /\ ChildTypeOK'
  BY ClientTypes DEF HostInv, ChildTypeOK, ServerUnchanged
<1>4. ASSUME NEW d \in Conns PROVE Unconnected(d)'
  <2>1. CASE d = c
    BY <2>1, ClientConnects DEF HostInv, Unconnected
  <2>2. CASE d # c
    BY <1>1, <2>2, ClientFrame DEF HostInv, ServerInv, Unconnected
  <2> QED  BY <2>1, <2>2
<1>5. ExitInv'
  BY DEF HostInv, ExitInv, ServerUnchanged, Unchanged4Peers, serverVars, hostVars
<1> QED  BY <1>2, <1>3, <1>4, <1>5 DEF HostInv

LEMMA HostFrame ==
  ASSUME HostInv, ServerInv', ChildTypeOK', UNCHANGED <<proc, serverVars, peer, client, clientRunning,
                                          receiver, chats, exiting>>
  PROVE  HostInv'
<1>1. ClientTypeOK'
  BY DEF HostInv, ClientTypeOK
<1>2. (\A c \in Conns : Unconnected(c)') /\ ExitInv'
  BY DEF HostInv, Unconnected, ExitInv, serverVars
<1> QED  BY <1>1, <1>2 DEF HostInv

LEMMA ChildStep ==
  ASSUME HostInv, Fork \/ ChildExits \/ ChildEnds("program") \/ Reap
  PROVE  HostInv'
<1>1. UNCHANGED <<proc, serverVars, peer, client, clientRunning, receiver, chats, exiting>>
  BY DEF Fork, ChildExits, ExecSucceeds, ExecFails, ChildLock, ChildClose, ChildJoin,
     ChildEnds, Reap, ChildMoves, chatVars, vars, clientVars, netVars
<1>2. ChildTypeOK'
  <2>1. childTable \in [FDs -> Conns \cup {NoConn}] /\ fdTable \in [FDs -> Conns \cup {NoConn}]
    BY DEF HostInv, ChildTypeOK, ServerInv, TypeInv, TypeOK
  <2> QED  BY <2>1 DEF ChildTypeOK, Fork, ChildExits, ExecSucceeds, ExecFails, ChildLock,
              ChildClose, ChildJoin, ChildEnds, NoTable, Reap, chatVars
<1>3. CASE ChildClose
  <2>1. PICK c : shut' \in {shut, [shut EXCEPT ![c] = TRUE]}
    BY <1>3 DEF ChildClose
  <2>2. UNCHANGED <<proc, serverVars, lockVars, sharedVars, fdTable, handlerVars,
                    broadcasts, peer, inbox, cmds, outbox, rcvd>>
    BY <1>3 DEF ChildClose
  <2>3. ServerInv'
    BY <2>1, <2>2, ShutKeepsServerInv DEF HostInv
  <2> QED  BY <1>1, <1>2, <2>3, HostFrame
<1>4. CASE ~ChildClose
  <2>1. UNCHANGED vars
    BY <1>4 DEF Fork, ChildExits, ExecSucceeds, ExecFails, ChildLock, ChildJoin, ChildEnds,
       Reap, chatVars
  <2>2. ServerInv'
    BY <2>1, ServerInvStep DEF HostInv
  <2> QED  BY <1>1, <1>2, <2>2, HostFrame
<1> QED  BY <1>3, <1>4

LEMMA ExitStep ==
  ASSUME HostInv, ExitRequest \/ Exits
  PROVE  HostInv'
<1>1. UNCHANGED <<clientVars, childTable, peer>>
  BY DEF ExitRequest, Exits, StopRequest, Die, vars, netVars
<1>2. ClientTypeOK' /\ ChildTypeOK' /\ \A c \in Conns : Unconnected(c)'
  BY <1>1 DEF HostInv, ClientTypeOK, ChildTypeOK, Unconnected, clientVars
<1>3. CASE ExitRequest
  <2>1. [Next]_vars
    BY <1>3 DEF ExitRequest, Next
  <2>2. ServerInv'
    BY <2>1, ServerInvStep DEF HostInv
  <2>3. ExitInv'
    BY <1>3 DEF ExitRequest, StopRequest, ExitInv, HostInv, vars, serverVars
  <2> QED  BY <1>2, <2>2, <2>3 DEF HostInv
<1>4. CASE Exits
  <2>1. ServerInv'
    BY <1>4, DeathKeepsServerInv DEF Exits, HostInv
  <2>2. ~serverThread
    BY <1>4 DEF Exits, HostInv, ExitInv, ServerInv, StopInv
  <2>3. ExitInv'
    BY <1>4, <2>2 DEF Exits, Die, HostInv, ExitInv, serverVars, hostVars
  <2> QED  BY <1>2, <2>1, <2>3 DEF HostInv
<1> QED  BY <1>3, <1>4

LEMMA HostStep == HostInv /\ [HostNext]_allVars => HostInv'
<1> SUFFICES ASSUME HostInv, [HostNext]_allVars PROVE HostInv'
  OBVIOUS
<1>1. CASE ServerAndClients
  <2>1. UNCHANGED hostVars /\ (running' # running => ShellFree)
    BY <1>1 DEF ServerAndClients
  <2>2. CASE Clients
    <3>1. PICK c \in Conns : ClientStep(c)
      BY <2>2 DEF Clients, ClientStep
    <3> QED  BY <2>1, <2>2, <3>1, ClientsStep DEF Clients
  <2>3. CASE ~Clients
    <3>1. /\ proc = "up" /\ (ServerRuns \/ StopRequest \/ Stopping)
          /\ UNCHANGED <<clientVars, childTable>>
      BY <1>1, <2>3 DEF ServerAndClients, ChatNext, ChatSessionNext
    <3> QED  BY <2>1, <3>1, ServerStep
  <2> QED  BY <2>2, <2>3
<1>2. CASE UNCHANGED allVars
  <2>1. UNCHANGED vars
    BY <1>2 DEF allVars, chatVars
  <2>2. ServerInv'
    BY <2>1, ServerInvStep DEF HostInv
  <2> QED  BY <1>2, <2>2, HostFrame DEF ChildTypeOK, HostInv, allVars, chatVars, vars, clientVars, hostVars, netVars
<1> QED  BY <1>1, <1>2, ChildStep, ExitStep DEF HostNext

LEMMA HostInitially == HostInit => HostInv
<1> SUFFICES ASSUME HostInit PROVE HostInv
  OBVIOUS
<1>1. Init /\ ChatInit
  BY DEF HostInit, ChatInit
<1>2. ServerInv
  BY <1>1, InitType, ConnsAssumption DEF Init, ServerInv, StopInv, DescriptorInv, NotAccepted,
     NoLeakedDescriptor, LockInv, RegisteredInv, OpenIsRegistered, ClosedPart, ConnsAssumption
<1>3. ClientTypeOK /\ \A c \in Conns : Unconnected(c)
  BY <1>1, ChatInitially DEF ChatInv, DialogueInv
<1>4. ExitInv /\ ChildTypeOK
  BY <1>1 DEF HostInit, ChatInit, Init, ExitInv, ChildTypeOK
<1> QED  BY <1>2, <1>3, <1>4 DEF HostInv

LEMMA HostInvariant == HostSpec => []HostInv
BY HostInitially, HostStep, PTL DEF HostSpec

-----------------------------------------------------------------------------
\* An exiting Lunix has joined the acceptor before it destroys the Server, and
\* with it the std::thread (server.cpp 13-34).
THEOREM ExitHasJoined == HostSpec => []ExitJoins
<1>1. HostInv => ExitJoins
  BY DEF HostInv, ExitInv, ExitJoins
<1> QED  BY <1>1, HostInvariant, PTL

\* In the whole process, with Lunix clients, children that share the
\* connections and a shell that may exit, the server can be restarted whenever
\* it is stopped (server.cpp 19-34, disk.cpp 95-111).
THEOREM HostRestartIsSafe == HostSpec => []RestartSafe
<1>1. HostInv => RestartSafe
  BY DEF HostInv, ServerInv, StopInv, RestartSafe, Listening
<1> QED  BY <1>1, HostInvariant, PTL

\* Nor does it leak a descriptor, whatever a child does with its copy
\* (server.cpp 139-147, 187-233, disk.cpp 95-111).
THEOREM HostDescriptorsAreOwned == HostSpec => []NoLeakedDescriptor
<1>1. HostInv => NoLeakedDescriptor
  BY DEF HostInv, ServerInv, DescriptorInv
<1> QED  BY <1>1, HostInvariant, PTL

\* Nor does an open connection fall out of clientSockets (server.cpp 36-44,
\* 182-185).
THEOREM HostOpenAreRegistered == HostSpec => []OpenIsRegistered
<1>1. HostInv => OpenIsRegistered
  BY DEF HostInv, ServerInv, RegisteredInv
<1> QED  BY <1>1, HostInvariant, PTL

\* Nor does clientSockets change under a thread that iterates over it
\* (server.cpp 36-44, 156-161, 182-185).
THEOREM HostIterationIsStable == HostSpec => IterationStable
<1>1. HostInv /\ [HostNext]_allVars
      => [clientMutex # Free /\ clientMutex' = clientMutex
            => clientSockets' = clientSockets]_vars
  <2> SUFFICES ASSUME HostInv, [HostNext]_allVars, clientMutex # Free, UNCHANGED clientMutex
               PROVE  UNCHANGED clientSockets
    OBVIOUS
  <2>1. [Next]_vars \/ UNCHANGED clientSockets
    <3>1. CASE ServerAndClients
      BY <3>1 DEF ServerAndClients, ChatNext, ChatSessionNext, Clients, ServerUnchanged,
         Unchanged4Peers, sharedVars, Next, SessionNext
    <3>2. CASE Fork \/ ChildExits \/ ChildEnds("program") \/ Reap
      BY <3>2 DEF Fork, ChildExits, ExecSucceeds, ExecFails, ChildLock, ChildClose, ChildJoin,
         ChildEnds, Reap, chatVars, vars, sharedVars
    <3>3. CASE ExitRequest \/ Exits
      BY <3>3 DEF ExitRequest, Exits, StopRequest, Die, vars, sharedVars
    <3>4. CASE UNCHANGED allVars
      BY <3>4 DEF allVars, chatVars, vars, sharedVars
    <3> QED  BY <3>1, <3>2, <3>3, <3>4 DEF HostNext
  <2> QED  BY <2>1, StableStep DEF HostInv, ServerInv
<1> QED  BY <1>1, HostInvariant, PTL DEF HostSpec, IterationStable

\* The receive thread of a client is joined, whatever the server's process does
\* (client.cpp 130-154).
THEOREM HostReceiversAreJoined == HostSpec => []ClientTypeOK
<1>1. HostInv => ClientTypeOK
  BY DEF HostInv
<1> QED  BY <1>1, HostInvariant, PTL

=============================================================================
