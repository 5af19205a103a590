------------------------- MODULE LispServer_proofs -------------------------
(***************************************************************************)
(* Theorems about LispServer, for any number of peers, descriptors,        *)
(* commands and restarts.                                                  *)
(***************************************************************************)
EXTENDS LispServer, TLAPS

-----------------------------------------------------------------------------
(* Types.  One step per action; a send() leaves the types of the network    *)
(* alone, which is a fact of its own because two actions use it.            *)

LEMMA Bounds == MaxStarts \in Nat /\ MaxCmds \in Nat /\ MaxChunk \in Nat
BY BoundsAssumption

LEMMA ReplyType ==
  ASSUME NEW kind \in Replies
  PROVE  Reply(kind) \in Message
BY DEF Reply, Message, Replies

LEMMA AnnouncementType ==
  ASSUME NEW kind \in Broadcasts, NEW n \in Conns \cup {NoConn},
         NEW by \in Conns \cup {NoConn}
  PROVE  Announcement(kind, n, by) \in Message
BY DEF Announcement, Message

LEMMA NoMessageType == NoMessage \in Message
BY ReplyType DEF NoMessage, Replies

NetTypeOK ==
  /\ peer \in [Conns -> {"none", "backlog", "connected", "closed", "reset"}]
  /\ shut \in [Conns -> BOOLEAN]
  /\ inbox \in [Conns -> Seq(Commands)]
  /\ cmds \in 0..MaxCmds
  /\ outbox \in [Conns -> Seq(Message)]
  /\ rcvd \in [Conns -> Nat]

LEMMA SendType ==
  ASSUME TypeOK, NEW f \in FDs, NEW m \in Message, SendOk(f, m) \/ SendFails(f)
  PROVE  NetTypeOK'
<1>1. fdTable[f] \in Conns \cup {NoConn}
  BY DEF TypeOK
<1>2. CASE SendOk(f, m)
  <2> DEFINE c == fdTable[f]
  <2>1. c \in Conns /\ UNCHANGED <<shut, inbox, cmds, rcvd>>
    BY <1>1, <1>2 DEF SendOk
  <2>2. outbox[c] \in Seq(Message) /\ Append(outbox[c], m) \in Seq(Message)
    BY <2>1 DEF TypeOK
  <2>3. \/ outbox' = [outbox EXCEPT ![c] = Append(@, m)] /\ UNCHANGED peer
        \/ peer' = [peer EXCEPT ![c] = "reset"] /\ UNCHANGED outbox
    BY <1>2 DEF SendOk
  <2> HIDE DEF c
  <2> QED  BY <2>1, <2>2, <2>3 DEF TypeOK, NetTypeOK
<1>3. CASE SendFails(f)
  BY <1>3 DEF SendFails, TypeOK, NetTypeOK, netVars
<1> QED  BY <1>2, <1>3

\* A handler that is past "none" holds a real descriptor.
HandlerHasFD == \A h \in Conns : pc[h] # "none" => clientSocket[h] \in FDs

TypeInv == TypeOK /\ HandlerHasFD

LEMMA InitType == Init => TypeInv
<1> SUFFICES ASSUME Init PROVE TypeInv
  OBVIOUS
<1>1. response \in [Conns -> Message]
  BY NoMessageType DEF Init
<1>2. /\ starts \in 0..MaxStarts /\ cmds \in 0..MaxCmds
      /\ pos \in Nat \ {0} /\ broadcasts \in Nat
      /\ rcvd \in [Conns -> Nat]
  BY Bounds DEF Init
<1>3. /\ clientSockets \in Seq(FDs)
      /\ inbox \in [Conns -> Seq(Commands)]
      /\ outbox \in [Conns -> Seq(Message)]
  BY DEF Init
<1>4. HandlerHasFD
  BY DEF Init, HandlerHasFD
<1> QED  BY <1>1, <1>2, <1>3, <1>4 DEF Init, TypeInv, TypeOK, ShellPC, AcceptorPC, HandlerPC

LEMMA ShellType ==
  ASSUME TypeInv, Start \/ StopRequest \/ Stopping
  PROVE  TypeInv'
<1> USE DEF TypeInv, HandlerHasFD, TypeOK, serverVars, lockVars, sharedVars, handlerVars, netVars,
            ShellPC, AcceptorPC
<1>1. CASE Start
  BY <1>1, Bounds DEF Start
<1>2. CASE StopRequest
  BY <1>2 DEF StopRequest
<1>3. CASE CloseAllLock
  BY <1>3 DEF CloseAllLock
<1>4. CASE CloseAllShutdown
  BY <1>4 DEF CloseAllShutdown
<1>5. CASE CloseAllClose
  <2>1. fdTable' \in [FDs -> Conns \cup {NoConn}]
    BY <1>5 DEF CloseAllClose
  <2>2. pos' \in Nat \ {0}
    BY <1>5 DEF CloseAllClose
  <2> QED  BY <1>5, <2>1, <2>2 DEF CloseAllClose
<1>6. CASE CloseAllClear
  BY <1>6 DEF CloseAllClear
<1>7. CASE StopJoin
  BY <1>7 DEF StopJoin
<1> QED  BY <1>1, <1>2, <1>3, <1>4, <1>5, <1>6, <1>7 DEF Stopping

LEMMA AcceptorType ==
  ASSUME TypeInv, Acceptor
  PROVE  TypeInv'
<1> USE DEF TypeInv, HandlerHasFD, TypeOK, serverVars, lockVars, sharedVars,
            handlerVars, netVars, AcceptorPC, HandlerPC, AcceptorMoves
<1>1. ASSUME CloseListener PROVE TypeInv'
  BY <1>1 DEF CloseListener
<1>2. CASE RunSetup
  BY <1>2 DEF RunSetup
<1>3. CASE RunCheck
  BY <1>1, <1>3 DEF RunCheck
<1>4. CASE RunSelectReady \/ RunSelectTimeout
  BY <1>4 DEF RunSelectReady, RunSelectTimeout
<1>5. CASE RunSelectError
  BY <1>1, <1>5 DEF RunSelectError
<1>6. CASE RunAccept
  <2>1. CASE \A f \in FDs : fdTable[f] # NoConn
    BY <1>6, <2>1 DEF RunAccept
  <2>2. ASSUME NEW c \in Conns, NEW f \in FDs,
               fdTable' = [fdTable EXCEPT ![f] = c],
               peer' = [peer EXCEPT ![c] = "connected"],
               pc' = [pc EXCEPT ![c] = "start"],
               clientSocket' = [clientSocket EXCEPT ![c] = f],
               UNCHANGED <<source, authenticated, username, response,
                           shut, inbox, cmds, outbox, rcvd>>
        PROVE  TypeInv'
    BY <1>6, <2>2 DEF RunAccept
  <2> QED  BY <1>6, <2>1, <2>2 DEF RunAccept
<1> QED  BY <1>2, <1>3, <1>4, <1>5, <1>6 DEF Acceptor, AcceptorRuns

LEMMA HandlerType ==
  ASSUME TypeInv, NEW h \in Conns, Handler(h)
  PROVE  TypeInv'
<1> USE DEF TypeInv, HandlerHasFD, TypeOK, serverVars, lockVars, sharedVars,
            handlerVars, netVars, HandlerPC, Goto
<1>1. CASE Register(h)
  BY <1>1 DEF Register
<1>2. CASE Check(h)
  BY <1>2 DEF Check
<1>12. CASE ReadCall(h)
  <2>1. fdTable[clientSocket[h]] \in Conns \cup {NoConn}
    BY <1>12 DEF ReadCall
  <2> QED  BY <1>12, <2>1 DEF ReadCall
<1>3. CASE ReadEnd(h)
  BY <1>3 DEF ReadEnd
<1>4. CASE Read(h)
  <2>1. PICK n \in 1..MaxChunk :
          /\ n <= Len(inbox[source[h]])
          /\ Dispatch(h, Classify(SubSeq(inbox[source[h]], 1, n)))
          /\ inbox' = [inbox EXCEPT ![source[h]] = SubSeq(@, n + 1, Len(@))]
    BY <1>4 DEF Read
  <2>2. source[h] \in Conns
    BY <1>4 DEF Read
  <2>3. inbox' \in [Conns -> Seq(Commands)]
    <3>1. inbox[source[h]] \in Seq(Commands)
      BY <2>2
    <3>2. SubSeq(inbox[source[h]], n + 1, Len(inbox[source[h]])) \in Seq(Commands)
      BY <3>1, <2>1, Bounds
    <3> QED  BY <2>1, <3>2
  <2>4. /\ pc' \in [Conns -> HandlerPC]
        /\ \A g \in Conns : pc'[g] # "none" => pc[g] # "none"
        /\ username' \in [Conns -> Conns \cup {NoConn}]
        /\ authenticated' \in [Conns -> BOOLEAN]
        /\ response' \in [Conns -> Message]
    <3> DEFINE command == Classify(SubSeq(inbox[source[h]], 1, n))
    <3>1. Dispatch(h, command)
      BY <2>1
    <3>2. pc[h] = "read"
      BY <1>4 DEF Read
    <3>3. Reply("200") \in Message /\ Reply("100") \in Message
          /\ Reply("BAD_REQ") \in Message /\ Reply("NOT_AUTHENTICATED") \in Message
      BY ReplyType DEF Replies
    <3> HIDE DEF command
    <3>4. /\ \E to \in {"respond", "lookup", "naming", "close"} : Goto(h, to)
          /\ \/ UNCHANGED response
             \/ \E m \in Message : response' = [response EXCEPT ![h] = m]
          /\ \/ UNCHANGED <<username, authenticated>>
             \/ /\ username' = [username EXCEPT ![h] = source[h]]
                /\ authenticated' = [authenticated EXCEPT ![h] = TRUE]
      <4> HIDE DEF TypeOK, TypeInv, HandlerHasFD, HandlerPC
      <4> QED  BY <3>1, <3>3 DEF Dispatch
    <3>5. response' \in [Conns -> Message]
      BY <3>4
    <3>6. /\ pc' \in [Conns -> HandlerPC]
          /\ \A g \in Conns : pc'[g] # "none" => pc[g] # "none"
      BY <3>2, <3>4
    <3> QED  BY <2>2, <3>4, <3>5, <3>6
  <2> QED  BY <1>4, <2>3, <2>4 DEF Read
<1>5. CASE SetName(h)
  <2>1. Announcement("joined", username[h], source[h]) \in Message
    BY AnnouncementType DEF Broadcasts
  <2> QED  BY <1>5, <2>1 DEF SetName
<1>6. CASE LookupName(h)
  <2>1. clientUsernames[clientSocket[h]] \in Conns \cup {NoConn}
    BY <1>6 DEF LookupName
  <2>2. Announcement("chat", clientUsernames[clientSocket[h]], source[h]) \in Message
    BY <2>1, AnnouncementType DEF Broadcasts
  <2> QED  BY <1>6, <2>2 DEF LookupName
<1>7. CASE BroadcastLock(h)
  <2>1. response[h] \in Message /\ broadcasts + 1 \in Nat
    OBVIOUS
  <2>2. [response[h] EXCEPT !.id = broadcasts + 1] \in Message
    BY <2>1 DEF Message
  <2> QED  BY <1>7, <2>1, <2>2 DEF BroadcastLock
<1>8. CASE BroadcastSend(h)
  <2>1. clientSockets[pos] \in FDs /\ response[h] \in Message
    BY <1>8 DEF BroadcastSend
  <2>2. NetTypeOK'
    <3> HIDE DEF TypeOK
    <3> QED  BY <1>8, <2>1, SendType DEF BroadcastSend
  <2>3. /\ pos' = pos + 1
        /\ UNCHANGED <<proc, serverVars, clientMutex, sharedVars, fdTable,
                       handlerVars, broadcasts>>
    BY <1>8 DEF BroadcastSend
  <2>4. HandlerHasFD'
    BY <2>3
  <2>5. TypeOK'
    <3>1. pos' \in Nat \ {0}
      BY <2>3
    <3> QED  BY <2>2, <2>3, <3>1 DEF NetTypeOK
  <2> QED  BY <2>4, <2>5
<1>9. CASE BroadcastUnlock(h)
  <2>1. Reply("USER_OK") \in Message
    BY ReplyType DEF Replies
  <2>2. /\ \E to \in {"respond", "check", "done"} : Goto(h, to)
        /\ \E m \in Message : response' = [response EXCEPT ![h] = m]
    BY <1>9, <2>1, NoMessageType DEF BroadcastUnlock
  <2>3. pc[h] # "none"
    BY <1>9 DEF BroadcastUnlock
  <2>4. response' \in [Conns -> Message]
    BY <2>2
  <2>5. /\ pc' \in [Conns -> HandlerPC]
        /\ \A g \in Conns : pc'[g] # "none" => pc[g] # "none"
    BY <2>2, <2>3
  <2> QED  BY <1>9, <2>4, <2>5 DEF BroadcastUnlock
<1>10. CASE Respond(h)
  <2>1. clientSocket[h] \in FDs /\ response[h] \in Message
    BY <1>10 DEF Respond
  <2>2. NetTypeOK'
    <3> HIDE DEF TypeOK
    <3> QED  BY <1>10, <2>1, SendType DEF Respond
  <2> QED  BY <1>10, <2>2, NoMessageType DEF Respond, NetTypeOK
<1>11. CASE Close(h)
  <2>1. Announcement("left", username[h], source[h]) \in Message
    BY AnnouncementType DEF Broadcasts
  <2>2. /\ \E to \in {"lock", "done"} : Goto(h, to)
        /\ \/ UNCHANGED response
           \/ \E m \in Message : response' = [response EXCEPT ![h] = m]
    BY <1>11, <2>1 DEF Close
  <2>3. pc[h] # "none" /\ fdTable' = [fdTable EXCEPT ![clientSocket[h]] = NoConn]
    BY <1>11 DEF Close
  <2>4. response' \in [Conns -> Message]
    BY <2>2
  <2>5. /\ pc' \in [Conns -> HandlerPC]
        /\ \A g \in Conns : pc'[g] # "none" => pc[g] # "none"
    BY <2>2, <2>3
  <2>6. fdTable' \in [FDs -> Conns \cup {NoConn}]
    BY <2>3
  <2> QED  BY <1>11, <2>4, <2>5, <2>6 DEF Close
<1> QED  BY <1>1, <1>2, <1>3, <1>4, <1>5, <1>6, <1>7, <1>8, <1>9, <1>10, <1>11, <1>12
         DEF Handler

LEMMA PeerType ==
  ASSUME TypeInv, Peers
  PROVE  TypeInv'
<1> USE DEF TypeInv, HandlerHasFD, TypeOK, serverVars, lockVars, sharedVars,
            handlerVars, netVars, Unchanged4Peers
<1> PICK c \in Conns : PeerConnect(c) \/ PeerSend(c) \/ PeerRead(c) \/ PeerClose(c)
  BY DEF Peers
<1>1. CASE PeerConnect(c)
  BY <1>1 DEF PeerConnect
<1>2. CASE PeerSend(c)
  BY <1>2, Bounds DEF PeerSend
<1>3. CASE PeerRead(c)
  BY <1>3 DEF PeerRead
<1>4. CASE PeerClose(c)
  BY <1>4 DEF PeerClose
<1> QED  BY <1>1, <1>2, <1>3, <1>4

LEMMA DeathType ==
  ASSUME TypeInv, BrokenPipe \/ UsernamesRace
  PROVE  TypeInv'
BY DEF TypeInv, HandlerHasFD, TypeOK, BrokenPipe, UsernamesRace, Die, serverVars,
       lockVars, sharedVars, handlerVars, netVars

LEMMA TypeStep == TypeInv /\ [Next]_vars => TypeInv'
<1> SUFFICES ASSUME TypeInv, [Next]_vars PROVE TypeInv'
  OBVIOUS
<1>1. CASE UNCHANGED vars
  BY <1>1 DEF vars, TypeInv, HandlerHasFD, TypeOK, serverVars, lockVars,
              sharedVars, handlerVars, netVars
<1>2. CASE Next
  BY <1>2, ShellType, AcceptorType, HandlerType, PeerType, DeathType
     DEF Next, SessionNext, ServerRuns
<1> QED  BY <1>1, <1>2

\* Every variable keeps the type the code gives it, in every interleaving of
\* the shell, the acceptor, the handlers and the peers (server.h 24-32).
THEOREM TypeCorrect == Spec => []TypeOK
<1>1. Spec => []TypeInv
  BY InitType, TypeStep, PTL DEF Spec
<1>2. TypeInv => TypeOK
  BY DEF TypeInv
<1> QED  BY <1>1, <1>2, PTL

-----------------------------------------------------------------------------
(* What the threads leave alone.                                           *)

LEMMA HandlerFrame ==
  ASSUME NEW h \in Conns, Handler(h)
  PROVE  /\ UNCHANGED <<proc, serverVars>>
         /\ pc[h] \in HandlerPC \ {"none", "done"}
BY DEF Handler, Register, Check, ReadCall, ReadEnd, Read, SetName, LookupName,
       BroadcastLock, BroadcastSend, BroadcastUnlock, Respond, Close, HandlerPC

LEMMA PeerFrame ==
  ASSUME Peers
  PROVE  UNCHANGED Unchanged4Peers
BY DEF Peers, PeerConnect, PeerSend, PeerRead, PeerClose

LEMMA DeathFrame ==
  ASSUME BrokenPipe \/ UsernamesRace
  PROVE  UNCHANGED <<serverVars, lockVars, sharedVars, fdTable, handlerVars,
                     broadcasts, netVars>>
BY DEF BrokenPipe, UsernamesRace, Die

LEMMA AcceptorFrame ==
  ASSUME Acceptor
  PROVE  /\ acceptor \in AcceptorPC \ {"none", "exited"}
         /\ acceptor' \in AcceptorPC \ {"none"}
         /\ UNCHANGED <<proc, running, serverThread, starts, shell, lockVars,
                        sharedVars, broadcasts>>
BY DEF Acceptor, AcceptorRuns, RunSetup, RunCheck, RunSelectReady, RunSelectTimeout,
       RunSelectError, RunAccept, CloseListener, AcceptorMoves, AcceptorPC

-----------------------------------------------------------------------------
(* start() after stop().  RestartSafe is not inductive: it needs that the  *)
(* thread object is joinable exactly while an acceptor exists.             *)

StopInv ==
  /\ serverThread <=> acceptor # "none"
  /\ shell = "idle" /\ ~running => acceptor = "none"

LEMMA StopStep == TypeOK /\ StopInv /\ [Next]_vars => StopInv'
<1> SUFFICES ASSUME TypeOK, StopInv, [Next]_vars PROVE StopInv'
  OBVIOUS
<1> USE DEF StopInv
<1>1. CASE UNCHANGED serverVars
  BY <1>1 DEF serverVars
<1>2. CASE Start
  BY <1>2 DEF Start
<1>3. CASE StopRequest
  BY <1>3 DEF StopRequest
<1>4. CASE Stopping
  BY <1>4 DEF Stopping, CloseAllLock, CloseAllShutdown, CloseAllClose,
              CloseAllClear, StopJoin
<1>5. CASE Acceptor
  BY <1>5, AcceptorFrame
<1>6. CASE Peers
  BY <1>1, <1>6, PeerFrame DEF Unchanged4Peers
<1>7. CASE BrokenPipe \/ UsernamesRace
  BY <1>1, <1>7, DeathFrame
<1>8. CASE \E h \in Conns : Handler(h)
  BY <1>1, <1>8, HandlerFrame
<1>9. CASE UNCHANGED vars
  BY <1>1, <1>9 DEF vars
<1> QED  BY <1>2, <1>3, <1>4, <1>5, <1>6, <1>7, <1>8, <1>9 DEF Next, SessionNext, ServerRuns

\* Whenever the shell can run start() on a stopped server, the previous
\* acceptor has been joined and has closed the listening socket, so that the
\* assignment to serverThread is legal (server.cpp 19-34).
THEOREM RestartIsSafe == Spec => []RestartSafe
<1>1. Init => StopInv
  BY DEF Init, StopInv
<1>2. Spec => []StopInv
  BY <1>1, StopStep, TypeCorrect, PTL DEF Spec
<1>3. StopInv => RestartSafe
  BY DEF StopInv, RestartSafe, Listening
<1> QED  BY <1>2, <1>3, PTL

-----------------------------------------------------------------------------
(* Descriptors.  NoLeakedDescriptor needs that a connection not accepted   *)
(* yet has no handler.                                                     *)

NotAccepted == \A c \in Conns : peer[c] \in {"none", "backlog"} => pc[c] = "none"

DescriptorInv == NotAccepted /\ NoLeakedDescriptor

LEMMA DescriptorFrame ==
  ASSUME DescriptorInv, UNCHANGED <<fdTable, handlerVars>>,
         \A c \in Conns : peer'[c] \in {"none", "backlog"}
                            => peer[c] \in {"none", "backlog"}
  PROVE  DescriptorInv'
BY DEF DescriptorInv, NotAccepted, NoLeakedDescriptor, Serving, handlerVars

LEMMA DescriptorShell ==
  ASSUME TypeOK, DescriptorInv, Start \/ StopRequest \/ Stopping
  PROVE  DescriptorInv'
<1>1. CASE CloseAllClose
  BY <1>1 DEF CloseAllClose, DescriptorInv, NotAccepted, NoLeakedDescriptor,
              Serving, TypeOK, handlerVars, netVars
<1>2. CASE ~CloseAllClose
  BY <1>2, DescriptorFrame DEF Start, StopRequest, Stopping, CloseAllLock,
     CloseAllShutdown, CloseAllClear, StopJoin, netVars
<1> QED  BY <1>1, <1>2

LEMMA DescriptorAcceptor ==
  ASSUME TypeOK, DescriptorInv, Acceptor
  PROVE  DescriptorInv'
<1>1. ASSUME NEW c \in Conns, NEW f \in FDs,
             peer[c] = "backlog", fdTable[f] = NoConn,
             fdTable' = [fdTable EXCEPT ![f] = c],
             peer' = [peer EXCEPT ![c] = "connected"],
             pc' = [pc EXCEPT ![c] = "start"],
             clientSocket' = [clientSocket EXCEPT ![c] = f],
             UNCHANGED response
      PROVE  DescriptorInv'
  <2>1. pc[c] = "none"
    BY <1>1 DEF DescriptorInv, NotAccepted
  <2>2. \A g \in FDs : fdTable[g] # c
    BY <2>1, ConnsAssumption DEF DescriptorInv, NoLeakedDescriptor, Serving
  <2> QED  BY <1>1, <2>1, <2>2 DEF DescriptorInv, NotAccepted,
              NoLeakedDescriptor, Serving, TypeOK
<1>2. ASSUME CloseListener PROVE DescriptorInv'
  BY <1>2, DescriptorFrame DEF CloseListener, TypeOK
<1>3. CASE RunAccept
  BY <1>1, <1>3, DescriptorFrame DEF RunAccept, netVars
<1>4. CASE ~RunAccept
  BY <1>2, <1>4, DescriptorFrame DEF Acceptor, AcceptorRuns, RunSetup, RunCheck,
     RunSelectReady, RunSelectTimeout, RunSelectError, netVars
<1> QED  BY <1>3, <1>4

LEMMA DescriptorPeers ==
  ASSUME TypeOK, DescriptorInv, Peers
  PROVE  DescriptorInv'
<1> PICK c \in Conns : PeerConnect(c) \/ PeerSend(c) \/ PeerRead(c) \/ PeerClose(c)
  BY DEF Peers
<1>1. UNCHANGED <<fdTable, handlerVars>>
  BY PeerFrame DEF Unchanged4Peers
<1>2. \A d \in Conns : peer'[d] \in {"none", "backlog"}
                          => peer[d] \in {"none", "backlog"}
  BY DEF PeerConnect, PeerSend, PeerRead, PeerClose, TypeOK
<1> QED  BY <1>1, <1>2, DescriptorFrame

\* What a send() does to the far ends.
LEMMA SendFrame ==
  ASSUME TypeOK, NEW f \in FDs, NEW m, SendOk(f, m) \/ SendFails(f)
  PROVE  \A c \in Conns : peer'[c] \in {"none", "backlog"}
                             => peer[c] \in {"none", "backlog"}
BY DEF SendOk, SendFails, TypeOK, netVars

\* A handler that moves without closing and stays on the near side of close().
LEMMA DescriptorMove ==
  ASSUME TypeOK, DescriptorInv, NEW h \in Conns, pc[h] # "none",
         NEW to \in HandlerPC, Goto(h, to),
         \A g \in Conns : g # h => response'[g] = response[g],
         Serving(h) => Serving(h)',
         UNCHANGED <<clientSocket, fdTable>>,
         \A c \in Conns : peer'[c] \in {"none", "backlog"}
                            => peer[c] \in {"none", "backlog"}
  PROVE  DescriptorInv'
BY DEF DescriptorInv, NotAccepted, NoLeakedDescriptor, Serving, Goto, TypeOK

LEMMA DescriptorHandler ==
  ASSUME TypeInv, DescriptorInv, NEW h \in Conns, Handler(h)
  PROVE  DescriptorInv'
<1> DEFINE Moves(to) ==
      /\ Goto(h, to)
      /\ \A g \in Conns : g # h => response'[g] = response[g]
      /\ Serving(h) => Serving(h)'
      /\ UNCHANGED <<clientSocket, fdTable>>
      /\ \A c \in Conns : peer'[c] \in {"none", "backlog"}
                            => peer[c] \in {"none", "backlog"}
<1>0. TypeOK /\ pc[h] # "none" /\ pc \in [Conns -> HandlerPC]
      /\ response \in [Conns -> Message]
  BY HandlerFrame DEF TypeInv, TypeOK
<1>1. ASSUME NEW to \in HandlerPC, Moves(to) PROVE DescriptorInv'
  BY <1>0, <1>1, DescriptorMove
<1>2. CASE Register(h)
  <2>1. Moves("check")
    BY <1>0, <1>2 DEF Register, Goto, Serving, netVars
  <2> QED  BY <1>1, <2>1 DEF HandlerPC
<1>3. CASE Check(h) \/ ReadCall(h)
  <2>1. \E to \in {"call", "read", "close"} : Moves(to)
    BY <1>0, <1>3 DEF Check, ReadCall, Goto, Serving, netVars
  <2> QED  BY <1>1, <2>1 DEF HandlerPC
<1>4. CASE ReadEnd(h)
  <2>1. Moves("close")
    BY <1>0, <1>4 DEF ReadEnd, Goto, Serving, netVars
  <2> QED  BY <1>1, <2>1 DEF HandlerPC
<1>5. CASE Read(h)
  <2>1. \E to \in {"respond", "lookup", "naming", "close"} : Moves(to)
    BY <1>0, <1>5 DEF Read, Dispatch, Goto, Serving
  <2> QED  BY <1>1, <2>1 DEF HandlerPC
<1>6. CASE SetName(h)
  <2>1. Moves("lock")
    BY <1>0, <1>6 DEF SetName, Goto, Serving, Announcement, netVars
  <2> QED  BY <1>1, <2>1 DEF HandlerPC
<1>7. CASE LookupName(h)
  <2>1. Moves("lock")
    BY <1>0, <1>7 DEF LookupName, Goto, Serving, Announcement, netVars
  <2> QED  BY <1>1, <2>1 DEF HandlerPC
<1>8. CASE BroadcastLock(h)
  <2>1. [response[h] EXCEPT !.id = broadcasts + 1].kind = response[h].kind
    BY <1>0 DEF Message
  <2>2. Moves("sending")
    BY <1>0, <1>8, <2>1 DEF BroadcastLock, Goto, Serving, netVars
  <2> QED  BY <1>1, <2>2 DEF HandlerPC
<1>9. CASE BroadcastSend(h)
  <2>1. clientSockets[pos] \in FDs
    BY <1>0, <1>9 DEF BroadcastSend, TypeOK
  <2> QED  BY <1>0, <1>9, <2>1, SendFrame, DescriptorFrame DEF BroadcastSend
<1>10. CASE BroadcastUnlock(h)
  <2>1. \E to \in {"respond", "check", "done"} : Moves(to)
    BY <1>0, <1>10 DEF BroadcastUnlock, Goto, Serving, netVars
  <2> QED  BY <1>1, <2>1 DEF HandlerPC
<1>11. CASE Respond(h)
  <2>1. clientSocket[h] \in FDs
    BY <1>0 DEF TypeInv, HandlerHasFD
  <2>2. \A c \in Conns : peer'[c] \in {"none", "backlog"}
                            => peer[c] \in {"none", "backlog"}
    BY <1>0, <1>11, <2>1, SendFrame DEF Respond
  <2>3. \E to \in {"check", "close"} : Moves(to)
    BY <1>0, <1>11, <2>2 DEF Respond, Goto, Serving
  <2> QED  BY <1>1, <2>3 DEF HandlerPC
<1>12. CASE Close(h)
  <2>1. /\ fdTable' = [fdTable EXCEPT ![clientSocket[h]] = NoConn]
        /\ UNCHANGED <<clientSocket, peer>>
        /\ \E to \in {"lock", "done"} : Goto(h, to)
        /\ \A g \in Conns : g # h => response'[g] = response[g]
    BY <1>0, <1>12 DEF Close, netVars
  <2> QED  BY <1>0, <2>1 DEF DescriptorInv, NotAccepted, NoLeakedDescriptor,
              Serving, Goto, TypeOK
<1> QED  BY <1>2, <1>3, <1>4, <1>5, <1>6, <1>7, <1>8, <1>9, <1>10, <1>11, <1>12
         DEF Handler

LEMMA DescriptorStep == TypeInv /\ DescriptorInv /\ [Next]_vars => DescriptorInv'
<1> SUFFICES ASSUME TypeInv, DescriptorInv, [Next]_vars PROVE DescriptorInv'
  OBVIOUS
<1>1. CASE UNCHANGED vars
  BY <1>1, DescriptorFrame DEF vars, netVars
<1>2. CASE BrokenPipe \/ UsernamesRace
  BY <1>2, DeathFrame, DescriptorFrame DEF netVars
<1>3. CASE Next
  BY <1>2, <1>3, DescriptorShell, DescriptorAcceptor, DescriptorPeers,
     DescriptorHandler DEF Next, SessionNext, ServerRuns, TypeInv
<1> QED  BY <1>1, <1>3

\* No accepted descriptor is leaked: while one is open, the handler it was
\* accepted for still has its close() ahead (server.cpp 139-147, 187-233).
THEOREM DescriptorsAreOwned == Spec => []NoLeakedDescriptor
<1>1. Init => DescriptorInv
  BY DEF Init, DescriptorInv, NotAccepted, NoLeakedDescriptor
<1>2. Spec => [](TypeInv /\ DescriptorInv)
  BY <1>1, InitType, TypeStep, DescriptorStep, PTL DEF Spec
<1>3. DescriptorInv => NoLeakedDescriptor
  BY DEF DescriptorInv
<1> QED  BY <1>2, <1>3, PTL

-----------------------------------------------------------------------------
(* The mutex.  Its owner is exactly the thread inside one of the two       *)
(* lock_guard blocks that iterate, so nobody else touches clientSockets.   *)

LockInv ==
  /\ shell \in {"shutdown", "close"} <=> clientMutex = Shell
  /\ \A h \in Conns : pc[h] = "sending" <=> clientMutex = h

LEMMA LockStep ==
  TypeInv /\ DescriptorInv /\ LockInv /\ [Next]_vars => LockInv'
<1> SUFFICES ASSUME TypeInv, DescriptorInv, LockInv, [Next]_vars PROVE LockInv'
  OBVIOUS
<1>0. pc \in [Conns -> HandlerPC] /\ ConnsAssumption
  BY ConnsAssumption DEF TypeInv, TypeOK
<1> USE DEF LockInv
<1>1. CASE UNCHANGED <<shell, clientMutex, pc>>
  BY <1>1
<1>2. CASE Start \/ StopRequest \/ Stopping
  BY <1>0, <1>2 DEF Start, StopRequest, Stopping, CloseAllLock, CloseAllShutdown,
     CloseAllClose, CloseAllClear, StopJoin, ConnsAssumption, lockVars, handlerVars
<1>3. CASE Acceptor
  <2>1. UNCHANGED <<shell, clientMutex>>
    BY <1>3, AcceptorFrame DEF lockVars
  <2>2. UNCHANGED pc \/ \E c \in Conns : peer[c] = "backlog"
                                      /\ pc' = [pc EXCEPT ![c] = "start"]
    BY <1>3 DEF Acceptor, AcceptorRuns, RunSetup, RunCheck, RunSelectReady, RunSelectTimeout,
       RunSelectError, RunAccept, CloseListener, handlerVars
  <2>3. \A h \in Conns : pc'[h] = "sending" <=> pc[h] = "sending"
    BY <1>0, <2>2 DEF DescriptorInv, NotAccepted
  <2> QED  BY <2>1, <2>3
<1>4. ASSUME NEW h \in Conns, Handler(h) PROVE LockInv'
  <2>1. UNCHANGED shell
    BY <1>4, HandlerFrame DEF serverVars
  <2>2. CASE BroadcastLock(h)
    BY <1>0, <2>1, <2>2 DEF BroadcastLock, Goto, ConnsAssumption
  <2>3. CASE BroadcastUnlock(h)
    BY <1>0, <2>1, <2>3 DEF BroadcastUnlock, Goto, ConnsAssumption
  <2>4. CASE BroadcastSend(h)
    BY <2>1, <2>4 DEF BroadcastSend, handlerVars
  <2>5. CASE ~(BroadcastLock(h) \/ BroadcastUnlock(h) \/ BroadcastSend(h))
    <3>1. /\ UNCHANGED clientMutex
          /\ pc[h] # "sending"
          /\ \E to \in HandlerPC \ {"sending"} : pc' = [pc EXCEPT ![h] = to]
      BY <1>4, <2>5 DEF Handler, Register, Check, ReadCall, ReadEnd, Read, Dispatch, SetName,
         LookupName, Respond, Close, Goto, lockVars, HandlerPC
    <3> QED  BY <1>0, <2>1, <3>1
  <2> QED  BY <2>2, <2>3, <2>4, <2>5
<1>5. CASE Peers
  BY <1>1, <1>5, PeerFrame DEF Unchanged4Peers, serverVars, lockVars, handlerVars
<1>6. CASE BrokenPipe \/ UsernamesRace
  BY <1>1, <1>6, DeathFrame DEF serverVars, lockVars, handlerVars
<1>7. CASE UNCHANGED vars
  BY <1>1, <1>7 DEF vars, serverVars, lockVars, handlerVars
<1> QED  BY <1>2, <1>3, <1>4, <1>5, <1>6, <1>7 DEF Next, SessionNext, ServerRuns

LEMMA StableStep ==
  ASSUME LockInv, [Next]_vars, clientMutex # Free, UNCHANGED clientMutex
  PROVE  UNCHANGED clientSockets
<1>1. CASE Start \/ StopRequest \/ Stopping
  BY <1>1, ConnsAssumption DEF LockInv, Start, StopRequest, Stopping, CloseAllLock,
     CloseAllShutdown, CloseAllClose, CloseAllClear, StopJoin, sharedVars,
     ConnsAssumption
<1>2. CASE Acceptor
  BY <1>2, AcceptorFrame DEF sharedVars
<1>3. ASSUME NEW h \in Conns, Handler(h) PROVE UNCHANGED clientSockets
  BY <1>3 DEF Handler, Register, Check, ReadCall, ReadEnd, Read, SetName, LookupName,
     BroadcastLock, BroadcastSend, BroadcastUnlock, Respond, Close, sharedVars
<1>4. CASE Peers
  BY <1>4, PeerFrame DEF Unchanged4Peers, sharedVars
<1>5. CASE BrokenPipe \/ UsernamesRace
  BY <1>5, DeathFrame DEF sharedVars
<1>6. CASE UNCHANGED vars
  BY <1>6 DEF vars, sharedVars
<1> QED  BY <1>1, <1>2, <1>3, <1>4, <1>5, <1>6 DEF Next, SessionNext, ServerRuns

\* No thread changes clientSockets while another iterates over it: the two
\* range-for loops never see their vector move (server.cpp 36-44, 156-161,
\* 182-185).
THEOREM IterationIsStable == Spec => IterationStable
<1>1. Init => LockInv
  BY ConnsAssumption DEF Init, LockInv, ConnsAssumption
<1>2. Init => DescriptorInv
  BY DEF Init, DescriptorInv, NotAccepted, NoLeakedDescriptor
<1>3. Spec => [](TypeInv /\ DescriptorInv /\ LockInv)
  BY <1>1, <1>2, InitType, TypeStep, DescriptorStep, LockStep, PTL DEF Spec
<1>4. LockInv /\ [Next]_vars
      => [clientMutex # Free /\ clientMutex' = clientMutex
            => clientSockets' = clientSockets]_vars
  BY StableStep
<1> QED  BY <1>3, <1>4, PTL DEF Spec, IterationStable

-----------------------------------------------------------------------------
(* Registration.  closeAllConnections() empties the list although accept() *)
(* may reuse a number it has just closed: OpenIsRegistered survives because *)
(* a handler started meanwhile is still waiting for the mutex.             *)

\* The part of the list closeAllConnections() has been through.
ClosedPart ==
  shell \in {"shutdown", "close"} =>
    \A i \in 1..Len(clientSockets), c \in Conns :
      i < pos /\ fdTable[clientSockets[i]] = c => pc[c] = "start"

RegisteredInv == OpenIsRegistered /\ ClosedPart

LEMMA RegisteredFrame ==
  ASSUME RegisteredInv,
         UNCHANGED <<shell, lockVars, clientSockets, fdTable, pc, clientSocket>>
  PROVE  RegisteredInv'
BY DEF RegisteredInv, OpenIsRegistered, ClosedPart, Registered, lockVars

LEMMA RegisteredShell ==
  ASSUME TypeOK, RegisteredInv, Start \/ StopRequest \/ Stopping
  PROVE  RegisteredInv'
<1> USE DEF RegisteredInv, handlerVars, lockVars, sharedVars
<1>1. CASE CloseAllLock
  BY <1>1 DEF CloseAllLock, OpenIsRegistered, ClosedPart, Registered
<1>2. CASE CloseAllClose
  <2>1. OpenIsRegistered'
    BY <1>2, ConnsAssumption DEF CloseAllClose, OpenIsRegistered, Registered,
       TypeOK, ConnsAssumption
  <2>2. ClosedPart'
    <3> SUFFICES ASSUME NEW i \in 1..Len(clientSockets), NEW c \in Conns,
                        i < pos', fdTable'[clientSockets[i]] = c
                 PROVE  pc[c] = "start"
      BY <1>2 DEF CloseAllClose, ClosedPart
    <3>1. /\ clientSockets[i] \in FDs
          /\ fdTable' = [fdTable EXCEPT ![clientSockets[pos]] = NoConn]
          /\ pos' = pos + 1 /\ shell = "close"
      BY <1>2 DEF CloseAllClose, TypeOK
    <3>2. clientSockets[i] # clientSockets[pos] /\ fdTable[clientSockets[i]] = c
      BY <3>1, ConnsAssumption DEF TypeOK, ConnsAssumption
    <3>3. i < pos
      BY <3>1, <3>2 DEF TypeOK
    <3> QED  BY <3>1, <3>2, <3>3 DEF ClosedPart
  <2> QED  BY <2>1, <2>2
<1>3. CASE CloseAllClear
  <2>1. ASSUME NEW c \in Conns, pc[c] \notin {"none", "start"},
               fdTable[clientSocket[c]] = c
        PROVE  FALSE
    <3>1. PICK i \in 1..Len(clientSockets) : clientSockets[i] = clientSocket[c]
      BY <2>1 DEF OpenIsRegistered, Registered
    <3>2. i < pos /\ shell = "shutdown"
      BY <1>3 DEF CloseAllClear, TypeOK
    <3> QED  BY <2>1, <3>1, <3>2 DEF ClosedPart
  <2> QED  BY <1>3, <2>1 DEF CloseAllClear, OpenIsRegistered, ClosedPart
<1>4. CASE Start \/ StopRequest \/ CloseAllShutdown \/ StopJoin
  BY <1>4 DEF Start, StopRequest, CloseAllShutdown, StopJoin, OpenIsRegistered,
     ClosedPart, Registered
<1> QED  BY <1>1, <1>2, <1>3, <1>4 DEF Stopping

LEMMA RegisteredAcceptor ==
  ASSUME TypeInv, DescriptorInv, RegisteredInv, Acceptor
  PROVE  RegisteredInv'
<1>0. UNCHANGED <<shell, lockVars, clientSockets>>
  BY AcceptorFrame DEF sharedVars
<1>1. ASSUME NEW c \in Conns, NEW f \in FDs,
             peer[c] = "backlog", fdTable[f] = NoConn,
             fdTable' = [fdTable EXCEPT ![f] = c],
             pc' = [pc EXCEPT ![c] = "start"],
             clientSocket' = [clientSocket EXCEPT ![c] = f]
      PROVE  RegisteredInv'
  <2>1. \A d \in Conns : pc'[d] = IF d = c THEN "start" ELSE pc[d]
    BY <1>1 DEF TypeInv, TypeOK
  <2>2. \A d \in Conns : d # c /\ pc[d] # "none" =>
          /\ clientSocket'[d] = clientSocket[d]
          /\ fdTable'[clientSocket'[d]] = d => fdTable[clientSocket[d]] = d
    BY <1>1 DEF TypeInv, TypeOK, HandlerHasFD
  <2>3. OpenIsRegistered'
    BY <1>0, <2>1, <2>2 DEF RegisteredInv, OpenIsRegistered, Registered
  <2>4. ClosedPart'
    <3> SUFFICES ASSUME shell \in {"shutdown", "close"},
                        NEW i \in 1..Len(clientSockets), NEW d \in Conns,
                        i < pos, fdTable'[clientSockets[i]] = d, d # c
                 PROVE  pc[d] = "start"
      BY <1>0, <2>1 DEF ClosedPart, lockVars
    <3>1. clientSockets[i] \in FDs
      BY DEF TypeInv, TypeOK
    <3>2. fdTable[clientSockets[i]] = d
      BY <1>1, <3>1 DEF TypeInv, TypeOK
    <3> QED  BY <3>2 DEF RegisteredInv, ClosedPart
  <2> QED  BY <2>3, <2>4 DEF RegisteredInv
<1>2. CASE RunAccept
  BY <1>0, <1>1, <1>2, RegisteredFrame DEF RunAccept, handlerVars
<1>3. CASE ~RunAccept
  BY <1>0, <1>3, RegisteredFrame DEF Acceptor, AcceptorRuns, RunSetup, RunCheck,
     RunSelectReady, RunSelectTimeout, RunSelectError, CloseListener, handlerVars
<1> QED  BY <1>2, <1>3

LEMMA RegisteredHandler ==
  ASSUME TypeInv, LockInv, RegisteredInv, NEW h \in Conns, Handler(h)
  PROVE  RegisteredInv'
<1>0. UNCHANGED shell /\ pc[h] \in HandlerPC \ {"none", "done"}
  BY HandlerFrame DEF serverVars
<1>1. CASE Register(h)
  <2>1. shell \notin {"shutdown", "close"}
    BY <1>1, ConnsAssumption DEF Register, LockInv, ConnsAssumption
  <2>2. Registered' = Registered \cup {clientSocket[h]}
    <3>1. clientSockets \in Seq(FDs) /\ clientSocket[h] \in FDs
      BY <1>0 DEF TypeInv, TypeOK, HandlerHasFD
    <3>2. clientSockets' = Append(clientSockets, clientSocket[h])
      BY <1>1 DEF Register
    <3>3. /\ Len(clientSockets') = Len(clientSockets) + 1
          /\ \A i \in 1..Len(clientSockets) : clientSockets'[i] = clientSockets[i]
          /\ clientSockets'[Len(clientSockets) + 1] = clientSocket[h]
      BY <3>1, <3>2
    <3>4. Len(clientSockets) \in Nat
      BY <3>1
    <3> QED  BY <3>3, <3>4 DEF Registered
  <2> QED  BY <1>0, <1>1, <2>1, <2>2 DEF Register, RegisteredInv, OpenIsRegistered,
              ClosedPart, Goto, TypeInv, TypeOK
<1>2. CASE BroadcastLock(h) \/ BroadcastSend(h) \/ BroadcastUnlock(h)
  <2>1. shell \notin {"shutdown", "close"}
    BY <1>2, ConnsAssumption DEF BroadcastLock, BroadcastSend, BroadcastUnlock,
       LockInv, ConnsAssumption
  <2>2. /\ UNCHANGED <<clientSockets, fdTable, clientSocket>>
        /\ \A g \in Conns : pc'[g] \notin {"none", "start"} => pc[g] \notin {"none", "start"}
    BY <1>0, <1>2 DEF BroadcastLock, BroadcastSend, BroadcastUnlock, Goto, TypeInv,
       TypeOK, sharedVars, handlerVars
  <2> QED  BY <1>0, <2>1, <2>2 DEF RegisteredInv, OpenIsRegistered, ClosedPart, Registered
<1>3. CASE ~(Register(h) \/ BroadcastLock(h) \/ BroadcastSend(h) \/ BroadcastUnlock(h))
  <2>1. /\ UNCHANGED <<clientSockets, clientSocket, lockVars>>
        /\ pc[h] # "start"
        /\ \A g \in Conns : g # h => pc'[g] = pc[g]
        /\ fdTable' \in {fdTable, [fdTable EXCEPT ![clientSocket[h]] = NoConn]}
    BY <1>3 DEF Handler, Check, ReadCall, ReadEnd, Read, Dispatch, SetName, LookupName,
       Respond, Close, Goto, TypeInv, TypeOK, sharedVars
  <2>2. \A f \in FDs, c \in Conns : fdTable'[f] = c => fdTable[f] = c
    BY <2>1, ConnsAssumption DEF TypeInv, TypeOK, ConnsAssumption
  <2>3. OpenIsRegistered'
    <3> SUFFICES ASSUME NEW c \in Conns, pc'[c] \notin {"none", "start"},
                        fdTable'[clientSocket[c]] = c
                 PROVE  clientSocket[c] \in Registered
      BY <2>1 DEF OpenIsRegistered, Registered
    <3>1. pc[c] \notin {"none", "start"}
      BY <1>0, <2>1
    <3>2. clientSocket[c] \in FDs
      BY <3>1 DEF TypeInv, HandlerHasFD
    <3> QED  BY <2>2, <3>1, <3>2 DEF RegisteredInv, OpenIsRegistered
  <2>4. ClosedPart'
    <3> SUFFICES ASSUME shell \in {"shutdown", "close"},
                        NEW i \in 1..Len(clientSockets), NEW c \in Conns,
                        i < pos, fdTable'[clientSockets[i]] = c
                 PROVE  pc'[c] = "start"
      BY <1>0, <2>1 DEF ClosedPart, lockVars
    <3>1. clientSockets[i] \in FDs
      BY DEF TypeInv, TypeOK
    <3>2. pc[c] = "start"
      BY <2>2, <3>1 DEF RegisteredInv, ClosedPart
    <3> QED  BY <2>1, <3>2
  <2> QED  BY <2>3, <2>4 DEF RegisteredInv
<1> QED  BY <1>1, <1>2, <1>3

LEMMA RegisteredStep ==
  TypeInv /\ DescriptorInv /\ LockInv /\ RegisteredInv /\ [Next]_vars
    => RegisteredInv'
<1> SUFFICES ASSUME TypeInv, DescriptorInv, LockInv, RegisteredInv, [Next]_vars
             PROVE  RegisteredInv'
  OBVIOUS
<1>1. CASE Peers
  BY <1>1, PeerFrame, RegisteredFrame DEF Unchanged4Peers, serverVars, sharedVars,
     handlerVars
<1>2. CASE BrokenPipe \/ UsernamesRace
  BY <1>2, DeathFrame, RegisteredFrame DEF serverVars, sharedVars, handlerVars
<1>3. CASE UNCHANGED vars
  BY <1>3, RegisteredFrame DEF vars, serverVars, sharedVars, handlerVars
<1> QED  BY <1>1, <1>2, <1>3, RegisteredShell, RegisteredAcceptor, RegisteredHandler
         DEF Next, SessionNext, ServerRuns, TypeInv

\* Every open connection whose handler is past its first lock is in the list,
\* through broadcasts, stop() and reuse of numbers (server.cpp 36-44, 182-185).
THEOREM OpenAreRegistered == Spec => []OpenIsRegistered
<1>1. Init => TypeInv /\ DescriptorInv /\ LockInv /\ RegisteredInv
  BY InitType, ConnsAssumption DEF Init, DescriptorInv, NotAccepted,
     NoLeakedDescriptor, LockInv, RegisteredInv, OpenIsRegistered, ClosedPart,
     ConnsAssumption
<1>2. Spec => [](TypeInv /\ DescriptorInv /\ LockInv /\ RegisteredInv)
  BY <1>1, TypeStep, DescriptorStep, LockStep, RegisteredStep, PTL DEF Spec
<1>3. RegisteredInv => OpenIsRegistered
  BY DEF RegisteredInv
<1> QED  BY <1>2, <1>3, PTL

-----------------------------------------------------------------------------
(* One run of the server.  While nobody calls stop(), a number stays with  *)
(* the handler that holds it until that handler closes it; so two handlers *)
(* never share a number, each reads from its own connection, and the entry *)
(* of the map under its number is the name its own peer chose.             *)

Own(h) ==
  /\ pc[h] = "none" => ~authenticated[h]
  /\ Serving(h) => fdTable[clientSocket[h]] = h
  /\ pc[h] \in {"read", "naming", "lookup"} => source[h] = h
  /\ pc[h] = "naming" => username[h] = h
  /\ pc[h] = "lookup" => authenticated[h]
  /\ authenticated[h] /\ Serving(h) /\ pc[h] # "naming"
       => clientUsernames[clientSocket[h]] = h
  /\ pc[h] = "respond" => response[h].kind # "chat"
  /\ pc[h] \in {"lock", "sending"} /\ response[h].kind = "chat"
       => response[h].from = response[h].by

SessionInv ==
  /\ shell = "idle"
  /\ \A h \in Conns : Own(h)
  /\ ChatAttribution

\* Two handlers that still have a close() ahead hold different numbers.
LEMMA NumbersDiffer ==
  ASSUME SessionInv, NEW g \in Conns, NEW h \in Conns, g # h, Serving(g), Serving(h)
  PROVE  clientSocket[g] # clientSocket[h]
BY DEF SessionInv, Own

\* A handler's step leaves the others in possession.
LEMMA OthersOwn ==
  ASSUME TypeInv, SessionInv, NEW h \in Conns, Handler(h),
         NEW g \in Conns, g # h
  PROVE  Own(g)'
<1>1. /\ pc'[g] = pc[g] /\ authenticated'[g] = authenticated[g]
      /\ username'[g] = username[g] /\ source'[g] = source[g]
      /\ response'[g] = response[g] /\ UNCHANGED clientSocket
  BY DEF TypeInv, TypeOK, Handler, Register, Check, ReadCall, ReadEnd, Read, Dispatch,
         SetName, LookupName, BroadcastLock, BroadcastSend, BroadcastUnlock,
         Respond, Close, Goto, handlerVars
<1>2. Serving(g)' <=> Serving(g)
  BY <1>1 DEF Serving
<1>3. clientSocket[h] \in FDs
  BY HandlerFrame DEF TypeInv, HandlerHasFD
<1>4. \/ UNCHANGED <<clientUsernames, fdTable>>
      \/ /\ Serving(h)
         /\ \A f \in FDs : f # clientSocket[h] =>
              fdTable'[f] = fdTable[f] /\ clientUsernames'[f] = clientUsernames[f]
  BY <1>3 DEF TypeInv, TypeOK, Handler, Register, Check, ReadCall, ReadEnd, Read,
              SetName, LookupName, BroadcastLock, BroadcastSend,
              BroadcastUnlock, Respond, Close, sharedVars, Serving
<1>5. Serving(g) => clientSocket[g] \in FDs
  BY DEF Serving, TypeInv, HandlerHasFD
<1>6. Own(g)
  BY DEF SessionInv
<1>7. Serving(g) => /\ fdTable'[clientSocket[g]] = fdTable[clientSocket[g]]
                    /\ clientUsernames'[clientSocket[g]] = clientUsernames[clientSocket[g]]
  BY <1>4, <1>5, NumbersDiffer
<1> QED  BY <1>1, <1>2, <1>6, <1>7 DEF Own

LEMMA HandlerOwns ==
  ASSUME TypeInv, SessionInv, NEW h \in Conns, Handler(h)
  PROVE  Own(h)'
<1>0. Own(h)
  BY DEF SessionInv
<1> USE <1>0 DEF Own, TypeInv, HandlerHasFD, TypeOK, Goto, Serving
<1>1. CASE Register(h)
  BY <1>1 DEF Register
<1>2. CASE Check(h) \/ ReadCall(h)
  BY <1>2 DEF Check, ReadCall, sharedVars
<1>3. CASE ReadEnd(h)
  BY <1>3 DEF ReadEnd, sharedVars
<1>4. CASE Read(h)
  BY <1>4 DEF Read, Dispatch, sharedVars, Reply
<1>5. CASE SetName(h)
  BY <1>5 DEF SetName, Announcement
<1>6. CASE LookupName(h)
  BY <1>6 DEF LookupName, Announcement, sharedVars
<1>7. CASE BroadcastLock(h)
  <2>1. response[h] \in Message
    OBVIOUS
  <2>2. LET m == [response[h] EXCEPT !.id = broadcasts + 1] IN
        m.kind = response[h].kind /\ m.from = response[h].from /\ m.by = response[h].by
    BY <2>1 DEF Message
  <2> QED  BY <1>7, <2>2 DEF BroadcastLock, sharedVars
<1>8. CASE BroadcastSend(h)
  BY <1>8 DEF BroadcastSend, sharedVars, handlerVars
<1>9. CASE BroadcastUnlock(h)
  BY <1>9 DEF BroadcastUnlock, sharedVars, Reply
<1>10. CASE Respond(h)
  BY <1>10 DEF Respond, sharedVars
<1>11. CASE Close(h)
  BY <1>11 DEF Close, sharedVars, Announcement
<1> QED  BY <1>1, <1>2, <1>3, <1>4, <1>5, <1>6, <1>7, <1>8, <1>9, <1>10, <1>11
         DEF Handler

\* Sending a message that is no chat, or a rightly attributed one, keeps what
\* has been sent rightly attributed.
LEMMA SendAttribution ==
  ASSUME TypeOK, ChatAttribution, NEW f \in FDs, NEW m \in Message,
         m.kind = "chat" => m.from = m.by,
         SendOk(f, m) \/ SendFails(f)
  PROVE  ChatAttribution'
<1>1. CASE UNCHANGED outbox
  BY <1>1 DEF ChatAttribution
<1>2. ASSUME NEW c \in Conns, outbox' = [outbox EXCEPT ![c] = Append(@, m)]
      PROVE  ChatAttribution'
  <2> SUFFICES ASSUME NEW d \in Conns, NEW i \in 1..Len(outbox'[d]),
                      outbox'[d][i].kind = "chat"
               PROVE  outbox'[d][i].from = outbox'[d][i].by
    BY DEF ChatAttribution
  <2>1. outbox[d] \in Seq(Message)
    BY DEF TypeOK
  <2>2. CASE d # c
    BY <1>2, <2>2 DEF ChatAttribution, TypeOK
  <2>3. CASE d = c
    <3>1. outbox'[d] = Append(outbox[d], m)
      BY <1>2, <2>3 DEF TypeOK
    <3>2. CASE i \in 1..Len(outbox[d])
      BY <2>1, <3>1, <3>2 DEF ChatAttribution
    <3>3. CASE i = Len(outbox[d]) + 1
      BY <2>1, <3>1, <3>3
    <3> QED  BY <2>1, <3>1, <3>2, <3>3
  <2> QED  BY <2>2, <2>3
<1>3. fdTable[f] \in Conns \cup {NoConn}
  BY DEF TypeOK
<1> QED  BY <1>1, <1>2, <1>3 DEF SendOk, SendFails, netVars

LEMMA SessionStep ==
  TypeInv /\ DescriptorInv /\ SessionInv /\ [SessionNext]_vars => SessionInv'
<1> SUFFICES ASSUME TypeInv, DescriptorInv, SessionInv, [SessionNext]_vars
             PROVE  SessionInv'
  OBVIOUS
<1>1. CASE UNCHANGED <<shell, fdTable, handlerVars, clientUsernames, outbox>>
  BY <1>1 DEF SessionInv, Own, Serving, ChatAttribution, handlerVars
<1>2. CASE Start
  BY <1>1, <1>2 DEF Start, sharedVars, netVars
<1>3. CASE Acceptor
  <2>1. ASSUME NEW c \in Conns, NEW f \in FDs,
               peer[c] = "backlog", fdTable[f] = NoConn,
               fdTable' = [fdTable EXCEPT ![f] = c],
               pc' = [pc EXCEPT ![c] = "start"],
               clientSocket' = [clientSocket EXCEPT ![c] = f],
               UNCHANGED <<source, authenticated, username, response,
                           clientUsernames, shell, outbox>>
        PROVE  SessionInv'
    <3>1. pc[c] = "none" /\ Own(c)
      BY <2>1 DEF DescriptorInv, NotAccepted, SessionInv
    <3>2. Own(c)'
      BY <2>1, <3>1 DEF Own, Serving, TypeInv, TypeOK
    <3>3. ASSUME NEW g \in Conns, g # c PROVE Own(g)'
      <4>1. Own(g) /\ (Serving(g) => clientSocket[g] # f)
        BY <2>1, ConnsAssumption DEF SessionInv, Own, ConnsAssumption
      <4>2. /\ pc'[g] = pc[g] /\ clientSocket'[g] = clientSocket[g]
            /\ Serving(g)' <=> Serving(g)
        BY <2>1, <3>3 DEF TypeInv, TypeOK, Serving
      <4>3. Serving(g) => fdTable'[clientSocket[g]] = fdTable[clientSocket[g]]
        BY <2>1, <4>1 DEF TypeInv, TypeOK, HandlerHasFD, Serving
      <4> QED  BY <2>1, <4>1, <4>2, <4>3 DEF Own
    <3> QED  BY <2>1, <3>2, <3>3 DEF SessionInv, ChatAttribution
  <2>2. CASE RunAccept
    BY <1>1, <1>3, <2>1, <2>2, AcceptorFrame DEF RunAccept, sharedVars, netVars
  <2>3. CASE ~RunAccept
    BY <1>1, <1>3, <2>3, AcceptorFrame DEF Acceptor, AcceptorRuns, RunSetup, RunCheck,
       RunSelectReady, RunSelectTimeout, RunSelectError, CloseListener,
       sharedVars, netVars
  <2> QED  BY <2>2, <2>3
<1>4. ASSUME NEW h \in Conns, Handler(h) PROVE SessionInv'
  <2>1. UNCHANGED shell
    BY <1>4, HandlerFrame DEF serverVars
  <2>2. \A g \in Conns : Own(g)'
    BY <1>4, HandlerOwns, OthersOwn
  <2>3. CASE BroadcastSend(h)
    <3>1. clientSockets[pos] \in FDs /\ response[h] \in Message
      BY <2>3 DEF BroadcastSend, TypeInv, TypeOK
    <3>2. response[h].kind = "chat" => response[h].from = response[h].by
      BY <2>3 DEF BroadcastSend, SessionInv, Own
    <3> QED  BY <2>1, <2>2, <2>3, <3>1, <3>2, SendAttribution
             DEF BroadcastSend, SessionInv, TypeInv
  <2>4. CASE Respond(h)
    <3>1. clientSocket[h] \in FDs /\ response[h] \in Message
      BY <2>4 DEF Respond, TypeInv, TypeOK, HandlerHasFD
    <3>2. response[h].kind # "chat"
      BY <2>4 DEF Respond, SessionInv, Own
    <3> QED  BY <2>1, <2>2, <2>4, <3>1, <3>2, SendAttribution
             DEF Respond, SessionInv, TypeInv
  <2>5. CASE ~(BroadcastSend(h) \/ Respond(h))
    <3>1. UNCHANGED outbox
      BY <1>4, <2>5 DEF Handler, Register, Check, ReadCall, ReadEnd, Read, SetName,
         LookupName, BroadcastLock, BroadcastUnlock, Close, netVars
    <3> QED  BY <2>1, <2>2, <3>1 DEF SessionInv, ChatAttribution
  <2> QED  BY <2>3, <2>4, <2>5
<1>5. CASE Peers
  <2>1. UNCHANGED outbox
    BY <1>5 DEF Peers, PeerConnect, PeerSend, PeerRead, PeerClose
  <2> QED  BY <1>1, <1>5, <2>1, PeerFrame DEF Unchanged4Peers, serverVars, sharedVars
<1>6. CASE BrokenPipe \/ UsernamesRace
  BY <1>1, <1>6, DeathFrame DEF serverVars, sharedVars, netVars
<1>7. CASE UNCHANGED vars
  BY <1>1, <1>7 DEF vars, serverVars, sharedVars, netVars
<1> QED  BY <1>2, <1>3, <1>4, <1>5, <1>6, <1>7 DEF SessionNext, ServerRuns

\* Together the three invariants are inductive for the steps of one run.
LEMMA SessionInvariant == SessionSpec => [](TypeInv /\ DescriptorInv /\ SessionInv)
<1>1. Init => TypeInv /\ DescriptorInv /\ SessionInv
  BY InitType DEF Init, DescriptorInv, NotAccepted, NoLeakedDescriptor, SessionInv,
     Own, Serving, ChatAttribution
<1>2. TypeInv /\ DescriptorInv /\ SessionInv /\ [SessionNext]_vars
        => (TypeInv /\ DescriptorInv /\ SessionInv)'
  <2>1. [SessionNext]_vars => [Next]_vars
    BY DEF Next
  <2> QED  BY <2>1, TypeStep, DescriptorStep, SessionStep
<1> QED  BY <1>1, <1>2, PTL DEF SessionSpec

\* While the server is not stopped, a handler reads the connection it was
\* started for and no other (server.cpp 145-147, 189).
THEOREM HandlersReadTheirOwn == SessionSpec => []OwnConnection
<1>1. SessionInv => OwnConnection
  BY DEF SessionInv, Own, OwnConnection
<1> QED  BY <1>1, SessionInvariant, PTL

\* While the server is not stopped, a chat message reaches everyone under the
\* name its sender chose, however descriptors are reused (server.cpp 169-174,
\* 203-219).
THEOREM ChatsAreAttributed == SessionSpec => []ChatAttribution
<1>1. SessionInv => ChatAttribution
  BY DEF SessionInv
<1> QED  BY <1>1, SessionInvariant, PTL

=============================================================================
