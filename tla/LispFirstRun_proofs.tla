------------------------- MODULE LispFirstRun_proofs -------------------------
(***************************************************************************)
(* What the Lunix process promises its clients while the server is in its  *)
(* first run: what LispServer_proofs and LispChat_proofs show of a run     *)
(* that nobody stops, with children and exit(), and what is left of it     *)
(* while the server is being stopped and afterwards.                       *)
(***************************************************************************)
EXTENDS LispHost_proofs

-----------------------------------------------------------------------------
(* Until server stop, the first run is one run of the server.              *)

Unstopped == starts = 0 \/ running

FirstInv ==
  /\ running => starts > 0
  /\ starts <= 1 /\ Unstopped => SessionInv /\ DialogueInv /\ HandshakeInv

\* Only start() begins a run, and only server stop and exit() end one.
LEMMA RunsFrame ==
  ASSUME [HostNext]_allVars
  PROVE  \/ Start
         \/ running /\ StopRequest
         \/ UNCHANGED <<starts, running>>
<1>1. CASE ServerAndClients
  <2>1. CASE Clients
    BY <2>1 DEF Clients, ServerUnchanged, Unchanged4Peers, serverVars
  <2>2. CASE Stopping
    BY <2>2 DEF Stopping, CloseAllLock, CloseAllShutdown, CloseAllClose, CloseAllClear,
       StopJoin
  <2>3. CASE StopRequest
    BY <2>3 DEF StopRequest
  <2>4. CASE ServerRuns
    <3>1. CASE Acceptor
      BY <3>1, AcceptorFrame
    <3>2. CASE BrokenPipe \/ UsernamesRace
      BY <3>2, DeathFrame DEF serverVars
    <3>3. CASE \E h \in Conns : Handler(h)
      BY <3>3, HandlerFrame DEF serverVars
    <3> QED  BY <2>4, <3>1, <3>2, <3>3 DEF ServerRuns
  <2> QED  BY <1>1, <2>1, <2>2, <2>3, <2>4 DEF ServerAndClients, ChatNext, ChatSessionNext
<1>2. CASE Fork \/ ChildExits \/ ChildEnds("program") \/ Reap
  BY <1>2 DEF Fork, ChildExits, ExecSucceeds, ExecFails, ChildLock, ChildClose, ChildJoin,
     ChildEnds, Reap, chatVars, vars, serverVars
<1>3. CASE ExitRequest \/ Exits
  BY <1>3 DEF ExitRequest, Exits, Die, vars, serverVars
<1>4. CASE UNCHANGED allVars
  BY <1>4 DEF allVars, chatVars, vars, serverVars
<1> QED  BY <1>1, <1>2, <1>3, <1>4 DEF HostNext

\* A child, and the end of the process, disturb neither the server nor the
\* dialogue, and reopen no connection that has ended.
LEMMA ChildFrame ==
  ASSUME HostInv, Fork \/ ChildExits \/ ChildEnds("program") \/ Reap
  PROVE  /\ UNCHANGED <<proc, serverVars, sharedVars, fdTable, handlerVars, clientVars,
                        peer, inbox, outbox, rcvd>>
         /\ \A c \in Conns : ServerEnded(c) => ServerEnded(c)'
<1>1. UNCHANGED <<proc, serverVars, sharedVars, fdTable, handlerVars, clientVars,
                  peer, inbox, outbox, rcvd>>
  BY DEF Fork, ChildExits, ExecSucceeds, ExecFails, ChildLock, ChildClose, ChildJoin,
     ChildEnds, Reap, chatVars, vars, netVars
<1>2. ASSUME NEW c \in Conns PROVE shut[c] => shut'[c]
  <2>1. shut \in [Conns -> BOOLEAN]
    BY DEF HostInv, ServerInv, TypeInv, TypeOK
  <2> QED  BY <2>1 DEF Fork, ChildExits, ExecSucceeds, ExecFails, ChildLock, ChildClose,
              ChildJoin, ChildEnds, Reap, chatVars, vars, netVars
<1>3. ASSUME NEW c \in Conns, NEW f \in FDs, childTable'[f] = c
      PROVE  childTable[f] = c \/ (proc = "up" /\ fdTable[f] = c)
  <2>1. childTable \in [FDs -> Conns \cup {NoConn}] /\ NoConn \notin Conns
    BY ConnsAssumption DEF HostInv, ChildTypeOK, ConnsAssumption
  <2> QED  BY <1>3, <2>1 DEF Fork, ChildExits, ExecSucceeds, ExecFails, ChildLock,
              ChildClose, ChildJoin, ChildEnds, NoTable, Reap, chatVars
<1>4. ASSUME NEW c \in Conns, ServerEnded(c) PROVE ServerEnded(c)'
  BY <1>1, <1>2, <1>3, <1>4, EndStaysEnded DEF handlerVars
<1> QED  BY <1>1, <1>4

LEMMA ExitFrame ==
  ASSUME HostInv, Exits \/ (ExitRequest /\ ~running)
  PROVE  /\ UNCHANGED <<serverVars, sharedVars, fdTable, handlerVars, clientVars,
                        peer, inbox, outbox, rcvd>>
         /\ \A c \in Conns : ServerEnded(c) => ServerEnded(c)'
<1>1. /\ UNCHANGED <<serverVars, sharedVars, fdTable, handlerVars, clientVars, childTable,
                     netVars>>
      /\ proc # "up" => proc' # "up"
  BY DEF Exits, ExitRequest, Die, vars
<1>2. ASSUME NEW c \in Conns, ServerEnded(c) PROVE ServerEnded(c)'
  BY <1>1, <1>2, EndStaysEnded DEF handlerVars, netVars
<1> QED  BY <1>1, <1>2 DEF netVars

LEMMA FirstFrame ==
  ASSUME TypeInv, SessionInv, DialogueInv, HandshakeInv,
         UNCHANGED <<serverVars, sharedVars, fdTable, handlerVars, clientVars,
                     peer, inbox, outbox, rcvd>>,
         \A c \in Conns : ServerEnded(c) => ServerEnded(c)'
  PROVE  SessionInv' /\ DialogueInv' /\ HandshakeInv'
<1>1. SessionInv'
  BY DEF SessionInv, Own, Serving, ChatAttribution, serverVars, sharedVars, handlerVars
<1>2. DialogueInv'
  <2> SUFFICES ASSUME NEW c \in Conns
               PROVE  Answers(c)' /\ Mail(c)' /\ Unread(c)' /\ NameSent(c)' /\ Unconnected(c)'
    BY DEF DialogueInv
  <2>1. Answers(c) /\ Mail(c) /\ Unread(c) /\ NameSent(c) /\ Unconnected(c)
    BY DEF DialogueInv
  <2>2. Answers(c)' /\ Mail(c)'
    BY <2>1 DEF Answers, Mail, Answered, Kinds, handlerVars, clientVars
  <2>3. Unread(c)' /\ Unconnected(c)'
    BY <2>1 DEF Unread, Unconnected, handlerVars, clientVars
  <2>4. NameSent(c)'
    BY <2>1 DEF NameSent, handlerVars, clientVars
  <2> QED  BY <2>2, <2>3, <2>4
<1>3. ASSUME NEW c \in Conns PROVE Progress(c)' /\ Excuse(c)'
  <2>1. Progress(c) /\ Excuse(c)
    BY DEF HandshakeInv
  <2>2. Progress(c)'
    <3>1. \/ pc'[c] # "respond"
          \/ pc[c] = "respond" /\ response'[c] = response[c] /\ inbox'[c] = inbox[c]
      BY DEF handlerVars
    <3> QED  BY <2>1, <3>1, QuietProgress DEF clientVars
  <2>3. Excuse(c)'
    <3>1. client' = client /\ rcvd' = rcvd /\ outbox' = outbox /\ authenticated' = authenticated
      BY DEF clientVars, handlerVars
    <3>2. Disturbed(c)' = Disturbed(c) /\ DisturbedTwice(c)' = DisturbedTwice(c)
      BY <3>1 DEF Disturbed, DisturbedTwice
    <3> QED  BY <2>1, <3>1, <3>2 DEF Excuse
  <2> QED  BY <2>2, <2>3
<1> QED  BY <1>1, <1>2, <1>3 DEF HandshakeInv

LEMMA FirstStep == HostInv /\ FirstInv /\ [HostNext]_allVars => FirstInv'
<1> SUFFICES ASSUME HostInv, FirstInv, [HostNext]_allVars PROVE FirstInv'
  OBVIOUS
<1>0. starts \in Nat /\ TypeInv /\ DescriptorInv /\ ClientTypeOK
  BY Bounds DEF HostInv, ServerInv, TypeInv, TypeOK
<1>1. running' => starts' > 0
  <2>1. CASE Start
    BY <1>0, <2>1 DEF Start
  <2>2. CASE StopRequest
    BY <2>2 DEF StopRequest
  <2>3. CASE UNCHANGED <<starts, running>>
    BY <2>3 DEF FirstInv
  <2> QED  BY <2>1, <2>2, <2>3, RunsFrame
<1>2. ASSUME starts' <= 1, Unstopped' PROVE SessionInv' /\ DialogueInv' /\ HandshakeInv'
  <2>1. starts <= 1 /\ Unstopped /\ ~StopRequest
    <3>1. CASE Start
      BY <1>0, <1>2, <3>1 DEF Unstopped, Start, StopRequest
    <3>2. CASE running /\ StopRequest
      BY <1>2, <3>2 DEF FirstInv, Unstopped, StopRequest
    <3>3. CASE UNCHANGED <<starts, running>>
      BY <1>2, <3>3 DEF FirstInv, Unstopped, StopRequest
    <3> QED  BY <3>1, <3>2, <3>3, RunsFrame
  <2>2. SessionInv /\ DialogueInv /\ HandshakeInv
    BY <2>1 DEF FirstInv
  <2>3. ~Stopping
    BY <2>2 DEF SessionInv, Stopping, CloseAllLock, CloseAllShutdown, CloseAllClose,
       CloseAllClear, StopJoin
  <2>4. CASE ServerAndClients
    <3>1. CASE proc = "up" /\ ServerRuns /\ UNCHANGED <<clientVars, childTable>>
      <4>1. [SessionNext]_vars /\ UNCHANGED <<client, childTable>>
        BY <3>1 DEF SessionNext, clientVars
      <4>2. SessionInv'
        BY <1>0, <2>2, <4>1, SessionStep
      <4>3. DialogueInv'
        BY <1>0, <2>2, <3>1, <4>1, ServerKeepsDialogue
      <4>4. HandshakeInv'
        BY <1>0, <2>2, <3>1, <4>1, ServerKeepsProgress, ServerKeepsExcuse DEF HandshakeInv
      <4> QED  BY <4>2, <4>3, <4>4
    <3>2. CASE Clients
      <4>1. PICK c \in Conns : ClientStep(c)
        BY <3>2 DEF Clients, ClientStep
      <4>2. Touches(c) /\ ServerUnchanged
        BY <1>0, <2>2, <3>2, <4>1, ClientTouches DEF Clients, DialogueInv
      <4> QED  BY <1>0, <2>2, <4>1, <4>2, ClientsKeepServer, ClientsKeepDialogue,
                  ClientsKeepHandshake
    <3> QED  BY <2>1, <2>3, <2>4, <3>1, <3>2 DEF ServerAndClients, ChatNext, ChatSessionNext
  <2>5. CASE Fork \/ ChildExits \/ ChildEnds("program") \/ Reap
    BY <1>0, <2>2, <2>5, ChildFrame, FirstFrame
  <2>6. CASE ExitRequest \/ Exits
    <3>1. Exits \/ (ExitRequest /\ ~running)
      BY <2>1, <2>6 DEF ExitRequest
    <3> QED  BY <1>0, <2>2, <3>1, ExitFrame, FirstFrame
  <2>7. CASE UNCHANGED allVars
    <3>1. UNCHANGED <<serverVars, sharedVars, fdTable, handlerVars, clientVars,
                      peer, inbox, outbox, rcvd>>
      BY <2>7 DEF allVars, chatVars, vars, netVars
    <3>2. \A c \in Conns : ServerEnded(c) => ServerEnded(c)'
      BY <2>7 DEF ServerEnded, Open, allVars, chatVars, vars, netVars, handlerVars
    <3> QED  BY <1>0, <2>2, <3>1, <3>2, FirstFrame
  <2> QED  BY <2>4, <2>5, <2>6, <2>7 DEF HostNext
<1> QED  BY <1>1, <1>2 DEF FirstInv

LEMMA FirstInitially == HostInit => FirstInv
<1> SUFFICES ASSUME HostInit PROVE FirstInv
  OBVIOUS
<1>1. SessionInv /\ DialogueInv /\ HandshakeInv
  BY ChatInitially, HandshakeInitially DEF HostInit, ChatInv
<1>2. ~running
  BY DEF HostInit, ChatInit, Init
<1> QED  BY <1>1, <1>2 DEF FirstInv

LEMMA FirstInvariant == HostSpec => [](HostInv /\ FirstInv)
BY HostInitially, HostStep, FirstInitially, FirstStep, PTL DEF HostSpec

-----------------------------------------------------------------------------
(* What the first run promises until server stop, whatever the shell forks *)
(* and however the process ends.                                           *)

\* In the first run a chat line is sent under its author's name
\* (server.cpp 145-147, 211-217).
THEOREM FirstRunAttributes ==
  HostSpec => [](starts <= 1 /\ Unstopped => ChatAttribution)
<1>1. HostInv /\ FirstInv => (starts <= 1 /\ Unstopped => ChatAttribution)
  BY DEF FirstInv, SessionInv
<1> QED  BY <1>1, FirstInvariant, PTL

\* In the first run a handler reads its own connection; reused numbers, and a
\* child's copies of them, lead nobody astray before a stop
\* (server.cpp 145-147, 189, 233).
THEOREM FirstRunReadsItsOwn ==
  HostSpec => [](starts <= 1 /\ Unstopped => OwnConnection)
<1>1. HostInv /\ FirstInv => (starts <= 1 /\ Unstopped => OwnConnection)
  BY DEF FirstInv, SessionInv, Own, OwnConnection
<1> QED  BY <1>1, FirstInvariant, PTL

\* In the first run the handshake fails by broadcasts and by nothing else, with
\* children that close their copies of the descriptors and a shell that exits
\* (client.cpp 95-128, server.cpp 156-161, 203-209, 226, error_handler.cpp).
THEOREM FirstRunExcuses ==
  HostSpec => [](starts <= 1 => HandshakeFailsByBroadcasts)
<1>1. HostInv /\ FirstInv => (starts <= 1 => HandshakeFailsByBroadcasts)
  <2>1. CASE running
    BY <2>1, ExcusesAreBroadcasts DEF HostInv, ServerInv, FirstInv, Unstopped
  <2>2. CASE ~running
    BY <2>2 DEF HandshakeFailsByBroadcasts
  <2> QED  BY <2>1, <2>2
<1> QED  BY <1>1, FirstInvariant, PTL

\* A prompt in the first run belongs to a client its handler knows by name, or
\* will before it reads anything else, whatever children the shell starts.  After
\* server stop that ends: a client accepted then may take another one's 100 for
\* its own, and what it has asked is still in front of its name
\* (client.cpp 95-148, server.cpp 139-147, 203-209).
THEOREM FirstRunKnowsItsMembers ==
  HostSpec => [](starts <= 1 /\ Unstopped => PromptIsNamed)
<1>1. HostInv /\ FirstInv => (starts <= 1 /\ Unstopped => PromptIsNamed)
  BY PromptsFollow DEF HostInv, ServerInv, FirstInv
<1> QED  BY <1>1, FirstInvariant, PTL

-----------------------------------------------------------------------------
(* Before the first reply: a connection without a handler has been sent    *)
(* nothing, and a client without a reply has at most asked for one.        *)

Early(c) ==
  /\ client[c] \in {"off", "request", "await100", "refused", "ping", "pong", "pinged", "done"}
  /\ inbox[c] \in {<<>>, <<"CONN_REQ">>, <<"PING">>}
  /\ client[c] \in {"off", "request", "ping"} => inbox[c] = <<>>

Silence(c) ==
  /\ pc[c] = "none" => outbox[c] = <<>> /\ ~authenticated[c]
  /\ NoReply(c) => Early(c)

SilenceInv == \A c \in Conns : Silence(c)

LEMMA NoReplyKinds ==
  ASSUME NEW c
  PROVE  NoReply(c) <=> Kinds(c) \subseteq Broadcasts
BY DEF NoReply, IsReply, Kinds

\* A handler only adds to what has been sent, and writes to nobody who has not
\* been accepted.
LEMMA HandlerSends ==
  ASSUME TypeInv, DescriptorInv, NEW h \in Conns, Handler(h), NEW c \in Conns
  PROVE  /\ Kinds(c) \subseteq Kinds(c)'
         /\ pc[c] = "none" => outbox'[c] = outbox[c]
<1>1. ASSUME NEW f \in FDs, NEW m \in Message, SendOk(f, m) \/ SendFails(f)
      PROVE  /\ Kinds(c) \subseteq Kinds(c)'
             /\ pc[c] = "none" => outbox'[c] = outbox[c]
  <2>1. Kinds(c) \subseteq Kinds(c)'
    BY <1>1, SendKinds
  <2>2. outbox'[c] # outbox[c] => c = fdTable[f]
    BY <1>1 DEF SendOk, SendFails, TypeInv, TypeOK, netVars
  <2>3. c = fdTable[f] => pc[c] # "none"
    BY <1>1, ConnsAssumption DEF DescriptorInv, NoLeakedDescriptor, Serving
  <2> QED  BY <2>1, <2>2, <2>3
<1>2. CASE BroadcastSend(h)
  <2>1. clientSockets[pos] \in FDs /\ response[h] \in Message
    BY <1>2 DEF BroadcastSend, TypeInv, TypeOK
  <2> QED  BY <1>1, <1>2, <2>1 DEF BroadcastSend
<1>3. CASE Respond(h)
  <2>1. clientSocket[h] \in FDs /\ response[h] \in Message
    BY <1>3 DEF Respond, TypeInv, TypeOK, HandlerHasFD
  <2> QED  BY <1>1, <1>3, <2>1 DEF Respond
<1>4. CASE ~(BroadcastSend(h) \/ Respond(h))
  <2>1. UNCHANGED outbox
    BY <1>4 DEF Handler, Register, Check, ReadCall, ReadEnd, Read, SetName, LookupName,
       BroadcastLock, BroadcastUnlock, Close, netVars
  <2> QED  BY <2>1 DEF Kinds
<1> QED  BY <1>2, <1>3, <1>4

LEMMA HandlerKeepsEarly ==
  ASSUME TypeInv, NEW h \in Conns, Handler(h), UNCHANGED client, NEW c \in Conns, Early(c)
  PROVE  Early(c)'
<1>1. inbox[c] \in {<<>>, <<"CONN_REQ">>, <<"PING">>} /\ inbox[c] \in Seq(Commands)
  BY DEF Early, TypeInv, TypeOK
<1>2. inbox'[c] = inbox[c] \/ inbox'[c] = <<>>
  <2>1. CASE Read(h)
    <3>1. PICK n \in 1..MaxChunk :
            /\ n <= Len(inbox[source[h]])
            /\ inbox' = [inbox EXCEPT ![source[h]] = SubSeq(@, n + 1, Len(@))]
      BY <2>1 DEF Read
    <3>2. CASE source[h] # c
      BY <3>1, <3>2 DEF TypeInv, TypeOK
    <3>3. CASE source[h] = c
      <4>1. inbox'[c] = SubSeq(inbox[c], n + 1, Len(inbox[c])) /\ n <= Len(inbox[c])
        BY <3>1, <3>3 DEF TypeInv, TypeOK
      <4>2. n \in Nat /\ n >= 1 /\ Len(inbox[c]) \in Nat /\ Len(inbox[c]) <= 1
        <5>1. n \in Nat /\ n >= 1
          BY Bounds
        <5>2. Len(<<>>) = 0 /\ Len(<<"CONN_REQ">>) = 1 /\ Len(<<"PING">>) = 1
          OBVIOUS
        <5>3. Len(inbox[c]) = 0 \/ Len(inbox[c]) = 1
          BY <1>1, <5>2, Zenon
        <5>4. \A k : k = 0 \/ k = 1 => k \in Nat /\ k <= 1
          OBVIOUS
        <5> QED  BY <5>1, <5>3, <5>4, Zenon
      <4>3. Len(SubSeq(inbox[c], n + 1, Len(inbox[c]))) = 0
        BY <4>1, <4>2
      <4>4. inbox'[c] \in Seq(Commands)
        BY <1>1, <4>1, <4>2
      <4> QED  BY <4>1, <4>3, <4>4
    <3> QED  BY <3>2, <3>3
  <2>2. CASE ~Read(h)
    BY <2>2, InboxKept
  <2> QED  BY <2>1, <2>2
<1> QED  BY <1>2 DEF Early

\* A handler that has not been started has no step, and none is undone.
LEMMA HandlerStarted ==
  ASSUME TypeInv, NEW h \in Conns, Handler(h), NEW c \in Conns, pc'[c] = "none"
  PROVE  pc[c] = "none" /\ authenticated'[c] = authenticated[c]
<1>1. pc[h] # "none" /\ pc'[h] # "none"
  BY DEF TypeInv, TypeOK, Handler, Register, Check, ReadCall, ReadEnd, Read, Dispatch,
         SetName, LookupName, BroadcastLock, BroadcastSend, BroadcastUnlock,
         Respond, Close, Goto, handlerVars
<1>2. c # h => pc'[c] = pc[c] /\ authenticated'[c] = authenticated[c]
  BY DEF TypeInv, TypeOK, Handler, Register, Check, ReadCall, ReadEnd, Read, Dispatch,
         SetName, LookupName, BroadcastLock, BroadcastSend, BroadcastUnlock,
         Respond, Close, Goto, handlerVars
<1> QED  BY <1>1, <1>2

LEMMA HandlerKeepsSilence ==
  ASSUME TypeInv, DescriptorInv, SilenceInv, NEW h \in Conns, Handler(h), UNCHANGED client
  PROVE  SilenceInv'
<1> SUFFICES ASSUME NEW c \in Conns PROVE Silence(c)'
  BY DEF SilenceInv
<1>1. pc'[c] = "none" => outbox'[c] = <<>> /\ ~authenticated'[c]
  BY HandlerSends, HandlerStarted DEF SilenceInv, Silence
<1>2. NoReply(c)' => Early(c)'
  <2>1. (NoReply(c) <=> Kinds(c) \subseteq Broadcasts)
        /\ (NoReply(c) <=> Kinds(c) \subseteq Broadcasts)'
    BY NoReplyKinds DEF NoReply, IsReply, Kinds
  <2>2. NoReply(c)' => NoReply(c)
    BY <2>1, HandlerSends
  <2> QED  BY <2>2, HandlerKeepsEarly DEF SilenceInv, Silence
<1> QED  BY <1>1, <1>2 DEF Silence

\* What neither reads nor sends, but may accept.
LEMMA SilenceFrame ==
  ASSUME SilenceInv, UNCHANGED <<client, inbox, outbox, authenticated>>,
         \A c \in Conns : pc'[c] = "none" => pc[c] = "none"
  PROVE  SilenceInv'
BY DEF SilenceInv, Silence, NoReply, Early

LEMMA ServerKeepsSilence ==
  ASSUME TypeInv, DescriptorInv, SilenceInv, UNCHANGED client,
         ServerRuns \/ StopRequest \/ Stopping
  PROVE  SilenceInv'
<1>1. CASE Start \/ StopRequest \/ Stopping \/ BrokenPipe \/ UsernamesRace
  <2>1. UNCHANGED <<pc, inbox, outbox, authenticated>>
    BY <1>1, DeathFrame DEF Start, StopRequest, Stopping, CloseAllLock, CloseAllShutdown,
       CloseAllClose, CloseAllClear, StopJoin, handlerVars, netVars
  <2> QED  BY <2>1, SilenceFrame
<1>2. CASE Acceptor
  <2>1. UNCHANGED <<inbox, outbox, authenticated>>
    BY <1>2 DEF Acceptor, AcceptorRuns, RunSetup, RunCheck, RunSelectReady,
       RunSelectTimeout, RunSelectError, RunAccept, CloseListener, handlerVars, netVars
  <2>2. \A c \in Conns : pc'[c] = "none" => pc[c] = "none"
    BY <1>2 DEF Acceptor, AcceptorRuns, RunSetup, RunCheck, RunSelectReady,
       RunSelectTimeout, RunSelectError, RunAccept, CloseListener, handlerVars,
       TypeInv, TypeOK
  <2> QED  BY <2>1, <2>2, SilenceFrame
<1> QED  BY <1>1, <1>2, HandlerKeepsSilence DEF ServerRuns

\* A client that has had no reply stays where it can have had none.
LEMMA ClientStaysEarly ==
  ASSUME TypeInv, ClientTypeOK, NEW c \in Conns, ClientStep(c), Early(c), NoReply(c)
  PROVE  Early(c)'
<1> USE DEF To
<1>0. /\ client \in [Conns -> ClientPC] /\ Len(outbox[c]) \in Nat
      /\ inbox[c] \in Seq(Commands)
  BY OutboxLength DEF ClientTypeOK, TypeInv, TypeOK
<1>1. ASSUME NEW m \in Commands, ClientSend(c, m), inbox[c] = <<>>
      PROVE  inbox'[c] = <<>> \/ inbox'[c] = <<m>>
  <2>1. inbox'[c] = inbox[c] \/ inbox'[c] = Append(inbox[c], m)
    BY <1>1 DEF ClientSend, TypeInv, TypeOK
  <2> QED  BY <1>1, <2>1
<1>2. CASE Connect(c)
  BY <1>0, <1>2 DEF Connect, Early
<1>3. CASE SendRequest(c)
  <2>1. inbox'[c] = <<>> \/ inbox'[c] = <<"CONN_REQ">>
    BY <1>1, <1>3, ChatsAssumption DEF SendRequest, Early
  <2>2. client'[c] = "await100"
    BY <1>0, <1>3 DEF SendRequest
  <2> QED  BY <2>1, <2>2 DEF Early
<1>4. CASE SendPing(c)
  <2>1. inbox'[c] = <<>> \/ inbox'[c] = <<"PING">>
    BY <1>1, <1>4, ChatsAssumption DEF SendPing, Early
  <2>2. client'[c] = "pong"
    BY <1>0, <1>4 DEF SendPing
  <2> QED  BY <2>1, <2>2 DEF Early
<1>5. CASE Await100(c)
  <2>1. PICK n \in 0..Len(outbox[c]) :
          /\ ClientRead(c, n)
          /\ To(c, IF n = 1 /\ Contains(Chunk(c, n), "100") THEN "name" ELSE "refused")
    BY <1>5 DEF Await100
  <2>2. n \in Nat /\ (n = 0 \/ rcvd[c] + n <= Len(outbox[c])) /\ inbox' = inbox
    BY <1>0, <2>1 DEF ClientRead
  <2>3. "100" \notin Kinds(c)
    BY NoReplyKinds DEF Broadcasts
  <2>4. ~Contains(Chunk(c, n), "100")
    BY <2>2, <2>3, ChunkKinds
  <2>5. client'[c] = "refused"
    BY <1>0, <2>1, <2>4
  <2> QED  BY <2>2, <2>5 DEF Early
<1>6. CASE AwaitPong(c)
  <2>1. client'[c] = "pinged" /\ inbox' = inbox
    BY <1>0, <1>6 DEF AwaitPong, ClientRead
  <2> QED  BY <2>1 DEF Early
<1>7. CASE HangUp(c)
  <2>1. client'[c] = "done" /\ inbox' = inbox
    BY <1>0, <1>7 DEF HangUp, ClientClose
  <2> QED  BY <2>1 DEF Early
<1>8. CASE Receiving(c)
  <2>1. UNCHANGED <<client, inbox>>
    BY <1>8 DEF Receiving, ReceiveStarts, Receive, ReceiveEnd, ClientRead, netVars
  <2> QED  BY <2>1 DEF Early
<1>9. ~(EnterName(c) \/ AwaitOK(c) \/ Prompt(c) \/ Chat(c) \/ OtherLine(c) \/ ExitLine(c)
        \/ ClientKilled(c) \/ Leave(c) \/ Join(c))
  BY DEF Early, EnterName, AwaitOK, Prompt, Chat, OtherLine, ExitLine, ClientKilled,
         Leave, Join
<1> QED  BY <1>2, <1>3, <1>4, <1>5, <1>6, <1>7, <1>8, <1>9
         DEF ClientStep, User, Handshake, Leaving

LEMMA ClientsKeepSilence ==
  ASSUME TypeInv, ClientTypeOK, SilenceInv, NEW c \in Conns, Touches(c), ClientStep(c),
         ServerUnchanged
  PROVE  SilenceInv'
<1> SUFFICES ASSUME NEW e \in Conns PROVE Silence(e)'
  BY DEF SilenceInv
<1>1. UNCHANGED <<pc, authenticated, outbox>>
  BY DEF Touches, ServerUnchanged, Unchanged4Peers, handlerVars
<1>2. NoReply(e)' = NoReply(e)
  BY <1>1 DEF NoReply
<1>3. NoReply(e) => Early(e)'
  <2>1. CASE e = c
    BY <2>1, ClientStaysEarly DEF SilenceInv, Silence
  <2>2. CASE e # c
    <3>1. client'[e] = client[e] /\ inbox'[e] = inbox[e]
      BY <2>2, ClientFrame
    <3> QED  BY <3>1 DEF Early, SilenceInv, Silence
  <2> QED  BY <2>1, <2>2
<1> QED  BY <1>1, <1>2, <1>3 DEF Silence, SilenceInv

LEMMA SilenceStep == HostInv /\ SilenceInv /\ [HostNext]_allVars => SilenceInv'
<1> SUFFICES ASSUME HostInv, SilenceInv, [HostNext]_allVars PROVE SilenceInv'
  OBVIOUS
<1>0. TypeInv /\ DescriptorInv /\ ClientTypeOK /\ \A c \in Conns : Unconnected(c)
  BY DEF HostInv, ServerInv
<1>1. CASE ServerAndClients
  <2>1. CASE Clients
    <3>1. PICK c \in Conns : ClientStep(c)
      BY <2>1 DEF Clients, ClientStep
    <3>2. Touches(c) /\ ServerUnchanged
      BY <1>0, <2>1, <3>1, ClientTouches DEF Clients
    <3> QED  BY <1>0, <3>1, <3>2, ClientsKeepSilence
  <2>2. CASE (ServerRuns \/ StopRequest \/ Stopping) /\ UNCHANGED <<clientVars, childTable>>
    BY <1>0, <2>2, ServerKeepsSilence DEF clientVars
  <2> QED  BY <1>1, <2>1, <2>2 DEF ServerAndClients, ChatNext, ChatSessionNext
<1>2. CASE Fork \/ ChildExits \/ ChildEnds("program") \/ Reap
  BY <1>0, <1>2, ChildFrame, SilenceFrame DEF handlerVars, clientVars
<1>3. CASE ExitRequest /\ running
  <2>1. StopRequest /\ UNCHANGED clientVars
    BY <1>3 DEF ExitRequest
  <2> QED  BY <1>0, <2>1, ServerKeepsSilence DEF clientVars
<1>4. CASE Exits \/ (ExitRequest /\ ~running)
  BY <1>0, <1>4, ExitFrame, SilenceFrame DEF handlerVars, clientVars
<1>5. CASE UNCHANGED allVars
  BY <1>5, SilenceFrame DEF allVars, chatVars, vars, netVars, clientVars, handlerVars
<1> QED  BY <1>1, <1>2, <1>3, <1>4, <1>5 DEF HostNext

LEMMA SilenceInitially == HostInit => SilenceInv
<1> SUFFICES ASSUME HostInit, NEW c \in Conns PROVE Silence(c)
  BY DEF SilenceInv
<1>1. /\ client[c] = "off" /\ inbox[c] = <<>> /\ outbox[c] = <<>> /\ ~authenticated[c]
  BY DEF HostInit, ChatInit, Init
<1> QED  BY <1>1 DEF Silence, Early

-----------------------------------------------------------------------------
(* After the stop of the first run.  One connection at most is accepted    *)
(* then, and one handler at most holds its number besides its own: that    *)
(* handler may read one command of the newcomer and send it one reply.     *)

Shares(g, h) == g # h /\ Serving(g) /\ Serving(h) /\ clientSocket[g] = clientSocket[h]

\* g still holds the number that d has been given.
Rival(g, d) == g # d /\ Serving(g) /\ clientSocket[g] = clientSocket[d]

\* h is about to answer a command of the newcomer d.
Astray(h, d) ==
  /\ pc[h] = "respond" /\ response[h].kind \in {"200", "100"}
  /\ authenticated[h] => username[h] = h
  /\ fdTable[clientSocket[h]] \in {d, NoConn}

Polite(c) == {"BAD_REQ", "NOT_AUTHENTICATED"} \cap Kinds(c) = {}

\* The newcomer's own handler finds running false and reads nothing.
Newcomer(d) ==
  /\ acceptor \notin {"select", "accept"}
  /\ pc[d] \in {"start", "check", "close", "done"} /\ ~authenticated[d]
  /\ Polite(d)
  /\ fdTable[clientSocket[d]] \in {d, NoConn}
  /\ \A g \in Conns : Rival(g, d) /\ ~NoReply(d) => pc[g] \in {"check", "close"}

\* A connection of before the stop goes on with its own dialogue.
Old(c, d) ==
  /\ Answers(c) \/ Astray(c, d)
  /\ Mail(c) /\ Unread(c) /\ NameSent(c)
  /\ pc[c] = "read" => \/ source[c] \in {c, NoConn}
                       \/ source[c] = d /\ clientSocket[c] = clientSocket[d]

StoppedInv(d) ==
  /\ d # NoConn => Newcomer(d)
  /\ \A c \in Conns : c # d => Old(c, d)
  /\ \A g, h \in Conns : Shares(g, h) => d \in {g, h}

AfterInv == starts <= 1 /\ ~Unstopped => \E d \in Conns \cup {NoConn} : StoppedInv(d)

LEMMA StoppedFrame ==
  ASSUME NEW d \in Conns \cup {NoConn}, StoppedInv(d),
         UNCHANGED <<acceptor, fdTable, handlerVars, inbox, outbox, client>>,
         \A c \in Conns : ServerEnded(c) => ServerEnded(c)'
  PROVE  StoppedInv(d)'
<1>1. ASSUME NEW c \in Conns PROVE Old(c, d) => Old(c, d)'
  BY DEF Old, Answers, Astray, Mail, Unread, NameSent, Kinds, Answered, handlerVars
<1>2. Newcomer(d)' = Newcomer(d)
  BY DEF Newcomer, Polite, Kinds, Rival, Serving, NoReply, handlerVars
<1>3. ASSUME NEW g \in Conns, NEW h \in Conns PROVE Shares(g, h)' = Shares(g, h)
  BY DEF Shares, Serving, handlerVars
<1> QED  BY <1>1, <1>2, <1>3 DEF StoppedInv

-----------------------------------------------------------------------------
(* The stop.                                                               *)

LEMMA StopBegins ==
  ASSUME TypeInv, SessionInv, DialogueInv, StopRequest, UNCHANGED <<client, childTable>>
  PROVE  StoppedInv(NoConn)'
<1>1. UNCHANGED <<proc, fdTable, handlerVars, netVars>>
  BY DEF StopRequest
<1>2. ASSUME NEW c \in Conns PROVE Old(c, NoConn)'
  <2>1. Answers(c) /\ Mail(c) /\ Unread(c) /\ NameSent(c)
    BY DEF DialogueInv
  <2>2. pc[c] = "read" => source[c] = c
    BY DEF SessionInv, Own
  <2>3. Answers(c)' /\ Mail(c)' /\ Unread(c)'
    BY <1>1, <2>1 DEF Answers, Mail, Unread, Kinds, Answered, handlerVars, netVars
  <2>4. NameSent(c)'
    BY <1>1, <2>1 DEF NameSent, ServerEnded, Open, handlerVars, netVars
  <2> QED  BY <1>1, <2>2, <2>3, <2>4 DEF Old, handlerVars
<1>3. ASSUME NEW g \in Conns, NEW h \in Conns PROVE ~Shares(g, h)'
  BY <1>1, NumbersDiffer DEF Shares, Serving, handlerVars
<1> QED  BY <1>2, <1>3 DEF StoppedInv

LEMMA EndKeptByStopping ==
  ASSUME TypeInv, NEW c \in Conns, ServerEnded(c), Stopping, UNCHANGED childTable
  PROVE  ServerEnded(c)'
<1>1. UNCHANGED <<proc, peer, handlerVars>> /\ (shut[c] => shut'[c])
  BY DEF Stopping, CloseAllLock, CloseAllShutdown, CloseAllClose, CloseAllClear, StopJoin,
     netVars, TypeInv, TypeOK
<1>2. \A f \in FDs : fdTable'[f] \in {fdTable[f], NoConn}
  BY DEF Stopping, CloseAllLock, CloseAllShutdown, CloseAllClose, CloseAllClear, StopJoin,
     TypeInv, TypeOK
<1> QED  BY <1>1, <1>2, EndStaysEnded, ConnsAssumption DEF ConnsAssumption, handlerVars

\* closeAllConnections() only takes numbers away.
LEMMA StoppingKeepsStopped ==
  ASSUME TypeInv, NEW d \in Conns \cup {NoConn}, StoppedInv(d), Stopping,
         UNCHANGED <<client, childTable>>
  PROVE  StoppedInv(d)'
<1>1. UNCHANGED <<handlerVars, inbox, outbox>>
  BY DEF Stopping, CloseAllLock, CloseAllShutdown, CloseAllClose, CloseAllClear, StopJoin,
     netVars
<1>2. acceptor' \in {acceptor, "none"}
  BY DEF Stopping, CloseAllLock, CloseAllShutdown, CloseAllClose, CloseAllClear, StopJoin
<1>3. \A f \in FDs : fdTable'[f] \in {fdTable[f], NoConn}
  BY DEF Stopping, CloseAllLock, CloseAllShutdown, CloseAllClose, CloseAllClear, StopJoin,
     TypeInv, TypeOK
<1>4. ASSUME NEW c \in Conns, c # d PROVE Old(c, d)'
  <2>1. Old(c, d)
    BY <1>4 DEF StoppedInv
  <2>2. Mail(c)' /\ Unread(c)' /\ NameSent(c)'
    BY <1>1, <2>1, EndKeptByStopping DEF Old, Mail, Unread, NameSent, Kinds, Answered,
       handlerVars
  <2>3. Answers(c) => Answers(c)'
    BY <1>1 DEF Answers, Answered, handlerVars
  <2>4. Astray(c, d) => Astray(c, d)'
    <3>1. pc[c] # "none" => clientSocket[c] \in FDs
      BY DEF TypeInv, HandlerHasFD
    <3> QED  BY <1>1, <1>3, <3>1 DEF Astray, handlerVars
  <2> QED  BY <1>1, <2>1, <2>2, <2>3, <2>4 DEF Old, handlerVars
<1>5. d # NoConn => Newcomer(d)'
  <2> SUFFICES ASSUME d # NoConn PROVE Newcomer(d)'
    OBVIOUS
  <2>1. Newcomer(d) /\ d \in Conns
    BY DEF StoppedInv
  <2>2. fdTable'[clientSocket'[d]] \in {d, NoConn}
    <3>1. clientSocket[d] \in FDs
      BY <2>1 DEF Newcomer, TypeInv, HandlerHasFD
    <3> QED  BY <1>1, <1>3, <2>1, <3>1 DEF Newcomer, handlerVars
  <2>3. /\ Polite(d)' /\ NoReply(d)' = NoReply(d)
        /\ \A g \in Conns : Rival(g, d)' = Rival(g, d)
    BY <1>1, <2>1 DEF Newcomer, Polite, Kinds, NoReply, Rival, Serving, handlerVars
  <2> QED  BY <1>1, <1>2, <2>1, <2>2, <2>3 DEF Newcomer, handlerVars
<1>6. ASSUME NEW g \in Conns, NEW h \in Conns, Shares(g, h)' PROVE d \in {g, h}
  BY <1>1, <1>6 DEF StoppedInv, Shares, Serving, handlerVars
<1> QED  BY <1>4, <1>5, <1>6 DEF StoppedInv

-----------------------------------------------------------------------------
(* The acceptor: it accepts once more at most.                             *)

LEMMA AcceptKeepsStopped ==
  ASSUME TypeInv, DescriptorInv, SilenceInv, NEW d \in Conns \cup {NoConn}, StoppedInv(d),
         RunAccept, UNCHANGED client, \A c \in Conns : ServerEnded(c) => ServerEnded(c)'
  PROVE  \E e \in Conns \cup {NoConn} : StoppedInv(e)'
<1>1. d = NoConn
  BY DEF StoppedInv, Newcomer, RunAccept
<1>2. CASE UNCHANGED <<fdTable, handlerVars, netVars>>
  <2>1. ASSUME NEW c \in Conns PROVE Old(c, NoConn)'
    <3>1. Old(c, NoConn)
      BY <1>1, ConnsAssumption DEF StoppedInv
    <3>2. Mail(c)' /\ Unread(c)' /\ NameSent(c)'
      BY <1>2, <3>1 DEF Old, Mail, Unread, NameSent, Kinds, Answered, handlerVars, netVars
    <3>3. (Answers(c) => Answers(c)') /\ (Astray(c, NoConn) => Astray(c, NoConn)')
      BY <1>2 DEF Answers, Astray, Answered, handlerVars, netVars
    <3> QED  BY <1>2, <3>1, <3>2, <3>3 DEF Old, handlerVars
  <2>2. ASSUME NEW g \in Conns, NEW h \in Conns, Shares(g, h)' PROVE FALSE
    BY <1>1, <1>2, <2>2, ConnsAssumption DEF StoppedInv, Shares, Serving, handlerVars
  <2> QED  BY <2>1, <2>2 DEF StoppedInv
<1>3. ASSUME NEW e \in Conns, NEW f \in FDs,
             peer[e] = "backlog", fdTable[f] = NoConn,
             fdTable' = [fdTable EXCEPT ![f] = e],
             pc' = [pc EXCEPT ![e] = "start"],
             clientSocket' = [clientSocket EXCEPT ![e] = f],
             acceptor' = "check",
             UNCHANGED <<source, authenticated, username, response, inbox, outbox>>
      PROVE  StoppedInv(e)'
  <2>1. pc[e] = "none" /\ outbox[e] = <<>> /\ ~authenticated[e]
    BY <1>3 DEF DescriptorInv, NotAccepted, SilenceInv, Silence
  <2>2. pc'[e] = "start"
    BY <1>3 DEF TypeInv, TypeOK
  <2>3. Newcomer(e)'
    <3>1. Kinds(e)' = {} /\ NoReply(e)'
      BY <1>3, <2>1 DEF Kinds, NoReply
    <3>2. fdTable'[clientSocket'[e]] = e
      BY <1>3 DEF TypeInv, TypeOK
    <3> QED  BY <1>3, <2>1, <2>2, <3>1, <3>2 DEF Newcomer, Polite
  <2>4. ASSUME NEW c \in Conns, c # e PROVE Old(c, e)'
    <3>1. Old(c, NoConn)
      BY <1>1, ConnsAssumption DEF StoppedInv
    <3>2. pc'[c] = pc[c] /\ clientSocket'[c] = clientSocket[c]
      BY <1>3, <2>4 DEF TypeInv, TypeOK
    <3>3. Mail(c)' /\ Unread(c)' /\ NameSent(c)'
      BY <1>3, <3>1 DEF Old, Mail, Unread, NameSent, Kinds, Answered
    <3>4. Answers(c) => Answers(c)'
      BY <1>3, <3>2 DEF Answers, Answered
    <3>5. Astray(c, NoConn) => Astray(c, e)'
      <4>1. pc[c] # "none" => clientSocket[c] \in FDs
        BY DEF TypeInv, HandlerHasFD
      <4>2. \A k \in FDs : fdTable'[k] \in {fdTable[k], e}
        BY <1>3 DEF TypeInv, TypeOK
      <4> QED  BY <1>3, <3>2, <4>1, <4>2 DEF Astray
    <3>6. pc[c] = "read" => source'[c] \in {c, NoConn}
      BY <1>3, <3>1 DEF Old
    <3> QED  BY <3>1, <3>2, <3>3, <3>4, <3>5, <3>6 DEF Old
  <2>5. ASSUME NEW g \in Conns, NEW h \in Conns, Shares(g, h)' PROVE e \in {g, h}
    <3>1. SUFFICES ASSUME g # e, h # e PROVE FALSE
      OBVIOUS
    <3>2. /\ pc'[g] = pc[g] /\ clientSocket'[g] = clientSocket[g]
          /\ pc'[h] = pc[h] /\ clientSocket'[h] = clientSocket[h]
      BY <1>3, <3>1 DEF TypeInv, TypeOK
    <3>3. Shares(g, h)
      BY <1>3, <2>5, <3>2 DEF Shares, Serving
    <3> QED  BY <1>1, <3>3, ConnsAssumption DEF StoppedInv
  <2> QED  BY <2>3, <2>4, <2>5 DEF StoppedInv
<1> QED  BY <1>2, <1>3 DEF RunAccept, AcceptorMoves, NotAccepted

LEMMA AcceptorKeepsStopped ==
  ASSUME TypeInv, DescriptorInv, SilenceInv, NEW d \in Conns \cup {NoConn}, StoppedInv(d),
         Acceptor, ~running, UNCHANGED client,
         \A c \in Conns : ServerEnded(c) => ServerEnded(c)'
  PROVE  \E e \in Conns \cup {NoConn} : StoppedInv(e)'
<1>1. CASE RunAccept
  BY <1>1, AcceptKeepsStopped
<1>2. CASE ~RunAccept
  <2>1. UNCHANGED <<fdTable, handlerVars, inbox, outbox>>
    BY <1>2 DEF Acceptor, AcceptorRuns, RunSetup, RunCheck, RunSelectReady,
       RunSelectTimeout, RunSelectError, CloseListener, netVars
  <2>2. acceptor \notin {"select", "accept"} => acceptor' \notin {"select", "accept"}
    BY <1>2 DEF Acceptor, AcceptorRuns, RunSetup, RunCheck, RunSelectReady,
       RunSelectTimeout, RunSelectError, CloseListener, AcceptorMoves
  <2>3. ASSUME NEW c \in Conns, c # d PROVE Old(c, d)'
    <3>1. Old(c, d)
      BY <2>3 DEF StoppedInv
    <3>2. Mail(c)' /\ Unread(c)' /\ NameSent(c)'
      BY <2>1, <3>1 DEF Old, Mail, Unread, NameSent, Kinds, Answered, handlerVars
    <3>3. (Answers(c) => Answers(c)') /\ (Astray(c, d) => Astray(c, d)')
      BY <2>1 DEF Answers, Astray, Answered, handlerVars
    <3> QED  BY <2>1, <3>1, <3>2, <3>3 DEF Old, handlerVars
  <2>4. d # NoConn => Newcomer(d)'
    BY <2>1, <2>2 DEF StoppedInv, Newcomer, Polite, Kinds, Rival, Serving, NoReply,
       handlerVars
  <2>5. ASSUME NEW g \in Conns, NEW h \in Conns, Shares(g, h)' PROVE d \in {g, h}
    BY <2>1, <2>5 DEF StoppedInv, Shares, Serving, handlerVars
  <2> QED  BY <2>3, <2>4, <2>5 DEF StoppedInv
<1> QED  BY <1>1, <1>2

-----------------------------------------------------------------------------
(* The handlers.                                                           *)

LEMMA HandlerMoves ==
  ASSUME TypeInv, NEW h \in Conns, Handler(h)
  PROVE  /\ UNCHANGED clientSocket
         /\ \A f \in FDs : fdTable'[f] \in {fdTable[f], NoConn}
         /\ \A g \in Conns : Serving(g)' => Serving(g)
         /\ \A g \in Conns : g # h =>
              /\ pc'[g] = pc[g] /\ source'[g] = source[g]
              /\ authenticated'[g] = authenticated[g]
              /\ username'[g] = username[g] /\ response'[g] = response[g]
         /\ pc'[h] = "read" => ReadCall(h)
<1>1. UNCHANGED clientSocket
  BY DEF Handler, Register, Check, ReadCall, ReadEnd, Read, SetName, LookupName,
     BroadcastLock, BroadcastSend, BroadcastUnlock, Respond, Close, handlerVars
<1>2. \A f \in FDs : fdTable'[f] \in {fdTable[f], NoConn}
  BY DEF TypeInv, TypeOK, Handler, Register, Check, ReadCall, ReadEnd, Read, SetName,
     LookupName, BroadcastLock, BroadcastSend, BroadcastUnlock, Respond, Close
<1>3. ASSUME NEW g \in Conns, g # h
      PROVE  /\ pc'[g] = pc[g] /\ source'[g] = source[g]
             /\ authenticated'[g] = authenticated[g]
             /\ username'[g] = username[g] /\ response'[g] = response[g]
  BY <1>3 DEF TypeInv, TypeOK, Handler, Register, Check, ReadCall, ReadEnd, Read, Dispatch,
     SetName, LookupName, BroadcastLock, BroadcastSend, BroadcastUnlock, Respond, Close,
     Goto, handlerVars
<1>4. Serving(h)' => Serving(h)
  <2>1. CASE ~(pc[h] \in {"lock", "sending"})
    BY <2>1, HandlerFrame DEF Serving, HandlerPC
  <2>2. CASE pc[h] \in {"lock", "sending"}
    <3>1. BroadcastLock(h) \/ BroadcastSend(h) \/ BroadcastUnlock(h)
      BY <2>2 DEF Handler, Register, Check, ReadCall, ReadEnd, Read, SetName, LookupName,
         Respond, Close
    <3>2. CASE BroadcastLock(h)
      <4>1. response[h] \in Message
        BY DEF TypeInv, TypeOK
      <4>2. [response[h] EXCEPT !.id = broadcasts + 1].kind = response[h].kind
        BY <4>1 DEF Message
      <4>3. pc'[h] = "sending" /\ response'[h].kind = response[h].kind
        BY <3>2, <4>2 DEF BroadcastLock, Goto, TypeInv, TypeOK
      <4> QED  BY <2>2, <4>3 DEF Serving
    <3>3. CASE BroadcastSend(h)
      BY <3>3 DEF BroadcastSend, Serving, handlerVars
    <3>4. CASE BroadcastUnlock(h)
      BY <2>2, <3>4 DEF BroadcastUnlock, Goto, Serving, TypeInv, TypeOK
    <3> QED  BY <3>1, <3>2, <3>3, <3>4
  <2> QED  BY <2>1, <2>2
<1>5. ASSUME NEW g \in Conns PROVE Serving(g)' => Serving(g)
  BY <1>3, <1>4 DEF Serving
<1>6. pc'[h] = "read" => ReadCall(h)
  BY DEF TypeInv, TypeOK, Handler, Register, Check, ReadCall, ReadEnd, Read, Dispatch,
     SetName, LookupName, BroadcastLock, BroadcastSend, BroadcastUnlock, Respond, Close,
     Goto, handlerVars
<1> QED  BY <1>1, <1>2, <1>3, <1>5, <1>6

\* What the number of an old connection may refer to.
LEMMA StoppedOwner ==
  ASSUME TypeInv, DescriptorInv, NEW d \in Conns \cup {NoConn}, StoppedInv(d),
         NEW g \in Conns, g # d, Serving(g)
  PROVE  \/ fdTable[clientSocket[g]] \in {g, NoConn}
         \/ fdTable[clientSocket[g]] = d /\ d \in Conns /\ Rival(g, d)
<1> DEFINE e == fdTable[clientSocket[g]]
<1>1. clientSocket[g] \in FDs /\ e \in Conns \cup {NoConn}
  BY DEF Serving, TypeInv, TypeOK, HandlerHasFD
<1>2. SUFFICES ASSUME e \in Conns, e # NoConn, e # g PROVE e = d /\ Rival(g, d)
  BY <1>1, ConnsAssumption
<1>3. Serving(e) /\ clientSocket[e] = clientSocket[g]
  BY <1>1, <1>2 DEF DescriptorInv, NoLeakedDescriptor
<1>4. e = d
  BY <1>2, <1>3 DEF StoppedInv, Shares
<1> QED  BY <1>3, <1>4 DEF Rival

\* Two rivals would share a number between them.
LEMMA OneRival ==
  ASSUME NEW d, StoppedInv(d), NEW g \in Conns, NEW h \in Conns, Rival(g, d), Rival(h, d)
  PROVE  g = h
BY DEF StoppedInv, Shares, Rival

\* A rival that reads the newcomer's connection finds its first command.
LEMMA RivalReads ==
  ASSUME TypeInv, SilenceInv, NEW d \in Conns, StoppedInv(d), d # NoConn,
         NEW h \in Conns, h # d, Read(h), source[h] = d
  PROVE  /\ pc'[h] = "respond" /\ response'[h].kind \in {"200", "100"}
         /\ UNCHANGED <<authenticated, username, fdTable>>
         /\ \A c \in Conns : c # d => inbox'[c] = inbox[c]
         /\ fdTable[clientSocket[h]] \in {d, NoConn}
<1>0. pc[h] = "read"
  BY DEF Read
<1>1. Newcomer(d) /\ Old(h, d)
  BY DEF StoppedInv
<1>2. clientSocket[h] = clientSocket[d]
  BY <1>0, <1>1, ConnsAssumption DEF Old
<1>3. NoReply(d)
  BY <1>0, <1>1, <1>2 DEF Newcomer, Rival, Serving
<1>4. inbox[d] \in {<<>>, <<"CONN_REQ">>, <<"PING">>}
  BY <1>3 DEF SilenceInv, Silence, Early
<1>5. PICK n \in 1..MaxChunk :
        /\ n <= Len(inbox[d])
        /\ Dispatch(h, Classify(SubSeq(inbox[d], 1, n)))
        /\ inbox' = [inbox EXCEPT ![d] = SubSeq(@, n + 1, Len(@))]
  BY DEF Read
<1>6. n \in Nat /\ n >= 1 /\ inbox[d] \in Seq(Commands)
  BY Bounds DEF TypeInv, TypeOK
<1>7. PICK command \in {"CONN_REQ", "PING"} : inbox[d] = <<command>>
  BY <1>4, <1>5, <1>6
<1>8. Classify(SubSeq(inbox[d], 1, n)) = command
  <2>1. n = 1
    BY <1>5, <1>6, <1>7
  <2>2. /\ SubSeq(inbox[d], 1, 1) \in Seq(Commands)
        /\ Len(SubSeq(inbox[d], 1, 1)) = 1 /\ SubSeq(inbox[d], 1, 1)[1] = command
    BY <1>6, <1>7
  <2> QED  BY <2>1, <2>2 DEF Classify
<1>9. Dispatch(h, command)
  BY <1>5, <1>8
<1>10. /\ pc'[h] = "respond" /\ response'[h].kind \in {"200", "100"}
       /\ UNCHANGED <<authenticated, username>>
  BY <1>9 DEF Dispatch, Goto, Reply, TypeInv, TypeOK
<1>11. \A c \in Conns : c # d => inbox'[c] = inbox[c]
  BY <1>5 DEF TypeInv, TypeOK
<1> QED  BY <1>1, <1>2, <1>10, <1>11 DEF Read, Newcomer

\* What an old handler does next, and what of its client it has left unread.
LEMMA OldSteps ==
  ASSUME TypeInv, DescriptorInv, SilenceInv, ClientTypeOK, UNCHANGED client,
         \A c \in Conns : ServerEnded(c) => ServerEnded(c)',
         NEW d \in Conns \cup {NoConn}, StoppedInv(d), NEW h \in Conns, h # d, Handler(h)
  PROVE  /\ Answers(h)' \/ Astray(h, d)'
         /\ Unread(h)' /\ NameSent(h)' /\ (Answered(h) => Answered(h)')
         /\ authenticated[h] => authenticated'[h]
         /\ pc'[h] = "read" => \/ source'[h] \in {h, NoConn}
                               \/ source'[h] = d /\ clientSocket'[h] = clientSocket'[d]
<1>1. Old(h, d)
  BY DEF StoppedInv
<1>2. CASE Read(h)
  <2>1. Answers(h) /\ Unread(h) /\ NameSent(h) /\ source[h] # NoConn /\ pc'[h] # "read"
    <3>1. pc'[h] # "read"
      BY <1>2, HandlerMoves DEF Read, ReadCall
    <3> QED  BY <1>1, <1>2, <3>1 DEF Read, Old, Astray
  <2>2. CASE source[h] = h
    BY <1>2, <2>1, <2>2, ReadAnswers
  <2>3. CASE source[h] # h
    <3>1. source[h] = d /\ d \in Conns /\ d # NoConn
      BY <1>1, <1>2, <2>1, <2>3, ConnsAssumption DEF Old, Read
    <3>2. /\ pc'[h] = "respond" /\ response'[h].kind \in {"200", "100"}
          /\ UNCHANGED <<authenticated, username, fdTable>>
          /\ inbox'[h] = inbox[h]
          /\ fdTable[clientSocket[h]] \in {d, NoConn}
      BY <1>2, <3>1, RivalReads
    <3>3. Astray(h, d)'
      BY <2>1, <3>2, HandlerMoves DEF Astray, Answers
    <3>4. Unread(h)' /\ NameSent(h)' /\ (Answered(h) => Answered(h)')
      BY <2>1, <3>2 DEF Unread, NameSent, Answered
    <3> QED  BY <2>1, <3>2, <3>3, <3>4
  <2> QED  BY <2>2, <2>3
<1>3. CASE ~Read(h)
  <2>1. UNCHANGED inbox
    BY <1>3, InboxKept
  <2>2. Answers(h)' /\ authenticated'[h] = authenticated[h]
    <3>1. CASE Answers(h)
      BY <1>3, <3>1, TurnAnswers
    <3>2. CASE Astray(h, d)
      <4>1. Respond(h)
        BY <3>2 DEF Astray, Handler, Register, Check, ReadCall, ReadEnd, Read, SetName,
           LookupName, BroadcastLock, BroadcastSend, BroadcastUnlock, Close
      <4>2. pc'[h] \in {"check", "close"} /\ UNCHANGED <<authenticated, username>>
        BY <4>1 DEF Respond, Goto, TypeInv, TypeOK
      <4> QED  BY <3>2, <4>2 DEF Astray, Answers
    <3> QED  BY <1>1, <3>1, <3>2 DEF Old
  <2>3. Unread(h)' /\ NameSent(h)' /\ Answered(h)' = Answered(h)
    BY <1>1, <2>1, <2>2 DEF Old, Unread, NameSent, Answered
  <2>4. ASSUME pc'[h] = "read"
        PROVE  \/ source'[h] \in {h, NoConn}
               \/ source'[h] = d /\ clientSocket'[h] = clientSocket'[d]
    <3>1. ReadCall(h) /\ UNCHANGED clientSocket
      BY <2>4, HandlerMoves
    <3>2. source'[h] = fdTable[clientSocket[h]] /\ Serving(h)
      BY <3>1 DEF ReadCall, Serving, TypeInv, TypeOK
    <3> QED  BY <3>1, <3>2, StoppedOwner DEF Rival
  <2> QED  BY <2>2, <2>3, <2>4
<1> QED  BY <1>2, <1>3

\* What is sent: a broadcast to anybody, a reply to its own client or a rival's
\* to the newcomer.
LEMMA StoppedSends ==
  ASSUME TypeInv, DescriptorInv, NEW d \in Conns \cup {NoConn}, StoppedInv(d),
         NEW h \in Conns, Handler(h), NEW c \in Conns
  PROVE  \/ Kinds(c)' = Kinds(c)
         \/ \E kind \in Broadcasts : Kinds(c)' = Kinds(c) \cup {kind}
         \/ \E kind \in {"200", "100", "USER_OK"} :
              /\ Kinds(c)' = Kinds(c) \cup {kind} /\ Respond(h) /\ h # d
              /\ \/ /\ c = h
                    /\ kind = "100" => Answered(c)
                    /\ kind = "USER_OK" => authenticated[c]
                 \/ c = d /\ Rival(h, d)
<1>1. h # d => Old(h, d)
  BY DEF StoppedInv
<1>2. h = d => pc[h] \notin {"sending", "respond"}
  BY ConnsAssumption DEF StoppedInv, Newcomer
<1>3. CASE BroadcastSend(h)
  <2>1. pc[h] = "sending" /\ clientSockets[pos] \in FDs /\ response[h] \in Message
    BY <1>3 DEF BroadcastSend, TypeInv, TypeOK
  <2>2. response[h].kind \in Broadcasts
    BY <1>1, <1>2, <2>1 DEF Old, Answers, Astray
  <2>3. Kinds(c)' = Kinds(c) \/ Kinds(c)' = Kinds(c) \cup {response[h].kind}
    BY <1>3, <2>1, SendKinds DEF BroadcastSend
  <2> QED  BY <2>2, <2>3
<1>4. CASE Respond(h)
  <2>1. /\ pc[h] = "respond" /\ Serving(h)
        /\ clientSocket[h] \in FDs /\ response[h] \in Message
    BY <1>4 DEF Respond, Serving, TypeInv, TypeOK, HandlerHasFD
  <2>2. /\ h # d /\ (Answers(h) \/ Astray(h, d))
        /\ response[h].kind \in {"200", "100", "USER_OK"}
    BY <1>1, <1>2, <2>1 DEF Old, Answers, Astray
  <2>3. CASE Kinds(c)' = Kinds(c)
    BY <2>3
  <2>4. CASE c = fdTable[clientSocket[h]] /\ Kinds(c)' = Kinds(c) \cup {response[h].kind}
    <3>1. c = h \/ (c = d /\ Rival(h, d))
      BY <2>1, <2>2, <2>4, StoppedOwner, ConnsAssumption
    <3>2. CASE c = h
      <4>1. Answers(h)
        BY <2>2, <2>4, <3>2, ConnsAssumption DEF Astray
      <4> QED  BY <1>4, <2>1, <2>2, <2>4, <3>2, <4>1 DEF Answers
    <3>3. CASE c = d /\ Rival(h, d)
      BY <1>4, <2>2, <2>4, <3>3
    <3> QED  BY <3>1, <3>2, <3>3
  <2> QED  BY <1>4, <2>1, <2>3, <2>4, SendKinds DEF Respond
<1>5. CASE ~(BroadcastSend(h) \/ Respond(h))
  <2>1. UNCHANGED outbox
    BY <1>5 DEF Handler, Register, Check, ReadCall, ReadEnd, Read, SetName, LookupName,
       BroadcastLock, BroadcastUnlock, Close, netVars
  <2> QED  BY <2>1 DEF Kinds
<1> QED  BY <1>3, <1>4, <1>5

LEMMA HandlerKeepsOld ==
  ASSUME TypeInv, DescriptorInv, SilenceInv, ClientTypeOK, UNCHANGED client,
         \A e \in Conns : ServerEnded(e) => ServerEnded(e)',
         NEW d \in Conns \cup {NoConn}, StoppedInv(d), NEW h \in Conns, Handler(h),
         NEW c \in Conns, c # d
  PROVE  Old(c, d)'
<1>1. Old(c, d)
  BY DEF StoppedInv
<1>2. c # h => inbox'[c] = inbox[c]
  <2>1. CASE Read(h)
    <3>1. h # d
      BY <2>1, ConnsAssumption DEF Read, StoppedInv, Newcomer
    <3>2. source[h] \in {h, d}
      BY <2>1, <3>1 DEF Read, StoppedInv, Old
    <3>3. c # h => source[h] # c
      BY <3>2
    <3> QED  BY <2>1, <3>3 DEF Read, TypeInv, TypeOK
  <2>2. CASE ~Read(h)
    BY <2>2, InboxKept
  <2> QED  BY <2>1, <2>2
<1>3. /\ Answers(c)' \/ Astray(c, d)'
      /\ Unread(c)' /\ NameSent(c)' /\ (Answered(c) => Answered(c)')
      /\ authenticated[c] => authenticated'[c]
      /\ pc'[c] = "read" => \/ source'[c] \in {c, NoConn}
                            \/ source'[c] = d /\ clientSocket'[c] = clientSocket'[d]
  <2>1. CASE c = h
    BY <2>1, OldSteps
  <2>2. CASE c # h
    <3>1. /\ pc'[c] = pc[c] /\ source'[c] = source[c]
          /\ authenticated'[c] = authenticated[c]
          /\ username'[c] = username[c] /\ response'[c] = response[c]
          /\ clientSocket' = clientSocket /\ inbox'[c] = inbox[c]
      BY <1>2, <2>2, HandlerMoves
    <3>2. Unread(c)' /\ NameSent(c)' /\ Answered(c)' = Answered(c)
      BY <1>1, <3>1 DEF Old, Unread, NameSent, Answered
    <3>3. Answers(c) => Answers(c)'
      BY <3>1, <3>2 DEF Answers
    <3>4. Astray(c, d) => Astray(c, d)'
      <4>1. pc[c] # "none" => clientSocket[c] \in FDs
        BY DEF TypeInv, HandlerHasFD
      <4>2. \A f \in FDs : fdTable'[f] \in {fdTable[f], NoConn}
        BY HandlerMoves
      <4> QED  BY <3>1, <4>1, <4>2 DEF Astray
    <3> QED  BY <1>1, <3>1, <3>2, <3>3, <3>4 DEF Old
  <2> QED  BY <2>1, <2>2
<1>4. Mail(c)'
  <2>1. Mail(c)
    BY <1>1 DEF Old
  <2>2. \/ Kinds(c)' = Kinds(c)
        \/ \E kind : /\ Kinds(c)' = Kinds(c) \cup {kind}
                     /\ kind \notin {"BAD_REQ", "NOT_AUTHENTICATED"}
                     /\ kind = "100" => Answered(c)
                     /\ kind = "USER_OK" => authenticated[c]
    BY StoppedSends DEF Broadcasts
  <2> QED  BY <1>3, <2>1, <2>2 DEF Mail
<1> QED  BY <1>3, <1>4 DEF Old

LEMMA HandlerKeepsNewcomer ==
  ASSUME TypeInv, DescriptorInv, ~running, UNCHANGED client,
         NEW d \in Conns, StoppedInv(d), NEW h \in Conns, Handler(h)
  PROVE  Newcomer(d)'
<1>1. Newcomer(d) /\ UNCHANGED acceptor
  BY ConnsAssumption, HandlerFrame DEF StoppedInv, serverVars
<1>2. pc'[d] \in {"start", "check", "close", "done"} /\ ~authenticated'[d]
  <2>1. CASE h = d
    <3>1. Register(d) \/ Check(d) \/ Close(d)
      BY <1>1, <2>1 DEF Newcomer, Handler, ReadCall, ReadEnd, Read, SetName, LookupName,
         BroadcastLock, BroadcastSend, BroadcastUnlock, Respond
    <3> QED  BY <1>1, <3>1 DEF Newcomer, Register, Check, Close, Goto, TypeInv, TypeOK
  <2>2. CASE h # d
    BY <1>1, <2>2, HandlerMoves DEF Newcomer
  <2> QED  BY <2>1, <2>2
<1>3. fdTable'[clientSocket'[d]] \in {d, NoConn}
  <2>1. clientSocket[d] \in FDs
    BY <1>1 DEF Newcomer, TypeInv, HandlerHasFD
  <2> QED  BY <1>1, <2>1, HandlerMoves DEF Newcomer
<1>4. Polite(d)'
  <2>1. \/ Kinds(d)' = Kinds(d)
        \/ \E kind : /\ Kinds(d)' = Kinds(d) \cup {kind}
                     /\ kind \notin {"BAD_REQ", "NOT_AUTHENTICATED"}
    BY StoppedSends DEF Broadcasts
  <2> QED  BY <1>1, <2>1 DEF Newcomer, Polite
<1>5. ASSUME NEW g \in Conns, Rival(g, d)', ~NoReply(d)'
      PROVE  pc'[g] \in {"check", "close"}
  <2>1. Rival(g, d)
    BY <1>5, HandlerMoves DEF Rival
  <2>2. (NoReply(d) <=> Kinds(d) \subseteq Broadcasts)
        /\ (NoReply(d)' <=> Kinds(d)' \subseteq Broadcasts)
    <3>1. NoReply(d) <=> Kinds(d) \subseteq Broadcasts
      BY NoReplyKinds
    <3>2. NoReply(d)' <=> Kinds(d)' \subseteq Broadcasts
      BY DEF NoReply, IsReply, Kinds
    <3> QED  BY <3>1, <3>2
  <2>3. CASE ~NoReply(d)
    <3>1. pc[g] \in {"check", "close"}
      BY <1>1, <2>1, <2>3 DEF Newcomer
    <3>2. CASE g # h
      BY <3>1, <3>2, HandlerMoves
    <3>3. CASE g = h
      <4>1. Check(h) \/ Close(h)
        BY <3>1, <3>3 DEF Handler, Register, ReadCall, ReadEnd, Read, SetName, LookupName,
           BroadcastLock, BroadcastSend, BroadcastUnlock, Respond
      <4>2. CASE Check(h)
        BY <3>3, <4>2 DEF Check, Goto, TypeInv, TypeOK
      <4>3. CASE Close(h)
        <5>1. \/ pc'[h] = "done"
              \/ pc'[h] = "lock" /\ response'[h].kind = "left"
          BY <4>3 DEF Close, Goto, Announcement, TypeInv, TypeOK
        <5>2. ~Serving(h)'
          BY <5>1 DEF Serving
        <5> QED  BY <1>5, <3>3, <5>2 DEF Rival
      <4> QED  BY <4>1, <4>2, <4>3
    <3> QED  BY <3>2, <3>3
  <2>4. CASE NoReply(d)
    <3>1. Respond(h) /\ Rival(h, d)
      <4>1. ~(Kinds(d)' = Kinds(d)) /\ ~(\E kind \in Broadcasts : Kinds(d)' = Kinds(d) \cup {kind})
        BY <1>5, <2>2, <2>4
      <4>2. Respond(h) /\ h # d /\ (d = h \/ Rival(h, d))
        BY <4>1, StoppedSends
      <4> QED  BY <4>2
    <3>2. g = h
      BY <2>1, <3>1, OneRival
    <3> QED  BY <3>1, <3>2 DEF Respond, Goto, TypeInv, TypeOK
  <2> QED  BY <2>3, <2>4
<1> QED  BY <1>1, <1>2, <1>3, <1>4, <1>5 DEF Newcomer

LEMMA HandlerKeepsStopped ==
  ASSUME TypeInv, DescriptorInv, SilenceInv, ClientTypeOK, UNCHANGED client, ~running,
         \A c \in Conns : ServerEnded(c) => ServerEnded(c)',
         NEW d \in Conns \cup {NoConn}, StoppedInv(d), NEW h \in Conns, Handler(h)
  PROVE  StoppedInv(d)'
<1>1. ASSUME NEW g \in Conns, NEW k \in Conns, Shares(g, k)' PROVE d \in {g, k}
  BY <1>1, HandlerMoves DEF StoppedInv, Shares
<1>2. d # NoConn => Newcomer(d)'
  BY HandlerKeepsNewcomer
<1> QED  BY <1>1, <1>2, HandlerKeepsOld DEF StoppedInv

-----------------------------------------------------------------------------
(* The clients.                                                            *)

LEMMA ClientsKeepStopped ==
  ASSUME TypeInv, ClientTypeOK, NEW d \in Conns \cup {NoConn}, StoppedInv(d),
         NEW c \in Conns, Unconnected(c), Touches(c), ClientStep(c), ServerUnchanged
  PROVE  StoppedInv(d)'
<1>0. \A e \in Conns : ServerEnded(e) => ServerEnded(e)'
  BY EndKeptByClient
<1>1. UNCHANGED <<acceptor, fdTable, handlerVars, outbox>>
  BY DEF Touches, ServerUnchanged, Unchanged4Peers, serverVars
<1>2. ASSUME NEW e \in Conns, e # d PROVE Old(e, d)'
  <2>1. Old(e, d)
    BY <1>2 DEF StoppedInv
  <2>2. (Answered(e) => Answered(e)') /\ Unread(e)' /\ NameSent(e)'
    <3>1. CASE e = c
      <4>1. Speaks(c)
        BY <1>0, <1>1, <2>1, <3>1, ClientSpeaks DEF Old, handlerVars
      <4> QED  BY <3>1, <4>1 DEF Speaks
    <3>2. CASE e # c
      <4>1. client'[e] = client[e] /\ inbox'[e] = inbox[e]
        BY <3>2, ClientFrame
      <4> QED  BY <1>0, <1>1, <2>1, <4>1 DEF Old, Unread, NameSent, Answered, handlerVars
    <3> QED  BY <3>1, <3>2
  <2>3. Mail(e)'
    BY <1>1, <2>1, <2>2 DEF Old, Mail, Kinds, handlerVars
  <2>4. (Answers(e) => Answers(e)') /\ (Astray(e, d) => Astray(e, d)')
    BY <1>1, <2>2 DEF Answers, Astray, handlerVars
  <2> QED  BY <1>1, <2>1, <2>2, <2>3, <2>4 DEF Old, handlerVars
<1>3. ASSUME d # NoConn PROVE Newcomer(d)'
  <2>1. Newcomer(d) /\ d \in Conns
    BY <1>3 DEF StoppedInv
  <2>2. /\ Polite(d)' /\ NoReply(d)' = NoReply(d)
        /\ \A g \in Conns : Rival(g, d)' = Rival(g, d)
    BY <1>1, <2>1 DEF Newcomer, Polite, Kinds, NoReply, Rival, Serving, handlerVars
  <2> QED  BY <1>1, <2>1, <2>2 DEF Newcomer, handlerVars
<1>4. ASSUME NEW g \in Conns, NEW h \in Conns, Shares(g, h)' PROVE d \in {g, h}
  BY <1>1, <1>4 DEF StoppedInv, Shares, Serving, handlerVars
<1> QED  BY <1>2, <1>3, <1>4 DEF StoppedInv

-----------------------------------------------------------------------------
(* The steps of the process.                                               *)

LEMMA AfterStep ==
  HostInv /\ FirstInv /\ SilenceInv /\ AfterInv /\ [HostNext]_allVars => AfterInv'
<1> SUFFICES ASSUME HostInv, FirstInv, SilenceInv, AfterInv, [HostNext]_allVars,
                    starts' <= 1, ~Unstopped'
             PROVE  \E d \in Conns \cup {NoConn} : StoppedInv(d)'
  BY DEF AfterInv
<1>1. TypeInv /\ DescriptorInv /\ ClientTypeOK /\ \A c \in Conns : Unconnected(c)
  BY DEF HostInv, ServerInv
<1>2. ~Start
  BY DEF Unstopped, Start
<1>3. CASE running /\ StopRequest
  <2>1. SessionInv /\ DialogueInv
    BY <1>3 DEF FirstInv, Unstopped, StopRequest
  <2>2. UNCHANGED <<client, childTable>>
    <3>1. CASE ServerAndClients
      <4>1. ~Clients
        BY <1>3 DEF StopRequest, Clients, ServerUnchanged, Unchanged4Peers, serverVars
      <4> QED  BY <3>1, <4>1 DEF ServerAndClients, ChatNext, ChatSessionNext, clientVars
    <3>2. CASE ~ServerAndClients
      <4>1. ~running'
        BY <1>3 DEF StopRequest
      <4>2. ~(Fork \/ ChildExits \/ ChildEnds("program") \/ Reap)
        BY <1>3, <4>1, ChildFrame DEF serverVars
      <4>3. ~Exits /\ allVars' # allVars
        BY <1>3, <4>1, ExitFrame DEF serverVars, allVars, chatVars, vars
      <4> QED  BY <3>2, <4>2, <4>3 DEF HostNext, ExitRequest, clientVars
    <3> QED  BY <3>1, <3>2
  <2> QED  BY <1>1, <1>3, <2>1, <2>2, StopBegins
<1>4. CASE UNCHANGED <<starts, running>>
  <2>1. starts <= 1 /\ ~Unstopped /\ ~running
    BY <1>4 DEF Unstopped
  <2>2. PICK d \in Conns \cup {NoConn} : StoppedInv(d)
    BY <2>1 DEF AfterInv
  <2>3. CASE ServerAndClients
    <3>1. CASE Clients
      <4>1. PICK c \in Conns : ClientStep(c)
        BY <3>1 DEF Clients, ClientStep
      <4>2. Touches(c) /\ ServerUnchanged
        BY <1>1, <3>1, <4>1, ClientTouches DEF Clients
      <4>3. StoppedInv(d)'
        BY <1>1, <2>2, <4>1, <4>2, ClientsKeepStopped
      <4> QED  BY <4>3
    <3>2. CASE proc = "up" /\ (ServerRuns \/ Stopping) /\ UNCHANGED <<clientVars, childTable>>
      <4>0. /\ UNCHANGED <<client, childTable>>
            /\ \A c \in Conns : ServerEnded(c) => ServerEnded(c)'
        BY <1>1, <3>2, EndKeptByServer, EndKeptByStopping DEF clientVars
      <4>1. CASE Stopping
        BY <1>1, <2>2, <4>0, <4>1, StoppingKeepsStopped
      <4>2. CASE Acceptor
        BY <1>1, <2>1, <2>2, <4>0, <4>2, AcceptorKeepsStopped
      <4>3. CASE BrokenPipe \/ UsernamesRace
        <5>1. UNCHANGED <<acceptor, fdTable, handlerVars, inbox, outbox, client>>
          BY <4>0, <4>3, DeathFrame DEF serverVars, netVars
        <5> QED  BY <2>2, <4>0, <5>1, StoppedFrame
      <4>4. ASSUME NEW h \in Conns, Handler(h)
            PROVE  \E e \in Conns \cup {NoConn} : StoppedInv(e)'
        BY <1>1, <2>1, <2>2, <4>0, <4>4, HandlerKeepsStopped
      <4> QED  BY <1>2, <3>2, <4>1, <4>2, <4>3, <4>4 DEF ServerRuns
    <3>3. ~StopRequest
      BY <2>1 DEF StopRequest
    <3> QED  BY <2>3, <3>1, <3>2, <3>3 DEF ServerAndClients, ChatNext, ChatSessionNext
  <2>4. CASE ~ServerAndClients
    <3>1. /\ UNCHANGED <<acceptor, fdTable, handlerVars, inbox, outbox, client>>
          /\ \A c \in Conns : ServerEnded(c) => ServerEnded(c)'
      <4>1. CASE Fork \/ ChildExits \/ ChildEnds("program") \/ Reap
        BY <4>1, ChildFrame DEF serverVars, clientVars
      <4>2. CASE Exits \/ ExitRequest
        BY <2>1, <4>2, ExitFrame DEF serverVars, clientVars
      <4>3. CASE UNCHANGED allVars
        BY <4>3 DEF ServerEnded, Open, allVars, chatVars, vars, serverVars, netVars,
           clientVars, handlerVars
      <4> QED  BY <2>4, <4>1, <4>2, <4>3 DEF HostNext
    <3> QED  BY <2>2, <3>1, StoppedFrame
  <2> QED  BY <2>3, <2>4
<1> QED  BY <1>2, <1>3, <1>4, RunsFrame

LEMMA AfterInitially == HostInit => AfterInv
BY DEF HostInit, ChatInit, Init, AfterInv, Unstopped

LEMMA WholeRunInvariant == HostSpec => [](HostInv /\ FirstInv /\ SilenceInv /\ AfterInv)
BY HostInitially, HostStep, FirstInitially, FirstStep, SilenceInitially, SilenceStep,
   AfterInitially, AfterStep, PTL DEF HostSpec

-----------------------------------------------------------------------------
(* What the first run promises after server stop as well.                  *)

\* No client of the first run is answered BAD_REQ or NOT_AUTHENTICATED, also not
\* one that is accepted while the server is being stopped and is answered by a
\* handler of another connection (client.cpp 95-148, server.cpp 26-44, 139-147,
\* 187-222).
THEOREM FirstRunRefusesNobody == HostSpec => [](starts <= 1 => NeverRefused)
<1>1. ASSUME HostInv, FirstInv, AfterInv, starts <= 1 PROVE NeverRefused
  <2>1. CASE Unstopped
    BY <1>1, <2>1, DialogueNeverRefuses DEF HostInv, ServerInv, FirstInv
  <2>2. CASE ~Unstopped
    <3>1. PICK d \in Conns \cup {NoConn} : StoppedInv(d)
      BY <1>1, <2>2 DEF AfterInv
    <3>2. ASSUME NEW c \in Conns PROVE {"BAD_REQ", "NOT_AUTHENTICATED"} \cap Kinds(c) = {}
      BY <3>1, ConnsAssumption DEF StoppedInv, Old, Mail, Newcomer, Polite
    <3> QED  BY <3>2 DEF NeverRefused, Kinds
  <2> QED  BY <2>1, <2>2
<1> QED  BY <1>1, WholeRunInvariant, PTL

\* At most one handler of the first run ever reads a connection that is not its
\* own: that is all server stop can leave behind, whatever falls between a test of
\* running and the read() after it (server.cpp 26-44, 139-147, 187-193, 233).
OneStrays == \A g, h \in Conns : Strayed(g) /\ Strayed(h) => g = h

THEOREM FirstRunStraysOnce == HostSpec => [](starts <= 1 => OneStrays)
<1>1. ASSUME HostInv, FirstInv, AfterInv, starts <= 1 PROVE OneStrays
  <2>1. CASE Unstopped
    BY <1>1, <2>1 DEF FirstInv, SessionInv, Own, OneStrays, Strayed
  <2>2. CASE ~Unstopped
    <3>1. PICK d \in Conns \cup {NoConn} : StoppedInv(d)
      BY <1>1, <2>2 DEF AfterInv
    <3>2. ASSUME NEW h \in Conns, Strayed(h) PROVE Rival(h, d)
      <4>1. h # d
        BY <3>1, <3>2, ConnsAssumption DEF StoppedInv, Newcomer, Strayed
      <4>2. clientSocket[h] = clientSocket[d]
        BY <3>1, <3>2, <4>1 DEF StoppedInv, Old, Strayed
      <4> QED  BY <3>2, <4>1, <4>2 DEF Rival, Serving, Strayed
    <3> QED  BY <3>1, <3>2, OneRival DEF OneStrays
  <2> QED  BY <2>1, <2>2
<1> QED  BY <1>1, WholeRunInvariant, PTL

=============================================================================
