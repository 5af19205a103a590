-------------------------- MODULE LispChat_proofs --------------------------
(***************************************************************************)
(* Theorems about the server and its Lunix clients together, for any       *)
(* number of clients, descriptors and lines they type.                     *)
(***************************************************************************)
EXTENDS LispChat, LispServer_proofs, FiniteSetTheorems

-----------------------------------------------------------------------------
(* The inductive invariant: how far the two ends of a connection can be    *)
(* apart.                                                                  *)

\* The kinds of messages a connection has been sent.
Kinds(c) == {outbox[c][i].kind : i \in 1..Len(outbox[c])}

\* The request of c has been read.
Answered(c) == client[c] \notin {"off", "request"} /\ inbox[c] # <<"CONN_REQ">>

\* What is read once the name is known, any chats and DISS as the last; the name
\* and what comes behind it; what a client sends before it says goodbye.
Said(q, i) == q[i] = "CHAT" \/ (q[i] = "DISS" /\ i = Len(q))
Talk(q)    == \A i \in 1..Len(q) : Said(q, i)
Named(q)   == Len(q) > 0 /\ q[1] = "USER_SET" /\ \A i \in 2..Len(q) : Said(q, i)
Stays(q)   == \A i \in 1..Len(q) : q[i] # "DISS"

\* The handler of h.
Answers(h) ==
  /\ authenticated[h] => username[h] = h
  /\ pc[h] = "naming" => authenticated[h]
  /\ pc[h] \in {"lock", "sending"} =>
       response[h].kind \in Broadcasts /\ (response[h].kind = "joined" => authenticated[h])
  /\ pc[h] = "respond" => response[h].kind \in {"200", "100", "USER_OK"}
  /\ pc[h] = "respond" /\ response[h].kind = "100" => Answered(h)
  /\ pc[h] = "respond" /\ response[h].kind = "USER_OK" => authenticated[h]

\* What c has been sent.
Mail(c) ==
  /\ {"BAD_REQ", "NOT_AUTHENTICATED"} \cap Kinds(c) = {}
  /\ "100" \in Kinds(c) => Answered(c)
  /\ "USER_OK" \in Kinds(c) => authenticated[c]

\* What c has sent and the handler has not read.
Unread(c) ==
  /\ client[c] \in {"off", "request", "ping", "name"} => inbox[c] = <<>>
  /\ client[c] \in {"await100", "refused"} => inbox[c] \in {<<>>, <<"CONN_REQ">>}
  /\ client[c] \in {"pong", "pinged"} => inbox[c] \in {<<>>, <<"PING">>}
  /\ client[c] \in {"awaitOK", "awaitOK2", "failed"} => inbox[c] \in {<<>>, <<"USER_SET">>}
  /\ client[c] \in {"check", "line"} =>
       /\ Stays(inbox[c])
       /\ authenticated[c] \/ inbox[c] = <<>> \/ Named(inbox[c])
  /\ ~authenticated[c] =>
       inbox[c] \in {<<>>, <<"CONN_REQ">>, <<"PING">>} \/ Named(inbox[c])
  /\ authenticated[c] =>
       /\ Talk(inbox[c])
       /\ client[c] \notin {"off", "request", "await100", "refused", "name",
                           "ping", "pong", "pinged"}

\* A name that has been typed is known or still to be read, unless nobody was
\* there any more to read it.
NameSent(c) ==
  client[c] \in {"awaitOK", "awaitOK2", "check", "line"} /\ inbox[c] = <<>> =>
    authenticated[c] \/ ServerEnded(c)

Unconnected(c) == client[c] = "off" => peer[c] = "none"

DialogueInv ==
  \A c \in Conns : Answers(c) /\ Mail(c) /\ Unread(c) /\ NameSent(c) /\ Unconnected(c)

-----------------------------------------------------------------------------
(* What has been sent and not read, as a sequence.                         *)

\* What a client in the chat sends keeps it talking, behind its name or not.
LEMMA TalkAppend ==
  ASSUME NEW q \in Seq(Commands), Stays(q), NEW m \in {"CHAT", "DISS"}
  PROVE  /\ Talk(q) => Talk(Append(q, m))
         /\ Named(q) => Named(Append(q, m))
         /\ m = "CHAT" => Stays(Append(q, m))
<1>1. /\ Len(q) \in Nat
      /\ Len(Append(q, m)) = Len(q) + 1 /\ Append(q, m)[Len(q) + 1] = m
      /\ \A i \in 1..Len(q) : Append(q, m)[i] = q[i]
  OBVIOUS
<1>2. Talk(q) => Talk(Append(q, m))
  BY <1>1 DEF Stays, Talk, Said
<1>3. Named(q) => Named(Append(q, m))
  BY <1>1 DEF Stays, Named, Said
<1>4. m = "CHAT" => Stays(Append(q, m))
  BY <1>1 DEF Stays
<1> QED  BY <1>2, <1>3, <1>4

\* Nobody talks before the name is known, and only the name is followed by talk.
LEMMA TalkAlone ==
  /\ Talk(<<>>) /\ Stays(<<>>) /\ Named(<<"USER_SET">>) /\ Stays(<<"USER_SET">>)
  /\ ~Talk(<<"CONN_REQ">>) /\ ~Talk(<<"PING">>) /\ ~Talk(<<"USER_SET">>)
  /\ ~Named(<<"CONN_REQ">>) /\ ~Named(<<"PING">>) /\ ~Named(<<>>)
BY DEF Talk, Named, Stays, Said

\* One read of talk returns a CHAT or the DISS at its end, one of a name and talk
\* the name, and what is left is talk.
LEMMA TalkRead ==
  ASSUME NEW q \in Seq(Commands), NEW n \in Nat, 1 <= n, n <= Len(q),
         Talk(q) \/ Named(q)
  PROVE  /\ Talk(q)  => Classify(SubSeq(q, 1, n)) \in {"CHAT", "DISS"}
         /\ Named(q) => Classify(SubSeq(q, 1, n)) = "USER_SET"
         /\ Talk(SubSeq(q, n + 1, Len(q)))
         /\ Stays(q) => Stays(SubSeq(q, n + 1, Len(q)))
         /\ q = <<"USER_SET">> => SubSeq(q, n + 1, Len(q)) = <<>>
<1> DEFINE rest == SubSeq(q, n + 1, Len(q))
           read == SubSeq(q, 1, n)
<1>1. /\ Len(rest) = Len(q) - n /\ Len(q) \in Nat
      /\ \A i \in 1..Len(rest) : rest[i] = q[n + i] /\ n + i \in 2..Len(q)
  OBVIOUS
<1>2. Len(read) = n /\ read \in Seq(Commands) /\ read[1] = q[1]
  OBVIOUS
<1>3. Head(read) = q[1] /\ 1 \in 1..Len(q)
  BY <1>2
<1>4. q = <<"USER_SET">> => rest = <<>>
  OBVIOUS
<1> HIDE DEF rest, read
<1>5. \A i \in 2..Len(q) : Said(q, i)
  BY DEF Talk, Named
<1>6. Talk(rest)
  BY <1>1, <1>5 DEF Talk, Said
<1>7. Stays(q) => Stays(rest)
  BY <1>1 DEF Stays
<1>8. Talk(q) => Classify(read) \in {"CHAT", "DISS"}
  BY <1>2, <1>3 DEF Talk, Said, Classify
<1>9. Named(q) => Classify(read) = "USER_SET"
  BY <1>2, <1>3 DEF Named, Classify
<1> QED  BY <1>4, <1>6, <1>7, <1>8, <1>9 DEF rest, read

-----------------------------------------------------------------------------
(* What the clients do to the network: they send one command or none.      *)

ClientStep(c) == User(c) \/ Handshake(c) \/ Leaving(c) \/ Receiving(c)

Sends(c, m) == inbox' \in {inbox, [inbox EXCEPT ![c] = Append(@, m)]}

Touches(c) ==
  /\ \E m \in {"PING", "CONN_REQ", "USER_SET", "CHAT", "DISS"} : Sends(c, m)
  /\ \E p \in {"backlog", "closed", "reset"} :
       peer' \in {peer, [peer EXCEPT ![c] = p]} /\ (p = "backlog" => peer[c] = "none")
  /\ \E n \in Nat : rcvd' \in {rcvd, [rcvd EXCEPT ![c] = n]}
  /\ UNCHANGED <<shut, cmds, outbox>>

LEMMA SendTouches ==
  ASSUME NEW c, NEW m, ClientSend(c, m)
  PROVE  /\ Sends(c, m)
         /\ peer' \in {peer, [peer EXCEPT ![c] = "reset"]}
         /\ UNCHANGED <<shut, cmds, outbox, rcvd>>
BY DEF ClientSend, Sends

LEMMA ReadTouches ==
  ASSUME TypeInv, NEW c \in Conns, NEW n \in Nat, ClientRead(c, n)
  PROVE  /\ \E k \in Nat : rcvd' = [rcvd EXCEPT ![c] = k]
         /\ UNCHANGED <<peer, shut, inbox, cmds, outbox>>
<1>1. rcvd[c] + n \in Nat
  BY DEF TypeInv, TypeOK
<1> QED  BY <1>1 DEF ClientRead

LEMMA OutboxLength ==
  ASSUME TypeInv, NEW c \in Conns
  PROVE  Len(outbox[c]) \in Nat
BY DEF TypeInv, TypeOK

LEMMA ClientTouches ==
  ASSUME TypeInv, NEW c \in Conns, Unconnected(c), ClientStep(c)
  PROVE  Touches(c)
<1>0. Len(outbox[c]) \in Nat
  BY OutboxLength
<1>1. ASSUME UNCHANGED netVars PROVE Touches(c)
  BY <1>1 DEF Touches, Sends, netVars
<1>2. ASSUME NEW m \in {"PING", "CONN_REQ", "USER_SET", "CHAT", "DISS"}, ClientSend(c, m)
      PROVE  Touches(c)
  BY <1>2, SendTouches DEF Touches
<1>3. ASSUME NEW n \in Nat, ClientRead(c, n) PROVE Touches(c)
  BY <1>3, ReadTouches DEF Touches, Sends
<1>4. ASSUME ClientClose(c) PROVE Touches(c)
  BY <1>4 DEF ClientClose, Touches, Sends
<1>5. CASE Connect(c)
  BY <1>5 DEF Connect, Touches, Sends, Unconnected
<1>6. CASE User(c) /\ ~Connect(c)
  BY <1>1, <1>2, <1>6 DEF User, EnterName, Chat, OtherLine, ExitLine, ClientKilled
<1>7. CASE Handshake(c)
  BY <1>0, <1>2, <1>3, <1>4, <1>7 DEF Handshake, SendRequest, Await100, AwaitOK,
     SendPing, AwaitPong, HangUp
<1>8. CASE Leaving(c)
  BY <1>1, <1>4, <1>8 DEF Leaving, Prompt, Leave, Join
<1>9. CASE Receiving(c)
  BY <1>0, <1>1, <1>3, <1>9 DEF Receiving, ReceiveStarts, Receive, ReceiveEnd
<1> QED  BY <1>5, <1>6, <1>7, <1>8, <1>9 DEF ClientStep

LEMMA ClientsKeepTypes ==
  ASSUME TypeInv, DescriptorInv, NEW c \in Conns, Touches(c), ServerUnchanged
  PROVE  TypeInv' /\ DescriptorInv'
<1>1. UNCHANGED <<proc, serverVars, lockVars, sharedVars, fdTable, handlerVars, broadcasts>>
  BY DEF ServerUnchanged, Unchanged4Peers
<1>2. /\ peer' \in [Conns -> {"none", "backlog", "connected", "closed", "reset"}]
      /\ \A d \in Conns : peer'[d] \in {"none", "backlog"} => peer[d] \in {"none", "backlog"}
  <2>1. PICK p \in {"backlog", "closed", "reset"} :
          peer' \in {peer, [peer EXCEPT ![c] = p]} /\ (p = "backlog" => peer[c] = "none")
    BY DEF Touches
  <2>2. peer \in [Conns -> {"none", "backlog", "connected", "closed", "reset"}]
    BY DEF TypeInv, TypeOK
  <2> QED  BY <2>1, <2>2
<1>3. inbox' \in [Conns -> Seq(Commands)]
  <2>1. PICK m \in Commands : Sends(c, m)
    BY ChatsAssumption DEF Touches
  <2>2. inbox \in [Conns -> Seq(Commands)] /\ Append(inbox[c], m) \in Seq(Commands)
    BY DEF TypeInv, TypeOK
  <2> QED  BY <2>1, <2>2 DEF Sends
<1>4. rcvd' \in [Conns -> Nat]
  BY DEF Touches, TypeInv, TypeOK
<1>5. UNCHANGED <<shut, cmds, outbox>>
  BY DEF Touches
<1>6. TypeInv'
  BY <1>1, <1>2, <1>3, <1>4, <1>5 DEF TypeInv, HandlerHasFD, TypeOK, serverVars,
     lockVars, sharedVars, handlerVars
<1>7. DescriptorInv'
  BY <1>1, <1>2, DescriptorFrame
<1> QED  BY <1>6, <1>7

LEMMA ClientsKeepServer ==
  ASSUME TypeInv, DescriptorInv, SessionInv, NEW c \in Conns, Touches(c),
         ServerUnchanged
  PROVE  TypeInv' /\ DescriptorInv' /\ SessionInv'
<1>1. UNCHANGED <<serverVars, sharedVars, fdTable, handlerVars, outbox>>
  BY DEF Touches, ServerUnchanged, Unchanged4Peers
<1>2. SessionInv'
  BY <1>1 DEF SessionInv, Own, Serving, ChatAttribution, serverVars, sharedVars, handlerVars
<1> QED  BY <1>2, ClientsKeepTypes

-----------------------------------------------------------------------------
(* The two threads of a client.                                            *)

ReceiverPC == {"none", "start", "recv", "ended"}

LEMMA ClientMoves ==
  ASSUME ClientTypeOK, NEW c \in Conns, NEW s \in ClientPC, NEW r \in ReceiverPC,
         client' \in {client, [client EXCEPT ![c] = s]},
         receiver' \in {receiver, [receiver EXCEPT ![c] = r]},
         clientRunning' \in [Conns -> BOOLEAN], chats' \in 0..MaxChats,
         receiver'[c] \in {"start", "recv"} => client'[c] \in {"check", "line", "leave", "join"}
  PROVE  ClientTypeOK'
BY DEF ClientTypeOK, ReceiverPC

LEMMA ClientTypes ==
  ASSUME ClientTypeOK, NEW c \in Conns, ClientStep(c)
  PROVE  ClientTypeOK'
<1> DEFINE Talking == {"check", "line", "leave", "join"}
           Moves(s, r) ==
             /\ client' = [client EXCEPT ![c] = s]
             /\ receiver' \in {receiver, [receiver EXCEPT ![c] = r]}
             /\ receiver'[c] \in {"start", "recv"} => s \in Talking
             /\ clientRunning' \in [Conns -> BOOLEAN]
             /\ chats' \in 0..MaxChats
<1>1. ASSUME NEW s \in ClientPC, NEW r \in ReceiverPC, Moves(s, r) PROVE ClientTypeOK'
  <2>1. client'[c] = s
    BY <1>1 DEF ClientTypeOK
  <2> QED  BY <1>1, <2>1, ClientMoves
<1>2. /\ chats \in 0..MaxChats /\ clientRunning \in [Conns -> BOOLEAN]
      /\ receiver \in [Conns -> ReceiverPC] /\ client \in [Conns -> ClientPC]
      /\ receiver[c] \in {"start", "recv"} => client[c] \in Talking
  BY DEF ClientTypeOK, ReceiverPC
<1>3. ASSUME NEW s \in ClientPC, To(c, s), client[c] \in Talking => s \in Talking,
             ThreadUnchanged
      PROVE  ClientTypeOK'
  <2>1. Moves(s, "none")
    BY <1>2, <1>3 DEF To, ThreadUnchanged
  <2> QED  BY <1>1, <2>1 DEF ReceiverPC
<1>4. CASE Connect(c) \/ SendRequest(c) \/ EnterName(c) \/ SendPing(c) \/ AwaitPong(c)
           \/ HangUp(c) \/ OtherLine(c) \/ ExitLine(c)
  <2>1. \E s \in ClientPC : /\ To(c, s) /\ ThreadUnchanged
                            /\ client[c] \in Talking => s \in Talking
    BY <1>4 DEF Connect, SendRequest, EnterName, SendPing, AwaitPong, HangUp,
       OtherLine, ExitLine, ClientPC
  <2> QED  BY <1>3, <2>1
<1>5. CASE Await100(c)
  <2>1. To(c, "name") \/ To(c, "refused")
    BY <1>5 DEF Await100
  <2> QED  BY <1>3, <1>5, <2>1 DEF Await100, ClientPC
<1>6. CASE Prompt(c)
  <2>1. To(c, "line") \/ To(c, "leave")
    BY <1>6 DEF Prompt
  <2> QED  BY <1>3, <1>6, <2>1 DEF Prompt, ClientPC
<1>7. CASE AwaitOK(c)
  <2>1. \/ Admitted(c)
        \/ /\ To(c, "awaitOK2") \/ To(c, "failed")
           /\ UNCHANGED <<clientRunning, receiver>>
    BY <1>7 DEF AwaitOK, AdmittedIf
  <2>2. client[c] \in {"awaitOK", "awaitOK2"} /\ UNCHANGED chats
    BY <1>7 DEF AwaitOK
  <2>3. CASE Admitted(c)
    <3>1. Moves("check", "start")
      BY <1>2, <2>2, <2>3 DEF Admitted, To
    <3> QED  BY <1>1, <3>1 DEF ClientPC, ReceiverPC
  <2>4. CASE ~Admitted(c)
    BY <1>3, <2>1, <2>2, <2>4 DEF ThreadUnchanged, ClientPC
  <2> QED  BY <2>3, <2>4
<1>8. CASE Chat(c)
  <2>1. chats \in Nat /\ MaxChats \in Nat
    BY <1>2, ChatsAssumption
  <2>2. chats' \in 0..MaxChats
    BY <1>8, <2>1 DEF Chat
  <2>3. Moves("check", "none")
    BY <1>2, <1>8, <2>2 DEF Chat, To
  <2> QED  BY <1>1, <2>3 DEF ClientPC, ReceiverPC
<1>9. CASE ClientKilled(c)
  <2>1. Moves("killed", "ended")
    BY <1>2, <1>9 DEF ClientKilled, To
  <2> QED  BY <1>1, <2>1 DEF ClientPC, ReceiverPC
<1>10. CASE Leave(c)
  <2>1. Moves("join", "none")
    BY <1>2, <1>10 DEF Leave, To
  <2> QED  BY <1>1, <2>1 DEF ClientPC, ReceiverPC
<1>11. CASE Join(c)
  <2>1. Moves("done", "none")
    BY <1>2, <1>11 DEF Join, To, ThreadUnchanged
  <2> QED  BY <1>1, <2>1 DEF ClientPC, ReceiverPC
<1>12. CASE Receiving(c)
  <2>1. /\ UNCHANGED <<client, chats>> /\ clientRunning' \in [Conns -> BOOLEAN]
        /\ \E r \in {"recv", "ended"} : receiver' = [receiver EXCEPT ![c] = r]
        /\ receiver[c] \in {"start", "recv"}
    BY <1>2, <1>12 DEF Receiving, ReceiveStarts, Receive, ReceiveEnd
  <2>2. client[c] \in Talking /\ client[c] \in ClientPC
    BY <1>2, <2>1
  <2> QED  BY <1>2, <2>1, <2>2, ClientMoves DEF ReceiverPC
<1> QED  BY <1>4, <1>5, <1>6, <1>7, <1>8, <1>9, <1>10, <1>11, <1>12
         DEF ClientStep, User, Handshake, Leaving

LEMMA ClientTypeStep == ClientTypeOK /\ [ChatNext]_chatVars => ClientTypeOK'
<1> SUFFICES ASSUME ClientTypeOK, [ChatNext]_chatVars PROVE ClientTypeOK'
  OBVIOUS
<1>1. CASE UNCHANGED clientVars
  BY <1>1 DEF clientVars, ClientTypeOK
<1>2. CASE Clients
  BY <1>2, ClientTypes DEF Clients, ClientStep
<1> QED  BY <1>1, <1>2 DEF ChatNext, ChatSessionNext, chatVars

\* The receive thread of a client never outlives the call that created it,
\* however the user, the server and the handshake behave (client.cpp 130-154).
THEOREM ReceiverIsJoined == ChatSpec => []ClientTypeOK
<1>1. ChatInit => ClientTypeOK
  BY ChatsAssumption DEF ChatInit, ClientTypeOK, ClientPC
<1> QED  BY <1>1, ClientTypeStep, PTL DEF ChatSpec

-----------------------------------------------------------------------------
(* A connection that has ended stays so.                                   *)

LEMMA EndStaysEnded ==
  ASSUME NEW c \in Conns, ServerEnded(c),
         \A f \in FDs : childTable'[f] = c =>
           childTable[f] = c \/ (proc = "up" /\ \E g \in FDs : fdTable[g] = c),
         shut[c] => shut'[c], peer[c] = "reset" => peer'[c] = "reset",
         proc # "up" => proc' # "up",
         pc[c] # "none" => pc'[c] # "none",
         pc[c] # "none" => \A f \in FDs : fdTable'[f] = c => fdTable[f] = c,
         \A h \in Conns : pc'[h] = "read" /\ source'[h] = c =>
           (pc[h] = "read" /\ source[h] = c) \/ \E f \in FDs : fdTable[f] = c
  PROVE  ServerEnded(c)'
BY DEF ServerEnded, Open

LEMMA EndKeptByHandler ==
  ASSUME TypeInv, NEW c \in Conns, ServerEnded(c), UNCHANGED childTable,
         proc = "up", NEW h \in Conns, Handler(h)
  PROVE  ServerEnded(c)'
<1>1. UNCHANGED <<proc, shut>>
  BY DEF Handler, Register, Check, ReadCall, ReadEnd, Read, SetName, LookupName, BroadcastLock,
     BroadcastSend, BroadcastUnlock, Respond, Close, SendOk, SendFails, netVars
<1>2. peer[c] = "reset" => peer'[c] = "reset"
  BY DEF Handler, Register, Check, ReadCall, ReadEnd, Read, SetName, LookupName, BroadcastLock,
     BroadcastSend, BroadcastUnlock, Respond, Close, SendOk, SendFails, netVars,
     TypeInv, TypeOK
<1>3. pc[c] # "none" => pc'[c] # "none"
  BY DEF Handler, Register, Check, ReadCall, ReadEnd, Read, Dispatch, SetName, LookupName,
     BroadcastLock, BroadcastSend, BroadcastUnlock, Respond, Close, Goto, handlerVars,
     TypeInv, TypeOK
<1>4. clientSocket[h] \in FDs
  BY HandlerFrame DEF TypeInv, HandlerHasFD
<1>5. \A f \in FDs : fdTable'[f] = c => fdTable[f] = c
  BY ConnsAssumption DEF ConnsAssumption, Handler, Register, Check, ReadCall, ReadEnd, Read,
     SetName, LookupName, BroadcastLock, BroadcastSend, BroadcastUnlock, Respond,
     Close, TypeInv, TypeOK
<1>6. \A g \in Conns : pc'[g] = "read" /\ source'[g] = c =>
        (pc[g] = "read" /\ source[g] = c) \/ \E f \in FDs : fdTable[f] = c
  <2>1. CASE ReadCall(h)
    BY <1>4, <2>1 DEF ReadCall, Goto, TypeInv, TypeOK
  <2>2. CASE ~ReadCall(h)
    BY <2>2 DEF Handler, Register, Check, ReadEnd, Read, Dispatch, SetName, LookupName,
       BroadcastLock, BroadcastSend, BroadcastUnlock, Respond, Close, Goto,
       handlerVars, TypeInv, TypeOK
  <2> QED  BY <2>1, <2>2
<1> QED  BY <1>1, <1>2, <1>3, <1>5, <1>6, EndStaysEnded

LEMMA EndKeptByServer ==
  ASSUME TypeInv, DescriptorInv, NEW c \in Conns, ServerEnded(c), UNCHANGED childTable,
         proc = "up", ServerRuns
  PROVE  ServerEnded(c)'
<1>1. CASE Start
  BY <1>1, EndStaysEnded DEF Start, handlerVars, netVars
<1>2. CASE BrokenPipe \/ UsernamesRace
  BY <1>2, EndStaysEnded DEF BrokenPipe, UsernamesRace, Die, handlerVars, netVars
<1>3. CASE Acceptor
  <2>1. UNCHANGED <<proc, shut, source>>
    BY <1>3, AcceptorFrame DEF Acceptor, AcceptorRuns, RunSetup, RunCheck, RunSelectReady,
       RunSelectTimeout, RunSelectError, RunAccept, CloseListener, handlerVars, netVars
  <2>2. peer[c] = "reset" => peer'[c] = "reset"
    BY <1>3 DEF Acceptor, AcceptorRuns, RunSetup, RunCheck, RunSelectReady,
       RunSelectTimeout, RunSelectError, RunAccept, CloseListener, netVars, TypeInv, TypeOK
  <2>3. \A h \in Conns : pc'[h] = pc[h] \/ pc'[h] = "start"
    BY <1>3 DEF Acceptor, AcceptorRuns, RunSetup, RunCheck, RunSelectReady,
       RunSelectTimeout, RunSelectError, RunAccept, CloseListener, handlerVars,
       TypeInv, TypeOK
  <2>4. pc[c] # "none" => \A f \in FDs : fdTable'[f] = c => fdTable[f] = c
    <3>1. CASE RunAccept
      BY <3>1 DEF RunAccept, DescriptorInv, NotAccepted, TypeInv, TypeOK
    <3>2. CASE ~RunAccept
      BY <1>3, <3>2 DEF Acceptor, AcceptorRuns, RunSetup, RunCheck, RunSelectReady,
         RunSelectTimeout, RunSelectError, CloseListener
    <3> QED  BY <3>1, <3>2
  <2> QED  BY <2>1, <2>2, <2>3, <2>4, EndStaysEnded
<1> QED  BY <1>1, <1>2, <1>3, EndKeptByHandler DEF ServerRuns

LEMMA EndKeptByClient ==
  ASSUME TypeInv, NEW c \in Conns, ServerEnded(c), NEW d \in Conns, Unconnected(d),
         ClientStep(d), ServerUnchanged
  PROVE  ServerEnded(c)'
<1>1. UNCHANGED <<proc, pc, source, fdTable, childTable>>
  BY DEF ServerUnchanged, Unchanged4Peers, handlerVars
<1>2. UNCHANGED shut
  BY ClientTouches DEF Touches
<1>3. peer[c] = "reset" => peer'[c] = "reset"
  <2>1. UNCHANGED peer \/ \E p \in {"backlog", "reset"} :
          /\ peer' = [peer EXCEPT ![d] = p]
          /\ p = "backlog" => peer[d] = "none"
        \/ ClientClose(d)
    BY DEF ClientStep, User, Handshake, Leaving, Receiving, Connect, EnterName,
       Chat, OtherLine, ExitLine, ClientKilled, SendRequest, Await100, AwaitOK, SendPing,
       AwaitPong, HangUp, Prompt, Leave, Join, ReceiveStarts, Receive, ReceiveEnd,
       ClientSend, ClientRead, netVars, Unconnected
  <2> QED  BY <2>1 DEF ClientClose, TypeInv, TypeOK
<1> QED  BY <1>1, <1>2, <1>3, EndStaysEnded

-----------------------------------------------------------------------------
(* The clients keep the dialogue.                                          *)

LEMMA ClientFrame ==
  ASSUME TypeInv, ClientTypeOK, NEW c \in Conns, Touches(c), ClientStep(c),
         NEW d \in Conns, d # c
  PROVE  client'[d] = client[d] /\ inbox'[d] = inbox[d] /\ peer'[d] = peer[d]
<1>1. inbox'[d] = inbox[d]
  BY DEF Touches, Sends, TypeInv, TypeOK
<1>2. peer'[d] = peer[d]
  <2>1. PICK p \in {"backlog", "closed", "reset"} : peer' \in {peer, [peer EXCEPT ![c] = p]}
    BY DEF Touches
  <2> QED  BY <2>1 DEF TypeInv, TypeOK
<1>3. client'[d] = client[d]
  <2>1. client' = client \/ \E s : client' = [client EXCEPT ![c] = s]
    BY DEF ClientStep, User, Handshake, Leaving, Receiving, To, Connect, EnterName,
       Chat, OtherLine, ExitLine, ClientKilled, SendRequest, Await100, AwaitOK, AdmittedIf,
       Admitted, SendPing, AwaitPong, HangUp, Prompt, Leave, Join, ReceiveStarts, Receive,
       ReceiveEnd
  <2> QED  BY <2>1 DEF ClientTypeOK
<1> QED  BY <1>1, <1>2, <1>3

\* What a read of exactly one message, or of several, brought was sent.
LEMMA ChunkKinds ==
  ASSUME TypeInv, NEW c \in Conns, NEW n \in Nat, NEW kind,
         n = 0 \/ rcvd[c] + n <= Len(outbox[c]), Contains(Chunk(c, n), kind)
  PROVE  kind \in Kinds(c)
<1>1. outbox[c] \in Seq(Message) /\ rcvd[c] \in Nat
  BY DEF TypeInv, TypeOK
<1>2. PICK i \in 1..Len(Chunk(c, n)) : Chunk(c, n)[i].kind = kind
  BY DEF Contains
<1>3. n > 0 /\ i \in 1..n
  <2>1. Len(outbox[c]) \in Nat /\ rcvd[c] + 1 \in Nat /\ rcvd[c] + n \in Nat
    BY <1>1
  <2>2. rcvd[c] + n <= Len(outbox[c]) => Len(Chunk(c, n)) = n
    BY <1>1, <2>1 DEF Chunk
  <2>3. n = 0 => Len(Chunk(c, n)) = 0
    BY <1>1, <2>1 DEF Chunk
  <2> QED  BY <1>2, <2>2, <2>3
<1>4. rcvd[c] + i \in 1..Len(outbox[c])
  BY <1>1, <1>3
<1>5. Chunk(c, n)[i] = outbox[c][rcvd[c] + i]
  <2>1. Len(outbox[c]) \in Nat /\ rcvd[c] + n <= Len(outbox[c])
    BY <1>1, <1>3
  <2>2. \A q \in Seq(Message) : \A k \in Nat : k + n <= Len(q) =>
          SubSeq(q, k + 1, k + n)[i] = q[k + i]
    BY <1>3
  <2> QED  BY <1>1, <2>1, <2>2 DEF Chunk
<1> QED  BY <1>2, <1>4, <1>5 DEF Kinds

Speaks(c) ==
  (Answered(c) => Answered(c)') /\ Unread(c)' /\ NameSent(c)' /\ Unconnected(c)'

\* A client that changes state and sends nothing; one that sends m.
LEMMA Silent ==
  ASSUME ClientTypeOK, NEW c \in Conns, UNCHANGED <<inbox, authenticated>>,
         ServerEnded(c) => ServerEnded(c)',
         Unread(c), NameSent(c), client'[c] \notin {"off", "request"},
         NEW s \in ClientPC, client' = [client EXCEPT ![c] = s],
         s \in {"ping", "name"} => inbox[c] = <<>>,
         s = "refused" => client[c] = "await100",
         s = "pinged" => client[c] = "pong",
         s \in {"awaitOK2", "failed"} => client[c] \in {"awaitOK", "awaitOK2"},
         s \in {"check", "line"} => client[c] \in {"awaitOK", "awaitOK2", "check", "line"},
         s \notin {"await100", "awaitOK", "pong"},
         s \in {"refused", "name", "ping", "pinged"} => ~authenticated[c]
  PROVE  Speaks(c)
<1>1. client'[c] = s
  BY DEF ClientTypeOK
<1>2. NameSent(c)'
  BY <1>1 DEF NameSent
<1>3. s \in {"check", "line"} =>
        Stays(inbox[c]) /\ (authenticated[c] \/ inbox[c] = <<>> \/ Named(inbox[c]))
  BY TalkAlone DEF Unread
<1>4. Unread(c)'
  BY <1>1, <1>3 DEF Unread
<1> QED  BY <1>1, <1>2, <1>4 DEF Speaks, Unconnected, Answered

LEMMA Spoken ==
  ASSUME TypeInv, ClientTypeOK, NEW c \in Conns, UNCHANGED authenticated,
         ServerEnded(c) => ServerEnded(c)', Unread(c), NameSent(c),
         NEW s \in ClientPC, client' = [client EXCEPT ![c] = s],
         NEW m \in Commands, ClientSend(c, m),
         \/ client[c] = "request" /\ s = "await100" /\ m = "CONN_REQ"
         \/ client[c] = "name" /\ s = "awaitOK" /\ m = "USER_SET"
         \/ client[c] = "ping" /\ s = "pong" /\ m = "PING"
         \/ client[c] = "line" /\ s = "check" /\ m = "CHAT"
         \/ client[c] = "line" /\ s = "leave" /\ m = "DISS"
  PROVE  Speaks(c)
<1>0. inbox[c] \in Seq(Commands) /\ client'[c] = s /\ authenticated'[c] = authenticated[c]
  BY DEF TypeInv, TypeOK, ClientTypeOK
<1>1. Unconnected(c)'
  BY <1>0 DEF Unconnected
<1>2. CASE ServerEnded(c)
  <2>1. inbox'[c] = inbox[c] /\ ServerEnded(c)'
    BY <1>2 DEF ClientSend
  <2>2. Unread(c)'
    BY <1>0, <2>1 DEF Unread
  <2> QED  BY <1>0, <1>1, <2>1, <2>2 DEF Speaks, NameSent, Answered
<1>3. CASE ~ServerEnded(c) /\ client[c] = "line"
  <2>1. inbox'[c] = Append(inbox[c], m)
    BY <1>3 DEF ClientSend, TypeInv, TypeOK
  <2>2. Stays(inbox[c]) /\ (IF authenticated[c] THEN Talk(inbox[c]) ELSE Named(inbox[c]))
    BY <1>3 DEF Unread, NameSent
  <2>3. /\ IF authenticated[c] THEN Talk(inbox'[c]) ELSE Named(inbox'[c])
        /\ s = "check" => Stays(inbox'[c])
    BY <1>0, <1>3, <2>1, <2>2, TalkAppend
  <2>4. inbox'[c] # <<>>
    BY <1>0, <2>1
  <2>5. inbox'[c] # <<"CONN_REQ">>
    BY <2>3, TalkAlone
  <2>6. Unread(c)'
    BY <1>0, <1>3, <2>2, <2>3 DEF Unread
  <2> QED  BY <1>0, <1>1, <1>3, <2>4, <2>5, <2>6 DEF Speaks, NameSent, Answered
<1>4. CASE ~ServerEnded(c) /\ client[c] # "line"
  <2>1. inbox[c] = <<>> /\ ~authenticated[c]
    BY <1>4 DEF Unread
  <2>2. inbox'[c] = <<m>>
    BY <1>4, <2>1 DEF ClientSend, TypeInv, TypeOK
  <2>3. <<m>> # <<>>
    OBVIOUS
  <2>4. NameSent(c)'
    BY <2>2, <2>3 DEF NameSent
  <2>5. Answered(c) => Answered(c)'
    <3>1. CASE client[c] = "request"
      BY <3>1 DEF Answered
    <3>2. CASE client[c] # "request"
      <4>1. s \notin {"off", "request"} /\ m # "CONN_REQ"
        BY <1>4, <3>2
      <4>2. <<m>> # <<"CONN_REQ">>
        BY <4>1
      <4> QED  BY <1>0, <2>2, <4>1, <4>2 DEF Answered
    <3> QED  BY <3>1, <3>2
  <2>6. CASE s = "await100"
    <3>1. inbox'[c] = <<"CONN_REQ">>
      BY <1>4, <2>2, <2>6
    <3>2. Unread(c)'
      BY <1>0, <2>1, <2>6, <3>1 DEF Unread
    <3> QED  BY <1>1, <2>4, <2>5, <3>2 DEF Speaks
  <2>7. CASE s = "pong"
    <3>1. inbox'[c] = <<"PING">>
      BY <1>4, <2>2, <2>7
    <3>2. Unread(c)'
      BY <1>0, <2>1, <2>7, <3>1 DEF Unread
    <3> QED  BY <1>1, <2>4, <2>5, <3>2 DEF Speaks
  <2>8. CASE s = "awaitOK"
    <3>1. inbox'[c] = <<"USER_SET">>
      BY <1>4, <2>2, <2>8
    <3>2. Unread(c)'
      BY <1>0, <2>1, <2>8, <3>1, TalkAlone DEF Unread
    <3> QED  BY <1>1, <2>4, <2>5, <3>2 DEF Speaks
  <2> QED  BY <1>4, <2>6, <2>7, <2>8
<1> QED  BY <1>2, <1>3, <1>4

LEMMA ClientSpeaks ==
  ASSUME TypeInv, ClientTypeOK, NEW c \in Conns, UNCHANGED authenticated,
         ServerEnded(c) => ServerEnded(c)',
         Mail(c), Unread(c), NameSent(c), Unconnected(c), ClientStep(c)
  PROVE  Speaks(c)
<1> USE DEF To
<1>0. client \in [Conns -> ClientPC] /\ Len(outbox[c]) \in Nat
  BY OutboxLength DEF ClientTypeOK
<1>1. ASSUME UNCHANGED <<client, inbox, peer>> PROVE Speaks(c)
  BY <1>1 DEF Speaks, Unread, NameSent, Unconnected, Answered
<1>2. ASSUME NEW s \in ClientPC, To(c, s), UNCHANGED inbox,
             s \notin {"off", "request", "ping", "await100", "awaitOK", "pong", "name"},
             s = "refused" => client[c] = "await100",
             s = "pinged" => client[c] = "pong",
             s \in {"awaitOK2", "failed"} => client[c] \in {"awaitOK", "awaitOK2"},
             s \in {"check", "line"} =>
               client[c] \in {"awaitOK", "awaitOK2", "check", "line"}
      PROVE  Speaks(c)
  <2>1. client'[c] = s
    BY <1>0, <1>2
  <2> QED  BY <1>2, <2>1, Silent DEF Unread
<1>3. CASE Connect(c)
  <2>1. client[c] = "off" /\ client'[c] \in {"request", "ping"} /\ UNCHANGED inbox
    BY <1>0, <1>3 DEF Connect
  <2> QED  BY <2>1 DEF Speaks, Unread, NameSent, Unconnected, Answered
<1>4. CASE SendRequest(c) \/ EnterName(c) \/ SendPing(c) \/ Chat(c) \/ ExitLine(c)
  <2>1. \E s \in ClientPC, m \in {"PING", "CONN_REQ", "USER_SET", "CHAT", "DISS"} :
          /\ To(c, s) /\ ClientSend(c, m)
          /\ \/ client[c] = "request" /\ s = "await100" /\ m = "CONN_REQ"
             \/ client[c] = "name" /\ s = "awaitOK" /\ m = "USER_SET"
             \/ client[c] = "ping" /\ s = "pong" /\ m = "PING"
             \/ client[c] = "line" /\ s = "check" /\ m = "CHAT"
             \/ client[c] = "line" /\ s = "leave" /\ m = "DISS"
    BY <1>4 DEF SendRequest, EnterName, SendPing, Chat, ExitLine, ClientPC
  <2> QED  BY <2>1, Spoken, ChatsAssumption
<1>5. CASE Await100(c)
  <2>1. PICK n \in 0..Len(outbox[c]) :
          /\ ClientRead(c, n)
          /\ To(c, IF n = 1 /\ Contains(Chunk(c, n), "100") THEN "name" ELSE "refused")
    BY <1>5 DEF Await100
  <2>2. n \in Nat /\ UNCHANGED inbox /\ client[c] = "await100"
    BY <1>0, <1>5, <2>1 DEF ClientRead, Await100
  <2>3. CASE To(c, "refused")
    BY <1>2, <2>2, <2>3 DEF ClientPC
  <2>4. CASE n = 1 /\ Contains(Chunk(c, n), "100") /\ To(c, "name")
    <3>1. "100" \in Kinds(c)
      BY <2>1, <2>2, <2>4, ChunkKinds DEF ClientRead
    <3>2. inbox[c] = <<>> /\ ~authenticated[c]
      BY <2>2, <3>1 DEF Mail, Answered, Unread
    <3> QED  BY <1>0, <2>2, <2>4, <3>2, Silent DEF ClientPC
  <2> QED  BY <2>1, <2>3, <2>4
<1>6. CASE AwaitOK(c)
  <2>1. /\ To(c, "check") \/ To(c, "awaitOK2") \/ To(c, "failed")
        /\ UNCHANGED inbox /\ client[c] \in {"awaitOK", "awaitOK2"}
    BY <1>6 DEF AwaitOK, AdmittedIf, Admitted, ClientRead
  <2> QED  BY <1>2, <2>1 DEF ClientPC
<1>7. CASE AwaitPong(c)
  BY <1>2, <1>7 DEF AwaitPong, ClientRead, ClientPC
<1>8. CASE HangUp(c) \/ Join(c) \/ Leave(c) \/ ClientKilled(c)
  <2>1. (To(c, "done") \/ To(c, "join") \/ To(c, "killed")) /\ UNCHANGED inbox
    BY <1>8 DEF HangUp, Join, Leave, ClientKilled, ClientClose, netVars
  <2> QED  BY <1>2, <2>1 DEF ClientPC
<1>9. CASE Prompt(c)
  <2>1. client[c] = "check" /\ (To(c, "line") \/ To(c, "leave")) /\ UNCHANGED inbox
    BY <1>9 DEF Prompt, netVars
  <2> QED  BY <1>2, <2>1 DEF ClientPC
<1>10. CASE OtherLine(c)
  <2>1. client[c] = "line" /\ To(c, "check") /\ UNCHANGED inbox
    BY <1>10 DEF OtherLine, netVars
  <2> QED  BY <1>2, <2>1 DEF ClientPC
<1>11. CASE Receiving(c)
  <2>1. UNCHANGED <<client, inbox, peer>>
    BY <1>11 DEF Receiving, ReceiveStarts, Receive, ReceiveEnd, ClientRead, netVars
  <2> QED  BY <1>1, <2>1
<1> QED  BY <1>3, <1>4, <1>5, <1>6, <1>7, <1>8, <1>9, <1>10, <1>11
         DEF ClientStep, User, Handshake, Leaving

LEMMA ClientsKeepDialogue ==
  ASSUME TypeInv, ClientTypeOK, DialogueInv, NEW c \in Conns, Touches(c),
         ClientStep(c), ServerUnchanged
  PROVE  DialogueInv'
<1>1. UNCHANGED <<handlerVars, outbox>>
  BY DEF Touches, ServerUnchanged, Unchanged4Peers
<1>2. Answers(c) /\ Mail(c) /\ Unread(c) /\ NameSent(c) /\ Unconnected(c)
  BY DEF DialogueInv
<1>3. \A d \in Conns : ServerEnded(d) => ServerEnded(d)'
  BY <1>2, EndKeptByClient
<1>4. Speaks(c)
  BY <1>1, <1>2, <1>3, ClientSpeaks DEF handlerVars
<1>5. Answers(c)' /\ Mail(c)' /\ Unread(c)' /\ NameSent(c)' /\ Unconnected(c)'
  BY <1>1, <1>2, <1>4 DEF Speaks, Answers, Mail, Kinds, handlerVars
<1>6. ASSUME NEW d \in Conns, d # c
      PROVE  Answers(d)' /\ Mail(d)' /\ Unread(d)' /\ NameSent(d)' /\ Unconnected(d)'
  <2>1. client'[d] = client[d] /\ inbox'[d] = inbox[d] /\ peer'[d] = peer[d]
    BY <1>6, ClientFrame
  <2>2. Answers(d) /\ Mail(d) /\ Unread(d) /\ NameSent(d) /\ Unconnected(d)
    BY DEF DialogueInv
  <2>3. Answered(d)' = Answered(d) /\ Kinds(d)' = Kinds(d)
    BY <1>1, <2>1 DEF Answered, Kinds
  <2>4. Answers(d)' /\ Mail(d)'
    BY <1>1, <2>2, <2>3 DEF Answers, Mail, handlerVars
  <2>5. Unread(d)' /\ NameSent(d)' /\ Unconnected(d)'
    BY <1>1, <1>3, <2>1, <2>2 DEF Unread, NameSent, Unconnected, handlerVars
  <2> QED  BY <2>4, <2>5
<1> QED  BY <1>5, <1>6 DEF DialogueInv

-----------------------------------------------------------------------------
(* The server keeps the dialogue.                                          *)

\* A message that is sent is the only new one, and on one connection only.
LEMMA SendKinds ==
  ASSUME TypeInv, NEW f \in FDs, NEW m \in Message, SendOk(f, m) \/ SendFails(f),
         NEW c \in Conns
  PROVE  \/ Kinds(c)' = Kinds(c)
         \/ c = fdTable[f] /\ Kinds(c)' = Kinds(c) \cup {m.kind}
<1>1. CASE outbox'[c] = outbox[c]
  BY <1>1 DEF Kinds
<1>2. CASE outbox'[c] # outbox[c]
  <2>1. c = fdTable[f] /\ outbox'[c] = Append(outbox[c], m)
    BY <1>2 DEF SendOk, SendFails, TypeInv, TypeOK, netVars
  <2>2. outbox[c] \in Seq(Message)
    BY DEF TypeInv, TypeOK
  <2>3. /\ Len(outbox[c]) \in Nat
        /\ Len(outbox'[c]) = Len(outbox[c]) + 1
        /\ outbox'[c][Len(outbox[c]) + 1] = m
        /\ \A i \in 1..Len(outbox[c]) : outbox'[c][i] = outbox[c][i]
    BY <2>1, <2>2
  <2>4. 1..Len(outbox'[c]) = 1..Len(outbox[c]) \cup {Len(outbox[c]) + 1}
    BY <2>3
  <2>5. ASSUME NEW k PROVE k \in Kinds(c)' <=> k \in Kinds(c) \/ k = m.kind
    BY <2>3, <2>4 DEF Kinds
  <2>6. Kinds(c)' = Kinds(c) \cup {m.kind}
    BY <2>5
  <2> QED  BY <2>1, <2>6
<1> QED  BY <1>1, <1>2

\* Only CloseListener, RunAccept and send() touch a far end, and none of them
\* one that has not connected.
LEMMA StaysUnconnected ==
  ASSUME TypeInv, ServerRuns, NEW c \in Conns, peer[c] = "none"
  PROVE  peer'[c] = "none"
<1>1. ASSUME NEW f \in FDs, NEW m, SendOk(f, m) \/ SendFails(f) PROVE peer'[c] = "none"
  BY <1>1 DEF SendOk, SendFails, TypeInv, TypeOK, netVars
<1>2. CASE Start
  BY <1>2 DEF Start, netVars
<1>3. CASE Acceptor
  BY <1>3 DEF Acceptor, AcceptorRuns, RunSetup, RunCheck, RunSelectReady,
     RunSelectTimeout, RunSelectError, RunAccept, CloseListener, TypeInv, TypeOK, netVars
<1>4. CASE BrokenPipe \/ UsernamesRace
  BY <1>4, DeathFrame DEF netVars
<1>5. ASSUME NEW h \in Conns, Handler(h) PROVE peer'[c] = "none"
  <2>1. CASE BroadcastSend(h)
    <3>1. clientSockets[pos] \in FDs
      BY <2>1 DEF BroadcastSend, TypeInv, TypeOK
    <3> QED  BY <1>1, <2>1, <3>1 DEF BroadcastSend
  <2>2. CASE Respond(h)
    <3>1. clientSocket[h] \in FDs
      BY <2>2 DEF Respond, TypeInv, HandlerHasFD
    <3> QED  BY <1>1, <2>2, <3>1 DEF Respond
  <2>3. CASE ~(BroadcastSend(h) \/ Respond(h))
    BY <1>5, <2>3 DEF Handler, Register, Check, ReadCall, ReadEnd, Read, SetName, LookupName,
       BroadcastLock, BroadcastUnlock, Close, netVars
  <2> QED  BY <2>1, <2>2, <2>3
<1> QED  BY <1>2, <1>3, <1>4, <1>5 DEF ServerRuns

\* What a handler reads is what its own client has sent.
Commanded(h, command) ==
  \/ /\ ~authenticated[h] /\ command \in {"CONN_REQ", "PING"}
     /\ inbox[h] = <<command>> /\ inbox'[h] = <<>>
  \/ /\ ~authenticated[h] /\ command = "USER_SET" /\ Named(inbox[h])
     /\ inbox[h] = <<command>> => inbox'[h] = <<>>
     /\ Talk(inbox'[h]) /\ (Stays(inbox[h]) => Stays(inbox'[h]))
  \/ /\ authenticated[h] /\ command \in {"CHAT", "DISS"}
     /\ Talk(inbox'[h]) /\ (Stays(inbox[h]) => Stays(inbox'[h]))

LEMMA ReadCommand ==
  ASSUME TypeInv, NEW h \in Conns, Read(h), source[h] = h, Unread(h)
  PROVE  \E command :
           /\ Dispatch(h, command)
           /\ Commanded(h, command)
           /\ \A g \in Conns : g # h => inbox'[g] = inbox[g]
<1>1. inbox[h] \in Seq(Commands)
  BY DEF TypeInv, TypeOK
<1>2. PICK n \in 1..MaxChunk :
        /\ n <= Len(inbox[h])
        /\ Dispatch(h, Classify(SubSeq(inbox[h], 1, n)))
        /\ inbox' = [inbox EXCEPT ![h] = SubSeq(@, n + 1, Len(@))]
  BY <1>1 DEF Read
<1>3. /\ inbox'[h] = SubSeq(inbox[h], n + 1, Len(inbox[h]))
      /\ \A g \in Conns : g # h => inbox'[g] = inbox[g]
  BY <1>2 DEF TypeInv, TypeOK
<1>4. n \in Nat /\ 1 <= n
  BY Bounds
<1>5. CASE authenticated[h] \/ Named(inbox[h])
  <2>1. IF authenticated[h] THEN Talk(inbox[h]) ELSE Named(inbox[h])
    BY <1>5 DEF Unread
  <2>2. /\ Talk(inbox[h])  => Classify(SubSeq(inbox[h], 1, n)) \in {"CHAT", "DISS"}
        /\ Named(inbox[h]) => Classify(SubSeq(inbox[h], 1, n)) = "USER_SET"
        /\ Talk(inbox'[h]) /\ (Stays(inbox[h]) => Stays(inbox'[h]))
        /\ inbox[h] = <<"USER_SET">> => inbox'[h] = <<>>
    <3> DEFINE rest == SubSeq(inbox[h], n + 1, Len(inbox[h]))
    <3>1. Talk(inbox[h]) \/ Named(inbox[h])
      BY <2>1
    <3>2. /\ Talk(inbox[h])  => Classify(SubSeq(inbox[h], 1, n)) \in {"CHAT", "DISS"}
          /\ Named(inbox[h]) => Classify(SubSeq(inbox[h], 1, n)) = "USER_SET"
          /\ Talk(rest) /\ (Stays(inbox[h]) => Stays(rest))
          /\ inbox[h] = <<"USER_SET">> => rest = <<>>
      BY <1>1, <1>2, <1>4, <3>1, TalkRead
    <3> HIDE DEF rest
    <3>3. inbox'[h] = rest
      BY <1>3 DEF rest
    <3> QED  BY <3>2, <3>3
  <2>3. Commanded(h, Classify(SubSeq(inbox[h], 1, n)))
    BY <2>1, <2>2 DEF Commanded
  <2> QED  BY <1>2, <1>3, <2>3
<1>6. CASE ~authenticated[h] /\ ~Named(inbox[h])
  <2>1. inbox[h] \in {<<>>, <<"CONN_REQ">>, <<"PING">>}
    BY <1>6 DEF Unread
  <2>2. PICK command \in {"CONN_REQ", "PING"} : inbox[h] = <<command>>
    BY <1>2, <1>4, <2>1
  <2>3. n = 1
    BY <1>2, <1>4, <2>2
  <2>4. inbox[h] \in Seq(Commands) /\ Len(inbox[h]) = 1 /\ inbox[h][1] = command
    BY <1>1, <2>2
  <2>5. Classify(SubSeq(inbox[h], 1, n)) = command
    <3>1. /\ SubSeq(inbox[h], 1, 1) \in Seq(Commands)
          /\ Len(SubSeq(inbox[h], 1, 1)) = 1 /\ SubSeq(inbox[h], 1, 1)[1] = command
      BY <2>4
    <3> QED  BY <2>3, <3>1 DEF Classify
  <2>6. inbox'[h] = <<>>
    BY <1>3, <2>3, <2>4
  <2>7. Commanded(h, command)
    BY <1>6, <2>2, <2>6 DEF Commanded
  <2> QED  BY <1>2, <1>3, <2>5, <2>7
<1> QED  BY <1>5, <1>6

\* What is not read stays unread.
LEMMA InboxKept ==
  ASSUME NEW h \in Conns, Handler(h), ~Read(h)
  PROVE  UNCHANGED inbox
BY DEF Handler, Register, Check, ReadCall, ReadEnd, SetName, LookupName, BroadcastLock,
       BroadcastSend, BroadcastUnlock, Respond, Close, SendOk, SendFails, netVars

\* The handlers of other connections wait meanwhile.
LEMMA OthersWait ==
  ASSUME TypeInv, NEW h \in Conns, Handler(h), Read(h) => source[h] = h,
         NEW g \in Conns, g # h
  PROVE  /\ pc'[g] = pc[g] /\ authenticated'[g] = authenticated[g]
         /\ username'[g] = username[g] /\ response'[g] = response[g]
         /\ inbox'[g] = inbox[g]
<1>1. /\ pc'[g] = pc[g] /\ authenticated'[g] = authenticated[g]
      /\ username'[g] = username[g] /\ response'[g] = response[g]
  BY DEF TypeInv, TypeOK, Handler, Register, Check, ReadCall, ReadEnd, Read, Dispatch,
         SetName, LookupName, BroadcastLock, BroadcastSend, BroadcastUnlock,
         Respond, Close, Goto, handlerVars
<1>2. CASE Read(h)
  BY <1>1, <1>2 DEF Read, TypeInv, TypeOK
<1>3. CASE ~Read(h)
  <2>1. UNCHANGED inbox
    BY <1>3, InboxKept
  <2> QED  BY <1>1, <2>1
<1> QED  BY <1>2, <1>3

\* The answer of a handler that reads, and what is left to read.
LEMMA ReadAnswers ==
  ASSUME TypeInv, ClientTypeOK, UNCHANGED client,
         NEW h \in Conns, Read(h), source[h] = h, Answers(h), Unread(h), NameSent(h)
  PROVE  /\ Answers(h)' /\ Unread(h)' /\ NameSent(h)' /\ (Answered(h) => Answered(h)')
         /\ authenticated[h] => authenticated'[h]
<1>1. PICK command : Dispatch(h, command) /\ Commanded(h, command)
  BY ReadCommand
<1>2. Answers(h) /\ Unread(h) /\ source[h] = h /\ pc[h] = "read"
  BY DEF Read
<1>3. /\ pc \in [Conns -> HandlerPC] /\ response \in [Conns -> Message]
      /\ authenticated \in [Conns -> BOOLEAN]
      /\ username \in [Conns -> Conns \cup {NoConn}]
  BY DEF TypeInv, TypeOK
<1>4. CASE authenticated[h]
  <2>1. /\ command \in {"CHAT", "DISS"} /\ Talk(inbox'[h])
        /\ Stays(inbox[h]) => Stays(inbox'[h])
    BY <1>1, <1>4 DEF Commanded
  <2>2. /\ pc'[h] \in {"lookup", "close"}
        /\ authenticated'[h] = authenticated[h] /\ username'[h] = username[h]
    BY <1>1, <1>3, <1>4, <2>1 DEF Dispatch, Goto
  <2>3. Answers(h)'
    BY <1>2, <2>2 DEF Answers
  <2>4. inbox'[h] # <<"CONN_REQ">> /\ inbox'[h] # <<"PING">> /\ inbox'[h] # <<"USER_SET">>
    BY <2>1, TalkAlone
  <2>5. inbox[h] # <<>>
    BY <1>2, <1>3 DEF Read
  <2>6. inbox[h] # <<"USER_SET">>
    BY <1>4, TalkAlone DEF Unread
  <2>7. Unread(h)'
    BY <1>2, <1>4, <2>1, <2>2, <2>5, <2>6 DEF Unread
  <2> QED  BY <1>4, <2>2, <2>3, <2>4, <2>7 DEF Answered, NameSent
<1>5. CASE ~authenticated[h] /\ command = "USER_SET"
  <2>1. /\ Named(inbox[h]) /\ Talk(inbox'[h])
        /\ inbox[h] = <<"USER_SET">> => inbox'[h] = <<>>
        /\ Stays(inbox[h]) => Stays(inbox'[h])
    BY <1>1, <1>5 DEF Commanded
  <2>2. pc'[h] = "naming" /\ authenticated'[h] /\ username'[h] = h
    BY <1>1, <1>2, <1>3, <1>5 DEF Dispatch, Goto
  <2>3. Answers(h)'
    BY <2>2 DEF Answers
  <2>4. client[h] \notin {"off", "request", "ping", "name", "await100", "refused",
                          "pong", "pinged"}
    BY <1>2, <2>1, TalkAlone DEF Unread
  <2>5. client[h] \in {"awaitOK", "awaitOK2", "failed"} => inbox'[h] = <<>>
    BY <1>2, <2>1, TalkAlone DEF Unread
  <2>6. Unread(h)'
    BY <1>2, <2>1, <2>2, <2>4, <2>5 DEF Unread
  <2>7. inbox'[h] # <<"CONN_REQ">>
    BY <2>1, TalkAlone
  <2> QED  BY <1>5, <2>2, <2>3, <2>4, <2>6, <2>7 DEF Answered, NameSent
<1>6. CASE ~authenticated[h] /\ command # "USER_SET"
  <2>1. /\ inbox[h] = <<command>> /\ inbox'[h] = <<>>
        /\ command \in {"CONN_REQ", "PING"}
    BY <1>1, <1>6 DEF Commanded
  <2>2. /\ inbox[h] # <<>> /\ inbox[h] # <<"USER_SET">> /\ ~Named(inbox[h])
    BY <2>1, TalkAlone
  <2>3. client[h] \notin {"off", "request", "ping", "name", "awaitOK", "awaitOK2",
                          "failed", "check", "line"}
    BY <1>2, <1>6, <2>2 DEF Unread
  <2>4. <<>> # <<"CONN_REQ">>
    OBVIOUS
  <2>5. Answered(h)'
    BY <2>1, <2>3, <2>4 DEF Answered
  <2>6. /\ pc'[h] = "respond" /\ response'[h].kind \in {"200", "100"}
        /\ authenticated'[h] = authenticated[h]
    BY <1>1, <1>3, <2>1 DEF Dispatch, Goto, Reply
  <2>7. Answers(h)'
    BY <1>6, <2>5, <2>6 DEF Answers
  <2>8. Unread(h)'
    BY <1>6, <2>1, <2>3, <2>6 DEF Unread
  <2> QED  BY <1>6, <2>3, <2>5, <2>7, <2>8 DEF NameSent
<1> QED  BY <1>4, <1>5, <1>6

\* The answer of a handler that does not.
LEMMA TurnAnswers ==
  ASSUME TypeInv, UNCHANGED client, NEW h \in Conns, Handler(h), ~Read(h), Answers(h)
  PROVE  Answers(h)' /\ authenticated'[h] = authenticated[h]
<1>1. Answers(h)
  OBVIOUS
<1>2. /\ pc \in [Conns -> HandlerPC] /\ response \in [Conns -> Message]
      /\ authenticated \in [Conns -> BOOLEAN]
  BY DEF TypeInv, TypeOK
<1>3. UNCHANGED <<username, authenticated>>
  BY DEF Handler, Register, Check, ReadCall, ReadEnd, SetName, LookupName, BroadcastLock,
         BroadcastSend, BroadcastUnlock, Respond, Close, handlerVars
<1>4. Answered(h)' = Answered(h)
  BY InboxKept DEF Answered
<1>5. ASSUME pc'[h] \in {"check", "call", "read", "close", "done"} PROVE Answers(h)'
  BY <1>1, <1>3, <1>5 DEF Answers
<1>6. CASE Register(h) \/ Check(h) \/ ReadCall(h) \/ ReadEnd(h) \/ Respond(h)
  BY <1>2, <1>5, <1>6 DEF Register, Check, ReadCall, ReadEnd, Respond, Goto
<1>7. CASE SetName(h) \/ LookupName(h)
  <2>1. /\ pc'[h] = "lock" /\ response'[h].kind \in {"joined", "chat"}
        /\ response'[h].kind = "joined" => authenticated[h]
    BY <1>1, <1>2, <1>7 DEF SetName, LookupName, Goto, Announcement, Answers
  <2> QED  BY <1>1, <1>3, <2>1 DEF Answers, Broadcasts
<1>8. CASE BroadcastLock(h)
  <2>1. response[h] \in Message
    BY <1>2
  <2>2. [response[h] EXCEPT !.id = broadcasts + 1].kind = response[h].kind
    BY <2>1 DEF Message
  <2>3. pc[h] = "lock" /\ pc'[h] = "sending" /\ response'[h].kind = response[h].kind
    BY <1>2, <1>8, <2>2 DEF BroadcastLock, Goto
  <2> QED  BY <1>1, <1>3, <2>3 DEF Answers
<1>9. CASE BroadcastSend(h)
  <2>1. UNCHANGED <<pc, response>>
    BY <1>9 DEF BroadcastSend, handlerVars
  <2> QED  BY <1>1, <1>3, <1>4, <2>1 DEF Answers
<1>10. CASE BroadcastUnlock(h)
  <2>1. \/ pc'[h] \in {"check", "done"}
        \/ pc'[h] = "respond" /\ response'[h].kind = "USER_OK" /\ authenticated[h]
    BY <1>1, <1>2, <1>10 DEF BroadcastUnlock, Goto, Reply, Answers
  <2> QED  BY <1>1, <1>3, <1>5, <2>1 DEF Answers
<1>11. CASE Close(h)
  <2>1. \/ pc'[h] = "done"
        \/ pc'[h] = "lock" /\ response'[h].kind = "left"
    BY <1>2, <1>11 DEF Close, Goto, Announcement
  <2> QED  BY <1>1, <1>3, <1>5, <2>1 DEF Answers, Broadcasts
<1> QED  BY <1>3, <1>6, <1>7, <1>8, <1>9, <1>10, <1>11 DEF Handler

LEMMA HandlerKeepsDialogue ==
  ASSUME TypeInv, SessionInv, ClientTypeOK, DialogueInv, UNCHANGED <<client, childTable>>,
         proc = "up", NEW h \in Conns, Handler(h)
  PROVE  \A c \in Conns : Answers(c)' /\ Mail(c)' /\ Unread(c)' /\ NameSent(c)'
<1>0. /\ Answers(h) /\ Unread(h) /\ NameSent(h) /\ (Read(h) => source[h] = h)
      /\ \A c \in Conns : ServerEnded(c) => ServerEnded(c)'
  BY EndKeptByHandler DEF DialogueInv, Read, SessionInv, Own
<1>1. /\ Answers(h)' /\ Unread(h)' /\ NameSent(h)' /\ (Answered(h) => Answered(h)')
      /\ authenticated[h] => authenticated'[h]
  <2>1. CASE Read(h)
    BY <1>0, <2>1, ReadAnswers
  <2>2. CASE ~Read(h)
    <3>1. Unread(h) /\ NameSent(h) /\ UNCHANGED inbox
      BY <1>0, <2>2, InboxKept
    <3> QED  BY <1>0, <2>2, <3>1, TurnAnswers DEF Unread, NameSent, Answered
  <2> QED  BY <2>1, <2>2
<1>2. ASSUME NEW g \in Conns, g # h
      PROVE  /\ Answers(g)' /\ Unread(g)' /\ NameSent(g)' /\ (Answered(g) => Answered(g)')
             /\ authenticated[g] => authenticated'[g]
  <2>1. /\ pc'[g] = pc[g] /\ authenticated'[g] = authenticated[g]
        /\ username'[g] = username[g] /\ response'[g] = response[g]
        /\ inbox'[g] = inbox[g]
    BY <1>0, <1>2, OthersWait
  <2>2. Answers(g) /\ Unread(g) /\ NameSent(g)
    BY DEF DialogueInv
  <2>3. Answered(g)' = Answered(g)
    BY <2>1 DEF Answered
  <2>4. Answers(g)'
    BY <2>1, <2>2, <2>3 DEF Answers
  <2>5. Unread(g)' /\ NameSent(g)'
    BY <1>0, <2>1, <2>2 DEF Unread, NameSent
  <2> QED  BY <2>1, <2>3, <2>4, <2>5
<1>3. ASSUME NEW c \in Conns, NEW kind,
             Kinds(c)' = Kinds(c) \/ Kinds(c)' = Kinds(c) \cup {kind},
             kind \notin {"BAD_REQ", "NOT_AUTHENTICATED"},
             kind = "100" => Answered(c), kind = "USER_OK" => authenticated[c]
      PROVE  Mail(c)'
  <2>1. Mail(c)
    BY DEF DialogueInv
  <2>2. (Answered(c) => Answered(c)') /\ (authenticated[c] => authenticated'[c])
    BY <1>1, <1>2
  <2> QED  BY <1>3, <2>1, <2>2 DEF Mail
<1>4. ASSUME NEW c \in Conns PROVE Mail(c)'
  <2>1. CASE BroadcastSend(h)
    <3>1. clientSockets[pos] \in FDs /\ response[h] \in Message
      BY <2>1 DEF BroadcastSend, TypeInv, TypeOK
    <3>2. response[h].kind \in Broadcasts
      BY <2>1 DEF BroadcastSend, DialogueInv, Answers
    <3>3. Kinds(c)' = Kinds(c) \/ Kinds(c)' = Kinds(c) \cup {response[h].kind}
      BY <2>1, <3>1, SendKinds DEF BroadcastSend
    <3> QED  BY <1>3, <3>2, <3>3 DEF Broadcasts
  <2>2. CASE Respond(h)
    <3>1. clientSocket[h] \in FDs /\ response[h] \in Message
      BY <2>2 DEF Respond, TypeInv, TypeOK, HandlerHasFD
    <3>2. fdTable[clientSocket[h]] = h
      BY <2>2 DEF Respond, SessionInv, Own, Serving
    <3>3. \/ Kinds(c)' = Kinds(c)
          \/ c = h /\ Kinds(c)' = Kinds(c) \cup {response[h].kind}
      BY <2>2, <3>1, <3>2, SendKinds DEF Respond
    <3>4. /\ response[h].kind \in {"200", "100", "USER_OK"}
          /\ response[h].kind = "100" => Answered(h)
          /\ response[h].kind = "USER_OK" => authenticated[h]
      BY <2>2 DEF Respond, DialogueInv, Answers
    <3>5. CASE c = h
      BY <1>3, <3>3, <3>4, <3>5
    <3>6. CASE c # h
      BY <1>3, <3>3, <3>6
    <3> QED  BY <3>5, <3>6
  <2>3. CASE ~(BroadcastSend(h) \/ Respond(h))
    <3>1. UNCHANGED outbox
      BY <2>3 DEF Handler, Register, Check, ReadCall, ReadEnd, Read, SetName, LookupName,
         BroadcastLock, BroadcastUnlock, Close, netVars
    <3>2. Kinds(c)' = Kinds(c)
      BY <3>1 DEF Kinds
    <3>3. Mail(c) /\ (Answered(c) => Answered(c)') /\ (authenticated[c] => authenticated'[c])
      BY <1>1, <1>2 DEF DialogueInv
    <3> QED  BY <3>2, <3>3 DEF Mail
  <2> QED  BY <2>1, <2>2, <2>3
<1> QED  BY <1>1, <1>2, <1>4

\* The acceptor starts a handler, which has no answer yet, and otherwise
\* touches only far ends.
LEMMA ServerKeepsDialogue ==
  ASSUME TypeInv, DescriptorInv, SessionInv, ClientTypeOK, DialogueInv,
         UNCHANGED <<client, childTable>>, proc = "up", ServerRuns
  PROVE  DialogueInv'
<1>1. \A c \in Conns : Unconnected(c)' /\ (ServerEnded(c) => ServerEnded(c)')
  BY StaysUnconnected, EndKeptByServer DEF DialogueInv, Unconnected
<1>2. ASSUME UNCHANGED <<inbox, outbox, authenticated, username, response>>,
             \A c \in Conns : pc'[c] = pc[c] \/ pc'[c] = "start",
             NEW c \in Conns
      PROVE  Answers(c)' /\ Mail(c)' /\ Unread(c)' /\ NameSent(c)'
  <2>1. /\ Answers(c) /\ Mail(c) /\ Unread(c) /\ NameSent(c)
        /\ pc'[c] = pc[c] \/ pc'[c] = "start"
    BY <1>2 DEF DialogueInv
  <2>2. Answered(c)' = Answered(c) /\ Kinds(c)' = Kinds(c)
    BY <1>2 DEF Answered, Kinds
  <2>3. Answers(c)' /\ Mail(c)'
    BY <1>2, <2>1, <2>2 DEF Answers, Mail
  <2>4. Unread(c)' /\ NameSent(c)'
    BY <1>1, <1>2, <2>1 DEF Unread, NameSent
  <2> QED  BY <2>3, <2>4
<1>3. CASE Start \/ Acceptor \/ BrokenPipe \/ UsernamesRace
  <2>1. CASE Start \/ BrokenPipe \/ UsernamesRace
    BY <1>1, <1>2, <2>1, DeathFrame DEF Start, handlerVars, netVars, DialogueInv
  <2>2. CASE Acceptor
    <3>1. UNCHANGED <<inbox, outbox, authenticated, username, response>>
      BY <2>2 DEF Acceptor, AcceptorRuns, RunSetup, RunCheck, RunSelectReady,
         RunSelectTimeout, RunSelectError, RunAccept, CloseListener, handlerVars, netVars
    <3>2. \A c \in Conns : pc'[c] = pc[c] \/ pc'[c] = "start"
      BY <2>2 DEF Acceptor, AcceptorRuns, RunSetup, RunCheck, RunSelectReady,
         RunSelectTimeout, RunSelectError, RunAccept, CloseListener, handlerVars,
         TypeInv, TypeOK
    <3> QED  BY <1>1, <1>2, <3>1, <3>2 DEF DialogueInv
  <2> QED  BY <1>3, <2>1, <2>2
<1>4. ASSUME NEW h \in Conns, Handler(h) PROVE DialogueInv'
  BY <1>1, <1>4, HandlerKeepsDialogue DEF DialogueInv
<1> QED  BY <1>3, <1>4 DEF ServerRuns

-----------------------------------------------------------------------------
ChatInv == TypeInv /\ DescriptorInv /\ SessionInv /\ ClientTypeOK /\ DialogueInv

LEMMA ChatInitially == ChatInit => ChatInv
<1> SUFFICES ASSUME ChatInit PROVE ChatInv
  OBVIOUS
<1>1. TypeInv /\ DescriptorInv /\ SessionInv
  BY InitType DEF ChatInit, Init, DescriptorInv, NotAccepted, NoLeakedDescriptor,
     SessionInv, Own, Serving, ChatAttribution
<1>2. ClientTypeOK
  BY ChatsAssumption DEF ChatInit, ClientTypeOK, ClientPC
<1>3. ASSUME NEW c \in Conns
      PROVE  Answers(c) /\ Mail(c) /\ Unread(c) /\ NameSent(c) /\ Unconnected(c)
  <2>1. /\ client[c] = "off" /\ inbox[c] = <<>> /\ outbox[c] = <<>> /\ peer[c] = "none"
        /\ authenticated[c] = FALSE /\ pc[c] = "none"
    BY DEF ChatInit, Init
  <2>2. Kinds(c) = {}
    BY <2>1 DEF Kinds
  <2> QED  BY <2>1, <2>2 DEF Answers, Mail, Unread, NameSent, Unconnected
<1> QED  BY <1>1, <1>2, <1>3 DEF ChatInv, DialogueInv

LEMMA ChatStep == ChatInv /\ [ChatSessionNext]_chatVars => ChatInv'
<1> SUFFICES ASSUME ChatInv, [ChatSessionNext]_chatVars PROVE ChatInv'
  OBVIOUS
<1>1. ClientTypeOK'
  BY ClientTypeStep DEF ChatInv, ChatNext
<1>2. CASE proc = "up" /\ ServerRuns /\ UNCHANGED <<clientVars, childTable>>
  <2>1. [SessionNext]_vars /\ [Next]_vars
    BY <1>2 DEF SessionNext, Next
  <2>2. TypeInv' /\ DescriptorInv' /\ SessionInv'
    BY <2>1, TypeStep, DescriptorStep, SessionStep DEF ChatInv
  <2>3. DialogueInv'
    BY <1>2, ServerKeepsDialogue DEF ChatInv, clientVars
  <2> QED  BY <1>1, <2>2, <2>3 DEF ChatInv
<1>3. CASE Clients
  <2>1. PICK c \in Conns : ClientStep(c)
    BY <1>3 DEF Clients, ClientStep
  <2>2. ServerUnchanged
    BY <1>3 DEF Clients
  <2>3. Touches(c)
    BY <2>1, ClientTouches DEF ChatInv, DialogueInv
  <2>4. TypeInv' /\ DescriptorInv' /\ SessionInv'
    BY <2>2, <2>3, ClientsKeepServer DEF ChatInv
  <2>5. DialogueInv'
    BY <2>1, <2>2, <2>3, ClientsKeepDialogue DEF ChatInv
  <2> QED  BY <1>1, <2>4, <2>5 DEF ChatInv
<1>4. CASE UNCHANGED chatVars
  <2>1. [SessionNext]_vars /\ [Next]_vars
    BY <1>4 DEF chatVars
  <2>2. TypeInv' /\ DescriptorInv' /\ SessionInv'
    BY <2>1, TypeStep, DescriptorStep, SessionStep DEF ChatInv
  <2>3. DialogueInv'
    BY <1>4 DEF ChatInv, DialogueInv, Answers, Mail, Unread, NameSent, Unconnected,
       Answered, Kinds, ServerEnded, Open, chatVars, vars, clientVars, handlerVars, netVars
  <2> QED  BY <1>1, <2>2, <2>3 DEF ChatInv
<1> QED  BY <1>2, <1>3, <1>4 DEF ChatSessionNext

LEMMA ChatInvariant == ChatSession => []ChatInv
BY ChatInitially, ChatStep, PTL DEF ChatSession

LEMMA DialogueNeverRefuses == TypeInv /\ DialogueInv => NeverRefused
<1> SUFFICES ASSUME TypeInv, DialogueInv, NEW c \in Conns, NEW i \in 1..Len(outbox[c])
             PROVE  outbox[c][i].kind \notin {"BAD_REQ", "NOT_AUTHENTICATED"}
  BY DEF NeverRefused
<1>1. outbox[c][i].kind \in Kinds(c)
  BY DEF Kinds
<1> QED  BY <1>1 DEF DialogueInv, Mail

\* The handshake of the client fits the server: while the server is not
\* stopped, no client is answered that its request is bad or that it is not
\* authenticated (client.cpp 95-148, server.cpp 199-223).
THEOREM NobodyIsRefused == ChatSession => []NeverRefused
<1>1. ChatInv => NeverRefused
  BY DialogueNeverRefuses DEF ChatInv
<1> QED  BY <1>1, ChatInvariant, PTL

-----------------------------------------------------------------------------
(* The handshake, message by message.                                      *)

IsReply(m) == m.kind \notin Broadcasts

\* What c has been answered: nothing; the 100, or nothing yet; the 100 and then
\* perhaps USER_OK.
NoReply(c)  == \A i \in 1..Len(outbox[c]) : ~IsReply(outbox[c][i])
Single(c)   ==
  \A i, j \in 1..Len(outbox[c]) : IsReply(outbox[c][i]) /\ IsReply(outbox[c][j]) => i = j
OneReply(c) ==
  /\ Single(c)
  /\ \A i \in 1..Len(outbox[c]) : IsReply(outbox[c][i]) => outbox[c][i].kind = "100"
Greeted(c) ==
  /\ Len(outbox[c]) > 0
  /\ \A i \in 2..Len(outbox[c]) : outbox[c][i].kind \in Broadcasts \cup {"USER_OK"}

\* How far the reads of c have got.
Progress(c) ==
  /\ client[c] \in {"off", "request"} => NoReply(c) /\ pc[c] # "respond"
  /\ client[c] \in {"await100", "refused", "name"} =>
       /\ OneReply(c)
       /\ ~NoReply(c) => inbox[c] = <<>> /\ pc[c] # "respond"
       /\ inbox[c] # <<>> => pc[c] # "respond"
       /\ pc[c] = "respond" => response[c].kind = "100"
  /\ client[c] \in {"off", "request", "await100"} => rcvd[c] = 0
  /\ client[c] = "name" => ~NoReply(c) /\ Greeted(c)
  /\ client[c] \in {"name", "awaitOK", "awaitOK2"} => rcvd[c] > 0
  /\ client[c] \in {"awaitOK", "awaitOK2", "failed"} =>
       /\ Greeted(c)
       /\ pc[c] = "respond" => response[c].kind = "USER_OK"
  /\ rcvd[c] <= Len(outbox[c])

\* What a client has lost the handshake to, or may still, or has taken for USER_OK,
\* if the connection has not ended.
Disturbed(c) == \E i \in 1..rcvd[c] : outbox[c][i].kind \in Broadcasts
DisturbedTwice(c) ==
  \E i, j \in 1..rcvd[c] : i < j /\ {outbox[c][i].kind, outbox[c][j].kind} \subseteq Broadcasts

Excuse(c) ==
  \/ ServerEnded(c)
  \/ /\ client[c] \in {"refused", "awaitOK2"} => Disturbed(c)
     /\ client[c] = "failed" => DisturbedTwice(c)
     /\ client[c] \in {"check", "line"} => authenticated[c] \/ Disturbed(c)

HandshakeInv == \A c \in Conns : Progress(c) /\ Excuse(c)

-----------------------------------------------------------------------------
(* What one more message changes.                                          *)

LEMMA OneMore ==
  ASSUME TypeInv, NEW c \in Conns, NEW m \in Message, outbox'[c] = Append(outbox[c], m)
  PROVE  /\ Len(outbox[c]) \in Nat /\ Len(outbox'[c]) = Len(outbox[c]) + 1
         /\ \A i \in 1..Len(outbox[c]) : outbox'[c][i] = outbox[c][i]
         /\ outbox'[c][Len(outbox[c]) + 1] = m
<1>1. outbox[c] \in Seq(Message)
  BY DEF TypeInv, TypeOK
<1> QED  BY <1>1

LEMMA BroadcastIsNoReply ==
  ASSUME TypeInv, NEW c \in Conns, NEW m \in Message, outbox'[c] = Append(outbox[c], m),
         m.kind \in Broadcasts
  PROVE  /\ NoReply(c)' <=> NoReply(c)
         /\ OneReply(c) => OneReply(c)'
         /\ Greeted(c) => Greeted(c)'
<1>1. ~IsReply(m)
  BY DEF IsReply
<1>2. NoReply(c)' <=> NoReply(c)
  BY <1>1, OneMore DEF NoReply, IsReply
<1>3. OneReply(c) => OneReply(c)'
  BY <1>1, OneMore DEF OneReply, Single, IsReply
<1>4. Greeted(c) => Greeted(c)'
  BY OneMore DEF Greeted
<1> QED  BY <1>2, <1>3, <1>4

LEMMA FirstReply ==
  ASSUME TypeInv, NEW c \in Conns, NEW m \in Message, outbox'[c] = Append(outbox[c], m),
         m.kind = "100", NoReply(c)
  PROVE  OneReply(c)' /\ ~NoReply(c)'
<1>1. IsReply(m)
  BY DEF IsReply, Broadcasts
<1>2. OneReply(c)'
  BY <1>1, OneMore DEF NoReply, OneReply, Single, IsReply
<1>3. ~NoReply(c)'
  BY <1>1, OneMore DEF NoReply, IsReply
<1> QED  BY <1>2, <1>3

LEMMA SecondReply ==
  ASSUME TypeInv, NEW c \in Conns, NEW m \in Message, outbox'[c] = Append(outbox[c], m),
         m.kind = "USER_OK", Greeted(c)
  PROVE  Greeted(c)'
BY OneMore DEF Greeted

\* The answers c has had, and its own ways, where its handler says nothing.
LEMMA QuietProgress ==
  ASSUME TypeInv, NEW c \in Conns, Progress(c),
         client'[c] = client[c], rcvd'[c] = rcvd[c],
         inbox'[c] # inbox[c] => inbox'[c] = <<>>,
         \/ pc'[c] # "respond"
         \/ pc[c] = "respond" /\ response'[c] = response[c] /\ inbox'[c] = inbox[c],
         \/ outbox'[c] = outbox[c]
         \/ \E m \in Message : outbox'[c] = Append(outbox[c], m) /\ m.kind \in Broadcasts
  PROVE  Progress(c)'
<1>1. /\ NoReply(c)' <=> NoReply(c)
      /\ OneReply(c) => OneReply(c)'
      /\ Greeted(c) => Greeted(c)'
      /\ Len(outbox[c]) \in Nat /\ Len(outbox'[c]) \in Nat
      /\ Len(outbox[c]) <= Len(outbox'[c])
  <2>1. CASE outbox'[c] = outbox[c]
    BY <2>1, OutboxLength DEF NoReply, OneReply, Single, Greeted
  <2>2. CASE outbox'[c] # outbox[c]
    <3>1. PICK m \in Message : outbox'[c] = Append(outbox[c], m) /\ m.kind \in Broadcasts
      BY <2>2
    <3>2. Len(outbox[c]) \in Nat /\ Len(outbox'[c]) = Len(outbox[c]) + 1
      BY <3>1, OneMore
    <3> QED  BY <3>1, <3>2, BroadcastIsNoReply
  <2> QED  BY <2>1, <2>2
<1>2. rcvd[c] \in Nat
  BY DEF TypeInv, TypeOK
<1>3. rcvd'[c] <= Len(outbox'[c])
  BY <1>1, <1>2 DEF Progress
<1> QED  BY <1>1, <1>3 DEF Progress

-----------------------------------------------------------------------------
(* The handlers' part in it.                                               *)

LEMMA OwnReplyProgress ==
  ASSUME TypeInv, SessionInv, NEW c \in Conns, Progress(c), UNCHANGED <<client, inbox, rcvd>>,
         Respond(c)
  PROVE  Progress(c)'
<1>1. /\ pc[c] = "respond" /\ pc'[c] # "respond"
      /\ clientSocket[c] \in FDs /\ fdTable[clientSocket[c]] = c
      /\ response[c] \in Message
  BY DEF Respond, Goto, SessionInv, Own, Serving, TypeInv, TypeOK, HandlerHasFD
<1>2. outbox'[c] = outbox[c] \/ outbox'[c] = Append(outbox[c], response[c])
  BY <1>1 DEF Respond, SendOk, SendFails, netVars, TypeInv, TypeOK
<1>3. CASE outbox'[c] = outbox[c]
  BY <1>1, <1>3, QuietProgress
<1>4. CASE outbox'[c] = Append(outbox[c], response[c])
  <2>1. /\ Len(outbox[c]) \in Nat /\ Len(outbox'[c]) = Len(outbox[c]) + 1
        /\ rcvd[c] \in Nat
    BY <1>1, <1>4, OneMore DEF TypeInv, TypeOK
  <2>2. rcvd'[c] <= Len(outbox'[c])
    BY <2>1 DEF Progress
  <2>3. CASE client[c] \in {"await100", "refused", "name"}
    <3>1. response[c].kind = "100" /\ NoReply(c) /\ inbox[c] = <<>> /\ client[c] # "name"
      BY <1>1, <2>3 DEF Progress
    <3>2. OneReply(c)'
      BY <1>1, <1>4, <3>1, FirstReply
    <3> QED  BY <1>1, <2>2, <2>3, <3>1, <3>2 DEF Progress
  <2>4. CASE client[c] \in {"awaitOK", "awaitOK2", "failed"}
    <3>1. response[c].kind = "USER_OK" /\ Greeted(c)
      BY <1>1, <2>4 DEF Progress
    <3>2. Greeted(c)'
      BY <1>1, <1>4, <3>1, SecondReply
    <3> QED  BY <1>1, <2>2, <2>4, <3>2 DEF Progress
  <2>5. CASE client[c] \in {"off", "request"}
    BY <1>1, <2>5 DEF Progress
  <2>6. CASE client[c] \notin {"off", "request", "await100", "refused", "name",
                              "awaitOK", "awaitOK2", "failed"}
    BY <2>2, <2>6 DEF Progress
  <2> QED  BY <2>3, <2>4, <2>5, <2>6
<1> QED  BY <1>2, <1>3, <1>4

LEMMA OwnReadProgress ==
  ASSUME TypeInv, SessionInv, DialogueInv, NEW c \in Conns, Progress(c),
         UNCHANGED <<client, outbox, rcvd>>, Read(c)
  PROVE  Progress(c)'
<1>0. source[c] = c /\ Unread(c)
  BY DEF DialogueInv, Read, SessionInv, Own
<1>1. PICK command : Dispatch(c, command) /\ Commanded(c, command)
  BY <1>0, ReadCommand
<1>2. Unread(c) /\ pc \in [Conns -> HandlerPC] /\ response \in [Conns -> Message]
  BY DEF DialogueInv, TypeInv, TypeOK
<1>3. UNCHANGED <<NoReply(c), OneReply(c), Greeted(c)>>
  BY DEF NoReply, OneReply, Single, Greeted
<1>4. CASE command \in {"CHAT", "DISS", "USER_SET"}
  <2>1. pc'[c] # "respond"
    BY <1>1, <1>2, <1>4 DEF Commanded, Dispatch, Goto
  <2>2. client[c] \notin {"off", "request", "await100", "refused", "name"}
    BY <1>1, <1>2, <1>4, TalkAlone DEF Commanded, Unread
  <2> QED  BY <1>3, <2>1, <2>2 DEF Progress
<1>5. CASE command \notin {"CHAT", "DISS", "USER_SET"}
  <2>1. /\ inbox[c] = <<command>> /\ inbox'[c] = <<>> /\ ~authenticated[c]
        /\ command \in {"CONN_REQ", "PING"}
    BY <1>1, <1>5 DEF Commanded
  <2>2. inbox[c] # <<>> /\ inbox[c] # <<"USER_SET">>
    BY <2>1
  <2>3. /\ client[c] \notin {"off", "request", "ping", "name", "awaitOK", "awaitOK2", "failed"}
        /\ client[c] \in {"await100", "refused"} => command = "CONN_REQ"
    BY <1>2, <2>1, <2>2 DEF Unread
  <2>4. CASE client[c] \in {"await100", "refused"}
    <3>1. pc'[c] = "respond" /\ response'[c].kind = "100"
      BY <1>1, <1>2, <2>3, <2>4 DEF Dispatch, Goto, Reply
    <3>2. NoReply(c)
      BY <2>1, <2>2, <2>4 DEF Progress
    <3> QED  BY <1>3, <2>1, <2>4, <3>1, <3>2 DEF Progress
  <2> QED  BY <1>3, <2>3, <2>4 DEF Progress
<1> QED  BY <1>4, <1>5

LEMMA OwnUnlockProgress ==
  ASSUME TypeInv, DialogueInv, NEW c \in Conns, Progress(c), UNCHANGED client,
         BroadcastUnlock(c)
  PROVE  Progress(c)'
<1>1. UNCHANGED <<inbox, outbox, rcvd>>
  BY DEF BroadcastUnlock, netVars
<1>2. CASE pc'[c] # "respond"
  BY <1>1, <1>2, QuietProgress
<1>3. CASE pc'[c] = "respond"
  <2>1. response[c].kind = "joined" /\ pc[c] = "sending" /\ response'[c].kind = "USER_OK"
    BY <1>3 DEF BroadcastUnlock, Goto, Reply, TypeInv, TypeOK
  <2>2. client[c] \notin {"off", "request", "await100", "refused", "name"}
    BY <2>1 DEF DialogueInv, Answers, Unread
  <2>3. UNCHANGED <<NoReply(c), OneReply(c), Greeted(c)>>
    BY <1>1 DEF NoReply, OneReply, Single, Greeted
  <2> QED  BY <1>1, <2>1, <2>2, <2>3 DEF Progress
<1> QED  BY <1>2, <1>3

LEMMA HandlerKeepsProgress ==
  ASSUME TypeInv, SessionInv, DialogueInv, UNCHANGED client,
         NEW h \in Conns, Handler(h), NEW c \in Conns, Progress(c)
  PROVE  Progress(c)'
<1>0. Read(h) => source[h] = h
  BY DEF Read, SessionInv, Own
<1>1. UNCHANGED rcvd
  BY DEF Handler, Register, Check, ReadCall, ReadEnd, Read, SetName, LookupName, BroadcastLock,
     BroadcastSend, BroadcastUnlock, Respond, Close, SendOk, SendFails, netVars
<1>2. CASE BroadcastSend(h)
  <2>1. UNCHANGED <<pc, response, inbox>>
    BY <1>2 DEF BroadcastSend, SendOk, SendFails, handlerVars, netVars
  <2>2. response[h] \in Message /\ response[h].kind \in Broadcasts
    BY <1>2 DEF BroadcastSend, TypeInv, TypeOK, DialogueInv, Answers
  <2>3. outbox'[c] = outbox[c] \/ outbox'[c] = Append(outbox[c], response[h])
    BY <1>2 DEF BroadcastSend, SendOk, SendFails, netVars, TypeInv, TypeOK
  <2> QED  BY <1>1, <2>1, <2>2, <2>3, QuietProgress
<1>3. CASE Respond(h)
  <2>1. UNCHANGED inbox
    BY <1>3 DEF Respond, SendOk, SendFails, netVars
  <2>2. CASE c = h
    BY <1>1, <1>3, <2>1, <2>2, OwnReplyProgress
  <2>3. CASE c # h
    <3>1. fdTable[clientSocket[h]] = h
      BY <1>3 DEF Respond, SessionInv, Own, Serving
    <3>2. outbox'[c] = outbox[c]
      BY <1>3, <2>3, <3>1 DEF Respond, SendOk, SendFails, netVars, TypeInv, TypeOK
    <3>3. pc'[c] = pc[c] /\ response'[c] = response[c] /\ inbox'[c] = inbox[c]
      BY <1>0, <2>3, OthersWait
    <3> QED  BY <1>1, <3>2, <3>3, QuietProgress
  <2> QED  BY <2>2, <2>3
<1>4. CASE ~(BroadcastSend(h) \/ Respond(h))
  <2>1. UNCHANGED outbox
    BY <1>4 DEF Handler, Register, Check, ReadCall, ReadEnd, Read, SetName, LookupName,
       BroadcastLock, BroadcastUnlock, Close, netVars
  <2>2. CASE c # h
    <3>1. pc'[c] = pc[c] /\ response'[c] = response[c] /\ inbox'[c] = inbox[c]
      BY <1>0, <2>2, OthersWait
    <3> QED  BY <1>1, <2>1, <3>1, QuietProgress
  <2>3. CASE c = h /\ Read(h)
    BY <1>1, <2>1, <2>3, OwnReadProgress
  <2>4. CASE c = h /\ BroadcastUnlock(h)
    BY <2>4, OwnUnlockProgress
  <2>5. CASE c = h /\ ~Read(h) /\ ~BroadcastUnlock(h)
    <3>1. UNCHANGED inbox
      BY <2>5, InboxKept
    <3>2. pc'[c] # "respond"
      BY <1>4, <2>5 DEF Handler, Register, Check, ReadCall, ReadEnd, SetName, LookupName,
         BroadcastLock, Close, Goto, TypeInv, TypeOK
    <3> QED  BY <1>1, <2>1, <3>1, <3>2, QuietProgress
  <2> QED  BY <2>2, <2>3, <2>4, <2>5
<1> QED  BY <1>2, <1>3, <1>4

LEMMA ServerKeepsProgress ==
  ASSUME TypeInv, SessionInv, DialogueInv, UNCHANGED client, ServerRuns,
         NEW c \in Conns, Progress(c)
  PROVE  Progress(c)'
<1>1. ASSUME NEW h \in Conns, Handler(h) PROVE Progress(c)'
  BY <1>1, HandlerKeepsProgress
<1>2. CASE Start \/ BrokenPipe \/ UsernamesRace
  <2>1. UNCHANGED <<inbox, outbox, rcvd, pc, response>>
    BY <1>2, DeathFrame DEF Start, handlerVars, netVars
  <2> QED  BY <2>1, QuietProgress
<1>3. CASE Acceptor
  <2>1. UNCHANGED <<inbox, outbox, rcvd, response>>
    BY <1>3 DEF Acceptor, AcceptorRuns, RunSetup, RunCheck, RunSelectReady,
       RunSelectTimeout, RunSelectError, RunAccept, CloseListener, handlerVars, netVars
  <2>2. pc'[c] = pc[c] \/ pc'[c] = "start"
    BY <1>3 DEF Acceptor, AcceptorRuns, RunSetup, RunCheck, RunSelectReady,
       RunSelectTimeout, RunSelectError, RunAccept, CloseListener, handlerVars,
       TypeInv, TypeOK
  <2> QED  BY <2>1, <2>2, QuietProgress
<1> QED  BY <1>1, <1>2, <1>3 DEF ServerRuns

-----------------------------------------------------------------------------
(* The client's part in it.                                                *)

LEMMA ChunkContains ==
  ASSUME TypeInv, NEW c \in Conns, NEW n \in Nat, rcvd[c] + n <= Len(outbox[c]), NEW kind
  PROVE  Contains(Chunk(c, n), kind) <=> \E i \in 1..n : outbox[c][rcvd[c] + i].kind = kind
<1>1. outbox[c] \in Seq(Message) /\ rcvd[c] \in Nat /\ Len(outbox[c]) \in Nat
  BY DEF TypeInv, TypeOK
<1>2. \A q \in Seq(Message) : \A k \in Nat : k + n <= Len(q) =>
        /\ Len(SubSeq(q, k + 1, k + n)) = n
        /\ \A i \in 1..n : SubSeq(q, k + 1, k + n)[i] = q[k + i]
  OBVIOUS
<1>3. /\ Len(Chunk(c, n)) = n
      /\ \A i \in 1..n : Chunk(c, n)[i] = outbox[c][rcvd[c] + i]
  BY <1>1, <1>2 DEF Chunk
<1> QED  BY <1>3 DEF Contains

\* A client only ever reads on, and never more than there is.
LEMMA ReadsOn ==
  ASSUME TypeInv, NEW c \in Conns, rcvd[c] <= Len(outbox[c]), ClientStep(c)
  PROVE  /\ rcvd'[c] \in Nat /\ rcvd[c] <= rcvd'[c] /\ rcvd'[c] <= Len(outbox[c])
         /\ \A d \in Conns : d # c => rcvd'[d] = rcvd[d]
<1>1. rcvd \in [Conns -> Nat] /\ Len(outbox[c]) \in Nat
  BY DEF TypeInv, TypeOK
<1>2. CASE UNCHANGED rcvd
  BY <1>1, <1>2
<1>3. CASE rcvd' # rcvd
  <2>1. \E n \in 0..Len(outbox[c]) : ClientRead(c, n)
    BY <1>3 DEF ClientStep, User, Handshake, Leaving, Receiving, Connect, EnterName, Chat,
       OtherLine, ExitLine, ClientKilled, SendRequest, Await100, AwaitOK, SendPing,
       AwaitPong, HangUp, Prompt, Leave, Join, ReceiveStarts, Receive, ReceiveEnd,
       ClientSend, ClientClose, netVars
  <2>2. PICK n \in 0..Len(outbox[c]) : ClientRead(c, n)
    BY <2>1
  <2>3. n \in Nat /\ rcvd[c] + n <= Len(outbox[c])
    BY <1>1, <2>2 DEF ClientRead
  <2> QED  BY <1>1, <2>2, <2>3 DEF ClientRead
<1> QED  BY <1>2, <1>3

\* What the first read takes for the answer is the 100, and alone.
LEMMA FirstRead ==
  ASSUME TypeInv, ClientTypeOK, NEW c \in Conns, Progress(c), Await100(c)
  PROVE  /\ client[c] = "await100" /\ UNCHANGED <<outbox, inbox>>
         /\ \/ client'[c] = "name" /\ ~NoReply(c) /\ Greeted(c) /\ rcvd'[c] > 0
            \/ client'[c] = "refused" /\ (ServerEnded(c) \/ Disturbed(c)')
<1>1. PICK n \in 0..Len(outbox[c]) :
        /\ ClientRead(c, n)
        /\ To(c, IF n = 1 /\ Contains(Chunk(c, n), "100") THEN "name" ELSE "refused")
  BY DEF Await100
<1>2. /\ client[c] = "await100" /\ UNCHANGED <<outbox, inbox>>
      /\ Len(outbox[c]) \in Nat /\ n \in Nat
      /\ rcvd[c] = 0 /\ OneReply(c)
  BY <1>1, OutboxLength DEF Await100, ClientRead, Progress
<1>3. n <= Len(outbox[c]) /\ rcvd'[c] = n /\ rcvd[c] + n <= Len(outbox[c])
  BY <1>1, <1>2 DEF ClientRead, TypeInv, TypeOK
<1>4. Contains(Chunk(c, n), "100") <=> \E i \in 1..n : outbox[c][i].kind = "100"
  BY <1>2, <1>3, ChunkContains
<1>5. /\ client'[c] = IF n = 1 /\ Contains(Chunk(c, n), "100") THEN "name" ELSE "refused"
  BY <1>1 DEF To, ClientTypeOK
<1>6. CASE n = 1 /\ Contains(Chunk(c, n), "100")
  <2>1. 1 \in 1..Len(outbox[c]) /\ outbox[c][1].kind = "100" /\ IsReply(outbox[c][1])
    BY <1>2, <1>3, <1>4, <1>6 DEF IsReply, Broadcasts
  <2>2. \A i \in 2..Len(outbox[c]) : ~IsReply(outbox[c][i])
    BY <1>2, <2>1 DEF OneReply, Single
  <2>3. Greeted(c)
    BY <1>2, <2>1, <2>2 DEF Greeted, IsReply
  <2>4. ~NoReply(c)
    BY <2>1 DEF NoReply
  <2> QED  BY <1>2, <1>3, <1>5, <1>6, <2>3, <2>4
<1>7. CASE ~(n = 1 /\ Contains(Chunk(c, n), "100"))
  <2>1. CASE n = 0
    BY <1>1, <1>2, <1>5, <1>7, <2>1 DEF ClientRead
  <2>2. CASE n # 0
    <3>1. \E i \in 1..n : ~IsReply(outbox[c][i])
      <4>1. CASE n = 1
        BY <1>2, <1>3, <1>4, <1>7, <4>1 DEF OneReply, Single
      <4>2. CASE n # 1
        <5>1. /\ 1 \in 1..n /\ 2 \in 1..n
              /\ 1 \in 1..Len(outbox[c]) /\ 2 \in 1..Len(outbox[c])
          BY <1>2, <1>3, <2>2, <4>2
        <5> QED  BY <1>2, <5>1 DEF OneReply, Single
      <4> QED  BY <4>1, <4>2
    <3>2. Disturbed(c)'
      BY <1>2, <1>3, <3>1 DEF Disturbed, IsReply
    <3> QED  BY <1>2, <1>5, <1>7, <3>2
  <2> QED  BY <2>1, <2>2
<1> QED  BY <1>6, <1>7

\* What the second read takes for no answer has a broadcast in it, and what it
\* takes for USER_OK is that or a broadcast.
LEMMA SecondRead ==
  ASSUME TypeInv, ClientTypeOK, NEW c \in Conns, Progress(c), Mail(c), AwaitOK(c)
  PROVE  /\ UNCHANGED <<outbox, inbox>>
         /\ \/ client'[c] = "check"
            \/ client[c] = "awaitOK" /\ client'[c] = "awaitOK2"
            \/ client[c] = "awaitOK2" /\ client'[c] = "failed"
         /\ client'[c] = "awaitOK2" => ServerEnded(c) \/ Disturbed(c)'
         /\ client'[c] = "failed" =>
              ServerEnded(c) \/ (Disturbed(c) => DisturbedTwice(c)')
         /\ client'[c] = "check" => authenticated[c] \/ Disturbed(c)'
<1>1. PICK n \in 0..Len(outbox[c]), found \in BOOLEAN :
        /\ ClientRead(c, n)
        /\ FindsOK(Chunk(c, n), found)
        /\ AdmittedIf(c, found, IF client[c] = "awaitOK" THEN "awaitOK2" ELSE "failed")
  BY DEF AwaitOK
<1>2. /\ client[c] \in {"awaitOK", "awaitOK2"} /\ UNCHANGED <<outbox, inbox>>
      /\ Len(outbox[c]) \in Nat /\ n \in Nat /\ rcvd[c] \in Nat
      /\ rcvd[c] > 0 /\ Greeted(c) /\ rcvd[c] <= Len(outbox[c])
      /\ rcvd'[c] = rcvd[c] + n
  BY <1>1, OutboxLength DEF AwaitOK, ClientRead, Progress, TypeInv, TypeOK
<1>3. \/ client'[c] = "check" /\ found
      \/ /\ ~Contains(Chunk(c, n), "USER_OK") /\ ~found
         /\ client'[c] = IF client[c] = "awaitOK" THEN "awaitOK2" ELSE "failed"
  BY <1>1 DEF AdmittedIf, Admitted, FindsOK, To, ClientTypeOK
<1>4. CASE client'[c] = "check"
  <2>1. PICK kind \in Broadcasts \cup {"USER_OK"} : Contains(Chunk(c, n), kind)
    BY <1>1, <1>2, <1>3, <1>4 DEF FindsOK
  <2>2. n = 0 \/ rcvd[c] + n <= Len(outbox[c])
    BY <1>1 DEF ClientRead
  <2>3. CASE kind = "USER_OK"
    BY <1>2, <1>4, <2>1, <2>2, <2>3, ChunkKinds DEF Mail
  <2>4. CASE kind \in Broadcasts
    <3>1. rcvd[c] + n <= Len(outbox[c])
      BY <1>2, <2>2
    <3>2. PICK i \in 1..n : outbox[c][rcvd[c] + i].kind = kind
      BY <1>2, <2>1, <3>1, ChunkContains
    <3>3. rcvd[c] + i \in 1..rcvd'[c] /\ outbox'[c][rcvd[c] + i].kind \in Broadcasts
      BY <1>2, <2>4, <3>2
    <3>4. Disturbed(c)'
      BY <3>3 DEF Disturbed
    <3> QED  BY <1>2, <1>4, <3>4
  <2> QED  BY <2>3, <2>4
<1>5. CASE n = 0 /\ client'[c] # "check"
  BY <1>1, <1>2, <1>3, <1>5 DEF ClientRead
<1>6. CASE n # 0 /\ client'[c] # "check"
  <2> DEFINE k == rcvd[c] + 1
  <2>1. rcvd[c] + n <= Len(outbox[c])
    BY <1>1, <1>2, <1>6 DEF ClientRead
  <2>2. outbox[c][k].kind # "USER_OK"
    BY <1>2, <1>3, <1>6, <2>1, ChunkContains
  <2>3. k \in 2..Len(outbox[c]) /\ k \in 1..rcvd'[c] /\ rcvd[c] < k
    BY <1>2, <1>6, <2>1
  <2>4. outbox'[c][k].kind \in Broadcasts
    BY <1>2, <2>2, <2>3 DEF Greeted
  <2>5. Disturbed(c)'
    BY <2>3, <2>4 DEF Disturbed
  <2>6. Disturbed(c) => DisturbedTwice(c)'
    <3>1. SUFFICES ASSUME NEW i \in 1..rcvd[c], outbox[c][i].kind \in Broadcasts
                   PROVE  DisturbedTwice(c)'
      BY DEF Disturbed
    <3>2. i \in 1..rcvd'[c] /\ i < k
      BY <1>2, <2>3
    <3>3. {outbox'[c][i].kind, outbox'[c][k].kind} \subseteq Broadcasts
      BY <1>2, <2>4, <3>1
    <3> HIDE DEF k
    <3> QED  BY <2>3, <3>2, <3>3 DEF DisturbedTwice
  <2> QED  BY <1>2, <1>3, <1>6, <2>5, <2>6
<1> QED  BY <1>4, <1>5, <1>6

LEMMA ClientMakesProgress ==
  ASSUME TypeInv, ClientTypeOK, NEW c \in Conns, Progress(c), Mail(c), ClientStep(c),
         UNCHANGED <<outbox, pc, response>>
  PROVE  Progress(c)'
<1>1. rcvd'[c] \in Nat /\ rcvd[c] <= rcvd'[c] /\ rcvd'[c] <= Len(outbox'[c])
  BY ReadsOn DEF Progress
<1>2. UNCHANGED <<NoReply(c), OneReply(c), Greeted(c)>>
  BY DEF NoReply, OneReply, Single, Greeted
<1>3. NoReply(c) => OneReply(c)
  BY DEF NoReply, OneReply, Single
<1>4. rcvd[c] \in Nat /\ client \in [Conns -> ClientPC]
  BY DEF TypeInv, TypeOK, ClientTypeOK
<1>5. CASE Connect(c) \/ SendRequest(c) \/ EnterName(c)
  <2>1. \/ client[c] = "off" /\ client'[c] \in {"request", "ping"}
        \/ client[c] = "request" /\ client'[c] = "await100"
        \/ client[c] = "name" /\ client'[c] = "awaitOK"
    BY <1>4, <1>5 DEF Connect, SendRequest, EnterName, To
  <2>2. UNCHANGED rcvd
    BY <1>5 DEF Connect, SendRequest, EnterName, ClientSend
  <2> QED  BY <1>1, <1>2, <1>3, <2>1, <2>2 DEF Progress
<1>6. CASE Await100(c)
  BY <1>1, <1>2, <1>6, FirstRead DEF Progress
<1>7. CASE AwaitOK(c)
  BY <1>1, <1>2, <1>4, <1>7, SecondRead DEF Progress
<1>8. CASE ~(Connect(c) \/ SendRequest(c) \/ EnterName(c) \/ Await100(c) \/ AwaitOK(c))
  <2>1. \/ client'[c] \in {"pong", "pinged", "done", "line", "leave", "killed", "check", "join"}
        \/ Receiving(c) /\ UNCHANGED <<client, inbox>>
    BY <1>4, <1>8 DEF ClientStep, User, Handshake, Leaving, Receiving, Chat,
       OtherLine, ExitLine, ClientKilled, SendPing, AwaitPong, HangUp, Prompt, Leave,
       Join, ReceiveStarts, Receive, ReceiveEnd, ClientRead, netVars, To
  <2>2. CASE client'[c] \in {"pong", "pinged", "done", "line", "leave", "killed", "check", "join"}
    BY <1>1, <2>2 DEF Progress
  <2>3. CASE Receiving(c) /\ UNCHANGED <<client, inbox>>
    <3>1. client[c] \in {"check", "line", "leave", "join"}
      BY <2>3 DEF Receiving, ReceiveStarts, Receive, ReceiveEnd, ClientTypeOK
    <3> QED  BY <1>1, <2>3, <3>1 DEF Progress
  <2> QED  BY <2>1, <2>2, <2>3
<1> QED  BY <1>5, <1>6, <1>7, <1>8

-----------------------------------------------------------------------------
(* What a client has lost the handshake to.                                *)

\* A broadcast that has been read has been read for good.
LEMMA DisturbedForGood ==
  ASSUME TypeInv, NEW c \in Conns, rcvd[c] <= Len(outbox[c]),
         rcvd'[c] \in Nat, rcvd[c] <= rcvd'[c],
         outbox'[c] = outbox[c] \/ \E m \in Message : outbox'[c] = Append(outbox[c], m)
  PROVE  (Disturbed(c) => Disturbed(c)') /\ (DisturbedTwice(c) => DisturbedTwice(c)')
<1>1. rcvd[c] \in Nat /\ Len(outbox[c]) \in Nat
  BY DEF TypeInv, TypeOK
<1>2. \A i \in 1..rcvd[c] : i \in 1..rcvd'[c] /\ outbox'[c][i] = outbox[c][i]
  BY <1>1, OneMore
<1> QED  BY <1>2 DEF Disturbed, DisturbedTwice

\* The server forgets no name.
LEMMA KnownForGood ==
  ASSUME TypeInv, ServerRuns, NEW c \in Conns, authenticated[c]
  PROVE  authenticated'[c]
<1>1. ASSUME NEW h \in Conns, Handler(h) PROVE authenticated'[c]
  BY <1>1 DEF Handler, Register, Check, ReadCall, ReadEnd, Read, Dispatch, SetName,
     LookupName, BroadcastLock, BroadcastSend, BroadcastUnlock, Respond, Close, handlerVars,
     TypeInv, TypeOK
<1> QED  BY <1>1, DeathFrame DEF ServerRuns, Start, Acceptor, AcceptorRuns, RunSetup,
   RunCheck, RunSelectReady, RunSelectTimeout, RunSelectError, RunAccept, CloseListener,
   handlerVars

LEMMA ServerKeepsExcuse ==
  ASSUME TypeInv, DescriptorInv, SessionInv, UNCHANGED <<client, childTable>>,
         proc = "up", ServerRuns, NEW c \in Conns, Progress(c), Excuse(c)
  PROVE  Excuse(c)'
<1>1. CASE ServerEnded(c)
  BY <1>1, EndKeptByServer DEF Excuse
<1>2. CASE ~ServerEnded(c)
  <2>1. UNCHANGED rcvd
    <3>1. ASSUME NEW h \in Conns, Handler(h) PROVE UNCHANGED rcvd
      BY <3>1 DEF Handler, Register, Check, ReadCall, ReadEnd, Read, SetName, LookupName,
         BroadcastLock, BroadcastSend, BroadcastUnlock, Respond, Close, SendOk, SendFails,
         netVars
    <3> QED  BY <3>1, DeathFrame DEF ServerRuns, Start, Acceptor, AcceptorRuns, RunSetup,
       RunCheck, RunSelectReady, RunSelectTimeout, RunSelectError, RunAccept,
       CloseListener, netVars
  <2>2. outbox'[c] = outbox[c] \/ \E m \in Message : outbox'[c] = Append(outbox[c], m)
    <3>1. ASSUME NEW h \in Conns, Handler(h)
          PROVE  outbox'[c] = outbox[c] \/ outbox'[c] = Append(outbox[c], response[h])
      <4>1. ASSUME NEW f, SendOk(f, response[h]) \/ SendFails(f)
            PROVE  outbox'[c] = outbox[c] \/ outbox'[c] = Append(outbox[c], response[h])
        BY <4>1 DEF SendOk, SendFails, netVars, TypeInv, TypeOK
      <4>2. CASE BroadcastSend(h) \/ Respond(h)
        BY <4>1, <4>2 DEF BroadcastSend, Respond
      <4>3. CASE ~(BroadcastSend(h) \/ Respond(h))
        BY <3>1, <4>3 DEF Handler, Register, Check, ReadCall, ReadEnd, Read, SetName, LookupName,
           BroadcastLock, BroadcastUnlock, Close, netVars
      <4> QED  BY <4>2, <4>3
    <3>2. \A h \in Conns : response[h] \in Message
      BY DEF TypeInv, TypeOK
    <3>3. CASE ~\E h \in Conns : Handler(h)
      BY <3>3, DeathFrame DEF ServerRuns, Start, Acceptor, AcceptorRuns, RunSetup,
         RunCheck, RunSelectReady, RunSelectTimeout, RunSelectError, RunAccept,
         CloseListener, netVars
    <3> QED  BY <3>1, <3>2, <3>3
  <2>3. rcvd[c] \in Nat /\ rcvd[c] <= Len(outbox[c])
    BY DEF Progress, TypeInv, TypeOK
  <2>4. (Disturbed(c) => Disturbed(c)') /\ (DisturbedTwice(c) => DisturbedTwice(c)')
    BY <2>1, <2>2, <2>3, DisturbedForGood
  <2>5. authenticated[c] => authenticated'[c]
    BY KnownForGood
  <2> QED  BY <1>2, <2>4, <2>5 DEF Excuse
<1> QED  BY <1>1, <1>2

LEMMA ClientExcuses ==
  ASSUME TypeInv, ClientTypeOK, NEW c \in Conns, Unconnected(c), Mail(c), Progress(c),
         Excuse(c), ClientStep(c), ServerUnchanged
  PROVE  Excuse(c)'
<1>1. CASE ServerEnded(c)
  BY <1>1, EndKeptByClient DEF Excuse
<1>2. CASE ~ServerEnded(c)
  <2>1. UNCHANGED <<outbox, authenticated>>
    BY ClientTouches DEF Touches, ServerUnchanged, Unchanged4Peers, handlerVars
  <2>2. (Disturbed(c) => Disturbed(c)') /\ (DisturbedTwice(c) => DisturbedTwice(c)')
    BY <2>1, ReadsOn, DisturbedForGood DEF Progress
  <2>3. CASE Await100(c)
    BY <1>2, <2>3, FirstRead DEF Excuse
  <2>4. CASE AwaitOK(c)
    BY <1>2, <2>1, <2>4, SecondRead DEF Excuse
  <2>5. CASE ~(Await100(c) \/ AwaitOK(c))
    <3>1. \/ client'[c] = client[c]
          \/ client'[c] \notin {"refused", "awaitOK2", "failed", "check", "line"}
          \/ client[c] \in {"check", "line"} /\ client'[c] \in {"check", "line"}
      BY <2>5 DEF ClientStep, User, Handshake, Leaving, Receiving, To, Connect, EnterName,
         Chat, OtherLine, ExitLine, ClientKilled, SendRequest, SendPing, AwaitPong, HangUp,
         Prompt, Leave, Join, ReceiveStarts, Receive, ReceiveEnd, ClientTypeOK
    <3> QED  BY <1>2, <2>1, <2>2, <3>1 DEF Excuse
  <2> QED  BY <2>3, <2>4, <2>5
<1> QED  BY <1>1, <1>2

LEMMA ClientsKeepHandshake ==
  ASSUME TypeInv, ClientTypeOK, DialogueInv, HandshakeInv,
         NEW c \in Conns, ClientStep(c), ServerUnchanged
  PROVE  HandshakeInv'
<1>1. UNCHANGED <<pc, response>>
  BY DEF ServerUnchanged, Unchanged4Peers, handlerVars
<1>2. Touches(c) /\ UNCHANGED outbox
  BY ClientTouches DEF Touches, DialogueInv
<1>3. Progress(c)' /\ Excuse(c)'
  BY <1>1, <1>2, ClientMakesProgress, ClientExcuses DEF HandshakeInv, DialogueInv
<1>4. ASSUME NEW d \in Conns, d # c PROVE Progress(d)' /\ Excuse(d)'
  <2>1. Progress(d) /\ Excuse(d)
    BY DEF HandshakeInv
  <2>2. client'[d] = client[d] /\ inbox'[d] = inbox[d] /\ rcvd'[d] = rcvd[d]
    BY <1>2, <1>4, ClientFrame, ReadsOn DEF HandshakeInv, Progress
  <2>3. Progress(d)'
    BY <1>1, <1>2, <2>1, <2>2, QuietProgress
  <2>4. ServerEnded(d) => ServerEnded(d)'
    BY EndKeptByClient DEF DialogueInv
  <2>5. UNCHANGED authenticated
    BY DEF ServerUnchanged, Unchanged4Peers, handlerVars
  <2>6. Excuse(d)'
    BY <1>2, <2>1, <2>2, <2>4, <2>5 DEF Excuse, Disturbed, DisturbedTwice
  <2> QED  BY <2>3, <2>6
<1> QED  BY <1>3, <1>4 DEF HandshakeInv

-----------------------------------------------------------------------------
LEMMA HandshakeStep ==
  ChatInv /\ HandshakeInv /\ [ChatSessionNext]_chatVars => HandshakeInv'
<1> SUFFICES ASSUME ChatInv, HandshakeInv, [ChatSessionNext]_chatVars PROVE HandshakeInv'
  OBVIOUS
<1>1. CASE proc = "up" /\ ServerRuns /\ UNCHANGED <<clientVars, childTable>>
  <2>1. UNCHANGED <<client, childTable>>
    BY <1>1 DEF clientVars
  <2> QED  BY <1>1, <2>1, ServerKeepsProgress, ServerKeepsExcuse DEF ChatInv, HandshakeInv
<1>2. CASE Clients
  <2>1. PICK c \in Conns : ClientStep(c)
    BY <1>2 DEF Clients, ClientStep
  <2> QED  BY <1>2, <2>1, ClientsKeepHandshake DEF Clients, ChatInv
<1>3. CASE UNCHANGED chatVars
  BY <1>3 DEF HandshakeInv, Progress, Excuse, NoReply, OneReply, Single, Greeted, Disturbed,
     DisturbedTwice, ServerEnded, Open, chatVars, vars, clientVars, handlerVars, netVars
<1> QED  BY <1>1, <1>2, <1>3 DEF ChatSessionNext

LEMMA HandshakeInitially == ChatInit => HandshakeInv
<1> SUFFICES ASSUME ChatInit, NEW c \in Conns PROVE Progress(c) /\ Excuse(c)
  BY DEF HandshakeInv
<1>1. client[c] = "off" /\ outbox[c] = <<>> /\ pc[c] = "none" /\ rcvd[c] = 0
  BY DEF ChatInit, Init
<1>2. NoReply(c)
  BY <1>1 DEF NoReply
<1> QED  BY <1>1, <1>2 DEF Progress, Excuse

LEMMA HandshakeInvariant == ChatSession => [](ChatInv /\ HandshakeInv)
BY ChatInitially, ChatStep, HandshakeInitially, HandshakeStep, PTL DEF ChatSession

LEMMA TwoOfMany ==
  ASSUME NEW n \in Nat, NEW S \in SUBSET (1..n), NEW i \in S, NEW j \in S, i # j
  PROVE  Cardinality(S) > 1
<1>1. IsFiniteSet(S)
  <2>1. IsFiniteSet(1..n)
    BY FS_Interval
  <2> QED  BY <2>1, FS_Subset
<1>2. /\ {i, j} \subseteq S
      /\ IsFiniteSet({i, j}) /\ Cardinality({i, j}) = 2
  <2>1. IsFiniteSet({i}) /\ Cardinality({i}) = 1
    BY FS_Singleton
  <2>2. IsFiniteSet({i} \cup {j}) /\ Cardinality({i} \cup {j}) = 1 + 1
    BY <2>1, FS_AddElement
  <2>3. {i, j} = {i} \cup {j}
    OBVIOUS
  <2> QED  BY <2>2, <2>3
<1>3. Cardinality(S) >= Cardinality({i, j}) /\ Cardinality(S) \in Nat
  BY <1>1, <1>2, FS_Subset, FS_CardinalityType
<1> QED  BY <1>2, <1>3

LEMMA ExcusesAreBroadcasts == TypeInv /\ HandshakeInv => HandshakeFailsByBroadcasts
<1> SUFFICES ASSUME TypeInv, HandshakeInv, NEW c \in Conns, ~ServerEnded(c)
             PROVE  /\ client[c] = "refused" => Broadcasting(c) # {}
                    /\ client[c] = "failed"  => Cardinality(Broadcasting(c)) > 1
  BY DEF HandshakeFailsByBroadcasts
<1>1. /\ client[c] \in {"refused", "awaitOK2"} => Disturbed(c)
      /\ client[c] = "failed" => DisturbedTwice(c)
  BY DEF HandshakeInv, Excuse
<1>2. rcvd[c] \in Nat /\ Len(outbox[c]) \in Nat /\ rcvd[c] <= Len(outbox[c])
  BY DEF HandshakeInv, Progress, TypeInv, TypeOK
<1>3. \A i \in 1..rcvd[c] : outbox[c][i].kind \in Broadcasts => i \in Broadcasting(c)
  BY <1>2 DEF Broadcasting
<1>4. Disturbed(c) => Broadcasting(c) # {}
  BY <1>3 DEF Disturbed
<1>5. DisturbedTwice(c) => Cardinality(Broadcasting(c)) > 1
  <2>1. SUFFICES ASSUME NEW i \in 1..rcvd[c], NEW j \in 1..rcvd[c], i < j,
                        {outbox[c][i].kind, outbox[c][j].kind} \subseteq Broadcasts
                 PROVE  Cardinality(Broadcasting(c)) > 1
    BY DEF DisturbedTwice
  <2>2. i \in Broadcasting(c) /\ j \in Broadcasting(c) /\ i # j
    BY <1>2, <1>3, <2>1
  <2>3. Broadcasting(c) \in SUBSET (1..Len(outbox[c]))
    BY DEF Broadcasting
  <2> QED  BY <1>2, <2>2, <2>3, TwoOfMany
<1> QED  BY <1>1, <1>4, <1>5

\* A client whose connection lasts is turned away from the chat, or gives the
\* handshake up, only after broadcasts that came in front of what it waited for:
\* one for the first answer, two for the second (client.cpp 95-128,
\* server.cpp 156-161, 203-209, 226).
THEOREM BroadcastsAreTheOnlyReason == ChatSession => []HandshakeFailsByBroadcasts
<1>1. ChatInv /\ HandshakeInv => HandshakeFailsByBroadcasts
  BY ExcusesAreBroadcasts DEF ChatInv
<1> QED  BY <1>1, HandshakeInvariant, PTL

LEMMA PromptsFollow == TypeInv /\ DialogueInv /\ HandshakeInv => PromptIsNamed
<1> SUFFICES ASSUME TypeInv, DialogueInv, HandshakeInv, NEW c \in Conns,
                    client[c] \in {"check", "line"}, ~ServerEnded(c)
             PROVE  (authenticated[c] /\ username[c] = c)
                      \/ (Unnamed(c) /\ \E i \in Broadcasting(c) : i <= rcvd[c])
  BY DEF PromptIsNamed
<1>1. CASE authenticated[c]
  BY <1>1 DEF DialogueInv, Answers
<1>2. CASE ~authenticated[c]
  <2>1. Named(inbox[c])
    BY <1>2 DEF DialogueInv, Unread, NameSent
  <2>2. Unnamed(c)
    BY <1>2, <2>1 DEF Unnamed, Named, TypeInv, TypeOK
  <2>3. PICK i \in 1..rcvd[c] : outbox[c][i].kind \in Broadcasts
    BY <1>2 DEF HandshakeInv, Excuse, Disturbed
  <2>4. rcvd[c] \in Nat /\ Len(outbox[c]) \in Nat /\ rcvd[c] <= Len(outbox[c])
    BY DEF HandshakeInv, Progress, TypeInv, TypeOK
  <2>5. i \in Broadcasting(c) /\ i <= rcvd[c]
    BY <2>3, <2>4 DEF Broadcasting
  <2> QED  BY <2>2, <2>5
<1> QED  BY <1>1, <1>2

\* A client that shows its prompt is known by the name its user chose, or has
\* been let in by a broadcast in front of USER_OK, and then its handler has yet to
\* read its USER_SET, before anything else (client.cpp 100-124, server.cpp 199-223).
THEOREM PromptsAreNamed == ChatSession => []PromptIsNamed
<1>1. ChatInv /\ HandshakeInv => PromptIsNamed
  BY PromptsFollow DEF ChatInv
<1> QED  BY <1>1, HandshakeInvariant, PTL

=============================================================================
