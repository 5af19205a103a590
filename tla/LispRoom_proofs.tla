-------------------------- MODULE LispRoom_proofs ---------------------------
(***************************************************************************)
(* One run of the server implements the chat room, for any number of       *)
(* connections, descriptors and commands.                                  *)
(***************************************************************************)
EXTENDS LispRoom, LispServer_proofs

-----------------------------------------------------------------------------
(* The inductive invariant.                                                *)

Utterances == [kind : Broadcasts, from : Conns, by : Conns]

\* The conversation is the broadcasts.
SaidType == said \in Seq(Utterances) /\ Len(said) = broadcasts

\* What a handler is about to say, and what it has said.
Speaker(h) ==
  /\ authenticated[h] => username[h] = h /\ source[h] = h
  /\ pc[h] = "respond" => response[h].id = 0
  /\ pc[h] \in {"lock", "sending"} =>
       response[h].kind \in Broadcasts /\ response[h].from = h /\ response[h].by = h
  /\ pc[h] \in {"naming", "lock"} => authenticated[h]
  /\ pc[h] = "sending" => broadcasts > 0 /\ response[h].id = broadcasts
  /\ R!Said(h, "joined") => authenticated[h]
  /\ authenticated[h] => \/ R!Said(h, "joined")
                         \/ pc[h] = "naming"
                         \/ pc[h] = "lock" /\ response[h].kind = "joined"
  /\ R!Said(h, "left") => \/ pc[h] = "done"
                          \/ pc[h] = "sending" /\ response[h].kind = "left"

\* The broadcast under way has been through the entries of descriptor f.
Passed(f) == \E i \in 1..Len(clientSockets) : i < pos /\ clientSockets[i] = f

\* What a connection has been shown.  One that is open and has been shown
\* anything has been shown the last broadcast, or the one before it while the
\* last one is on its way; and its own entrance if that is not on its way.
Hearer(c) ==
  /\ shown[c] \subseteq 1..broadcasts
  /\ pc[c] = "none" => shown[c] = {}
  /\ Serving(c) /\ peer[c] = "connected" /\ shown[c] # {} =>
       /\ clientSocket[c] \in Registered
       /\ IF clientMutex = Free \/ Passed(clientSocket[c])
            THEN broadcasts \in shown[c] ELSE broadcasts - 1 \in shown[c]
  /\ Serving(c) /\ peer[c] = "connected" /\ shown[c] = {} =>
       \A i \in 1..Len(said) : said[i] = R!Words("joined", c, c) =>
         i = broadcasts /\ clientMutex = c /\ ~Passed(clientSocket[c])

RoomInv == SaidType /\ \A c \in Conns : Speaker(c) /\ Hearer(c)

-----------------------------------------------------------------------------
(* The invariants of the server hold here, too: the history is not read.   *)

ServerInv == TypeInv /\ DescriptorInv /\ SessionInv /\ LockInv /\ RegisteredInv

LEMMA RoomIsSession == [RoomNext]_roomVars => [SessionNext]_vars
<1>1. ASSUME NEW h \in Conns, proc = "up", Broadcast(h) PROVE SessionNext
  BY <1>1 DEF Broadcast, SessionNext, ServerRuns, Handler
<1> QED
  BY <1>1 DEF RoomNext, roomVars

LEMMA ServerInvariant == RoomSpec => []ServerInv
<1>1. RoomInit => ServerInv
  BY InitType, ConnsAssumption DEF RoomInit, Init, ServerInv, DescriptorInv, NotAccepted,
     NoLeakedDescriptor, SessionInv, Own, Serving, ChatAttribution, LockInv,
     RegisteredInv, OpenIsRegistered, ClosedPart, ConnsAssumption
<1>2. ServerInv /\ [RoomNext]_roomVars => ServerInv'
  <2>1. [SessionNext]_vars => [Next]_vars
    BY DEF Next
  <2> QED
    BY <2>1, RoomIsSession, TypeStep, DescriptorStep, SessionStep, LockStep,
       RegisteredStep DEF ServerInv
<1> QED
  BY <1>1, <1>2, PTL DEF RoomSpec

-----------------------------------------------------------------------------
(* What a step says and shows.                                             *)

LEMMA NothingSaid ==
  ASSUME UNCHANGED said, NEW c, NEW kind
  PROVE  R!Said(c, kind)' <=> R!Said(c, kind)
BY DEF R!Said

LEMMA SomethingSaid ==
  ASSUME SaidType, NEW h \in Conns, NEW k \in Broadcasts,
         said' = Append(said, R!Words(k, h, h))
  PROVE  /\ said' \in Seq(Utterances) /\ Len(said') = Len(said) + 1
         /\ \A i \in 1..Len(said) : said'[i] = said[i]
         /\ said'[Len(said')] = R!Words(k, h, h)
         /\ \A c \in Conns, kind \in Broadcasts :
              R!Said(c, kind)' <=> R!Said(c, kind) \/ (c = h /\ kind = k)
<1>1. R!Words(k, h, h) \in Utterances
  BY DEF R!Words, Utterances
<1>2. /\ said' \in Seq(Utterances) /\ Len(said') = Len(said) + 1
      /\ \A i \in 1..Len(said) : said'[i] = said[i]
      /\ said'[Len(said')] = R!Words(k, h, h)
  BY <1>1 DEF SaidType
<1>3. \A c \in Conns, kind \in Broadcasts :
        R!Words(kind, c, c) = R!Words(k, h, h) <=> c = h /\ kind = k
  BY DEF R!Words
<1>4. ASSUME NEW c \in Conns, NEW kind \in Broadcasts
      PROVE  R!Said(c, kind)' <=> R!Said(c, kind) \/ (c = h /\ kind = k)
  <2>1. R!Said(c, kind)' <=> \E i \in 1..Len(said') : said'[i] = R!Words(kind, c, c)
    BY DEF R!Said, R!Words
  <2>2. Len(said) \in Nat /\ 1..Len(said') = 1..Len(said) \cup {Len(said')}
    BY <1>2 DEF SaidType
  <2> QED
    BY <1>2, <1>3, <2>1, <2>2 DEF R!Said
<1> QED
  BY <1>2, <1>4

LEMMA NothingShown ==
  ASSUME UNCHANGED outbox
  PROVE  UNCHANGED shown
BY DEF shown

LEMMA ShownType ==
  ASSUME TypeOK
  PROVE  shown \in [Conns -> SUBSET Nat]
<1>1. ASSUME NEW c \in Conns, NEW i \in 1..Len(outbox[c])
      PROVE  outbox[c][i].id \in Nat
  <2>1. outbox[c] \in Seq(Message)
    BY DEF TypeOK
  <2>2. outbox[c][i] \in Message
    BY <2>1
  <2> QED
    BY <2>2 DEF Message
<1> QED
  BY <1>1 DEF shown

LEMMA AppendedId ==
  ASSUME NEW q \in Seq(Message), NEW m \in Message, NEW r, r = Append(q, m)
  PROVE  {r[i].id : i \in 1..Len(r)} = {q[i].id : i \in 1..Len(q)} \cup {m.id}
<1>1. /\ Len(q) \in Nat /\ Len(r) = Len(q) + 1 /\ r[Len(q) + 1] = m
      /\ \A i \in 1..Len(q) : r[i] = q[i]
  OBVIOUS
<1>2. 1..Len(r) = 1..Len(q) \cup {Len(q) + 1}
  BY <1>1
<1>3. ASSUME NEW i \in 1..Len(r)
      PROVE  r[i].id \in {q[j].id : j \in 1..Len(q)} \cup {m.id}
  BY <1>1, <1>2
<1>4. ASSUME NEW i \in 1..Len(q)
      PROVE  q[i].id \in {r[j].id : j \in 1..Len(r)}
  <2>1. i \in 1..Len(r) /\ r[i].id = q[i].id
    BY <1>1
  <2> QED
    BY <2>1, Zenon
<1>5. m.id \in {r[j].id : j \in 1..Len(r)}
  <2>1. Len(q) + 1 \in 1..Len(r) /\ r[Len(q) + 1].id = m.id
    BY <1>1
  <2> QED
    BY <2>1, Zenon
<1> QED
  BY <1>3, <1>4, <1>5

LEMMA SendShows ==
  ASSUME TypeOK, NEW f \in FDs, NEW m \in Message, SendOk(f, m)
  PROVE  LET c == fdTable[f] IN
         /\ c \in Conns
         /\ \/ /\ peer[c] = "connected" /\ UNCHANGED peer
               /\ shown' = [shown EXCEPT ![c] = @ \cup ({m.id} \ {0})]
            \/ /\ peer' = [peer EXCEPT ![c] = "reset"]
               /\ UNCHANGED shown
<1> DEFINE c == fdTable[f]
<1>1. c \in Conns
  BY DEF SendOk, TypeOK
<1>2. CASE UNCHANGED outbox /\ peer' = [peer EXCEPT ![c] = "reset"]
  BY <1>1, <1>2, NothingShown
<1>3. CASE /\ peer[c] = "connected" /\ UNCHANGED peer
           /\ outbox' = [outbox EXCEPT ![c] = Append(@, m)]
  <2>1. ASSUME NEW d \in Conns, d # c PROVE shown'[d] = shown[d]
    BY <1>3, <2>1 DEF shown, TypeOK
  <2>2. shown'[c] = shown[c] \cup ({m.id} \ {0})
    <3>1. outbox[c] \in Seq(Message) /\ outbox'[c] = Append(outbox[c], m)
      BY <1>1, <1>3 DEF TypeOK
    <3>2. {outbox'[c][i].id : i \in 1..Len(outbox'[c])}
            = {outbox[c][i].id : i \in 1..Len(outbox[c])} \cup {m.id}
      BY <3>1, AppendedId
    <3> QED
      BY <1>1, <3>2 DEF shown
  <2> QED
    BY <1>1, <1>3, <2>1, <2>2 DEF shown
<1> QED
  BY <1>1, <1>2, <1>3 DEF SendOk

\* The steps of the room: a broadcast begins, or nothing is said.
LEMMA RoomSteps ==
  ASSUME TypeOK, RoomNext
  PROVE  \/ \E h \in Conns : Broadcast(h)
         \/ /\ UNCHANGED <<said, broadcasts>>
            /\ \/ Start \/ Acceptor \/ Peers \/ BrokenPipe \/ UsernamesRace
               \/ \E h \in Conns : Handler(h) /\ ~BroadcastLock(h)
<1>1. ASSUME NEW h \in Conns, BroadcastLock(h), UNCHANGED broadcasts PROVE FALSE
  BY <1>1 DEF BroadcastLock, TypeOK
<1> QED
  BY <1>1 DEF RoomNext, SessionNext, ServerRuns

-----------------------------------------------------------------------------
(* The speakers.                                                           *)

LEMMA SpeakerFrame ==
  ASSUME NEW g \in Conns, Speaker(g), UNCHANGED <<said, broadcasts>>,
         pc'[g] = pc[g], authenticated'[g] = authenticated[g],
         username'[g] = username[g], source'[g] = source[g],
         response'[g] = response[g]
  PROVE  Speaker(g)'
BY NothingSaid DEF Speaker

LEMMA HandlerLocals ==
  ASSUME TypeOK, NEW h \in Conns, Handler(h), NEW g \in Conns, g # h
  PROVE  /\ pc'[g] = pc[g] /\ authenticated'[g] = authenticated[g]
         /\ username'[g] = username[g] /\ source'[g] = source[g]
         /\ response'[g] = response[g] /\ UNCHANGED clientSocket
BY DEF TypeOK, Handler, Register, Check, ReadCall, ReadEnd, Read, Dispatch,
       SetName, LookupName, BroadcastLock, BroadcastSend, BroadcastUnlock,
       Respond, Close, Goto, handlerVars

LEMMA SpeakerHandler ==
  ASSUME ServerInv, NEW h \in Conns, Speaker(h), Handler(h), ~BroadcastLock(h),
         UNCHANGED <<said, broadcasts>>
  PROVE  Speaker(h)'
<1>0. /\ Own(h) /\ TypeOK
      /\ \A kind : R!Said(h, kind)' <=> R!Said(h, kind)
  BY NothingSaid DEF ServerInv, SessionInv, TypeInv
<1> USE <1>0 DEF Own, TypeOK, Speaker, Goto, Serving, Broadcasts
<1>1. CASE Register(h)
  BY <1>1 DEF Register
<1>2. CASE Check(h) \/ ReadCall(h)
  BY <1>2 DEF Check, ReadCall
<1>3. CASE ReadEnd(h)
  BY <1>3 DEF ReadEnd
<1>4. CASE Read(h)
  BY <1>4 DEF Read, Dispatch, Reply
<1>5. CASE SetName(h)
  BY <1>5 DEF SetName, Announcement
<1>6. CASE LookupName(h)
  BY <1>6 DEF LookupName, Announcement
<1>7. CASE BroadcastSend(h)
  BY <1>7, SpeakerFrame DEF BroadcastSend, handlerVars
<1>8. CASE BroadcastUnlock(h)
  BY <1>8 DEF BroadcastUnlock, Reply, NoMessage
<1>9. CASE Respond(h)
  BY <1>9 DEF Respond
<1>10. CASE Close(h)
  BY <1>10 DEF Close, Announcement
<1> QED
  BY <1>1, <1>2, <1>3, <1>4, <1>5, <1>6, <1>7, <1>8, <1>9, <1>10 DEF Handler

LEMMA BroadcastSays ==
  ASSUME ServerInv, SaidType, NEW h \in Conns, Speaker(h), Broadcast(h)
  PROVE  /\ response[h].kind \in Broadcasts
         /\ said' = Append(said, R!Words(response[h].kind, h, h))
         /\ broadcasts \in Nat /\ broadcasts' = broadcasts + 1
         /\ pc'[h] = "sending"
         /\ response'[h].kind = response[h].kind /\ response'[h].id = broadcasts'
         /\ response'[h].from = h /\ response'[h].by = h
<1>1. response[h] \in Message /\ response \in [Conns -> Message] /\ broadcasts \in Nat
      /\ pc \in [Conns -> HandlerPC]
  BY DEF ServerInv, TypeInv, TypeOK
<1>2. /\ response'[h] = [response[h] EXCEPT !.id = broadcasts + 1]
      /\ pc[h] = "lock" /\ pc'[h] = "sending" /\ broadcasts' = broadcasts + 1
  BY <1>1 DEF Broadcast, BroadcastLock, Goto
<1>3. LET m == [response[h] EXCEPT !.id = broadcasts + 1] IN
      /\ m.kind = response[h].kind /\ m.from = response[h].from
      /\ m.by = response[h].by /\ m.id = broadcasts + 1
  BY <1>1 DEF Message
<1>4. response[h].kind \in Broadcasts /\ response[h].from = h /\ response[h].by = h
  BY <1>2 DEF Speaker
<1> QED
  BY <1>1, <1>2, <1>3, <1>4 DEF Broadcast

LEMMA SpeakerBroadcast ==
  ASSUME ServerInv, SaidType, NEW h \in Conns, Speaker(h), Broadcast(h),
         NEW g \in Conns, Speaker(g)
  PROVE  Speaker(g)'
<1>1. BroadcastLock(h) /\ TypeOK /\ clientMutex = Free /\ pc[h] = "lock"
  BY DEF Broadcast, BroadcastLock, ServerInv, TypeInv
<1>2. \A kind \in Broadcasts :
        R!Said(g, kind)' <=> R!Said(g, kind) \/ (g = h /\ kind = response[h].kind)
  BY BroadcastSays, SomethingSaid
<1>3. {"joined", "chat", "left"} = Broadcasts
  BY DEF Broadcasts
<1>4. CASE g = h
  <2>1. /\ authenticated'[h] = authenticated[h] /\ username'[h] = username[h]
        /\ source'[h] = source[h]
    BY <1>1 DEF BroadcastLock
  <2> QED
    BY <1>1, <1>2, <1>3, <1>4, <2>1, BroadcastSays DEF Speaker
<1>5. CASE g # h
  <2>1. /\ pc'[g] = pc[g] /\ authenticated'[g] = authenticated[g]
        /\ username'[g] = username[g] /\ source'[g] = source[g]
        /\ response'[g] = response[g]
    BY <1>1, <1>5, HandlerLocals DEF Handler
  <2>2. pc[g] # "sending"
    BY <1>1, ConnsAssumption DEF ServerInv, LockInv, ConnsAssumption
  <2> QED
    BY <1>2, <1>3, <1>5, <2>1, <2>2 DEF Speaker
<1> QED
  BY <1>4, <1>5

LEMMA SpeakerStep ==
  ASSUME ServerInv, RoomInv, [RoomNext]_roomVars, NEW g \in Conns
  PROVE  Speaker(g)'
<1>0. TypeOK /\ SaidType /\ (\A c \in Conns : Speaker(c))
  BY DEF ServerInv, TypeInv, RoomInv
<1>1. CASE UNCHANGED <<said, broadcasts, handlerVars>>
  BY <1>0, <1>1, SpeakerFrame DEF handlerVars
<1>2. ASSUME NEW h \in Conns, Broadcast(h) PROVE Speaker(g)'
  BY <1>0, <1>2, SpeakerBroadcast
<1>3. ASSUME NEW h \in Conns, Handler(h), ~BroadcastLock(h),
             UNCHANGED <<said, broadcasts>>
      PROVE  Speaker(g)'
  <2>1. CASE g = h
    BY <1>0, <1>3, <2>1, SpeakerHandler
  <2>2. CASE g # h
    BY <1>0, <1>3, <2>2, HandlerLocals, SpeakerFrame
  <2> QED
    BY <2>1, <2>2
<1>4. CASE Acceptor /\ UNCHANGED <<said, broadcasts>>
  <2>1. ASSUME NEW c \in Conns, peer[c] = "backlog", pc' = [pc EXCEPT ![c] = "start"],
               UNCHANGED <<source, authenticated, username, response>>
        PROVE  Speaker(g)'
    <3>1. CASE g = c
      <4>1. pc[c] = "none" /\ pc'[c] = "start"
        BY <1>0, <2>1 DEF ServerInv, DescriptorInv, NotAccepted, TypeOK
      <4>2. ~authenticated[c] /\ Speaker(c)
        BY <1>0, <4>1 DEF ServerInv, SessionInv, Own
      <4> QED
        BY <1>4, <2>1, <3>1, <4>1, <4>2, NothingSaid DEF Speaker
    <3>2. CASE g # c
      <4>1. pc'[g] = pc[g]
        BY <1>0, <2>1, <3>2 DEF TypeOK
      <4> QED
        BY <1>0, <1>4, <2>1, <4>1, SpeakerFrame
    <3> QED
      BY <3>1, <3>2
  <2> QED
    BY <1>1, <1>4, <2>1 DEF Acceptor, AcceptorRuns, RunSetup, RunCheck,
       RunSelectReady, RunSelectTimeout, RunSelectError, RunAccept, CloseListener
<1>5. CASE (Start \/ Peers \/ BrokenPipe \/ UsernamesRace) /\ UNCHANGED <<said, broadcasts>>
  BY <1>1, <1>5, PeerFrame, DeathFrame DEF Start, Unchanged4Peers
<1>6. CASE UNCHANGED roomVars
  BY <1>1, <1>6 DEF roomVars, vars
<1> QED
  BY <1>0, <1>2, <1>3, <1>4, <1>5, <1>6, RoomSteps

-----------------------------------------------------------------------------
(* The hearers.                                                            *)

LEMMA HearerFrame ==
  ASSUME NEW c \in Conns, Hearer(c), shown'[c] = shown[c],
         UNCHANGED <<said, broadcasts, lockVars, clientSockets>>,
         clientSocket'[c] = clientSocket[c],
         Serving(c)' => Serving(c),
         pc'[c] = "none" => pc[c] = "none",
         peer'[c] = "connected" => peer[c] = "connected"
  PROVE  Hearer(c)'
BY DEF Hearer, Passed, Registered, lockVars

LEMMA HearerStarted ==
  ASSUME ServerInv, NEW c \in Conns, Speaker(c), Hearer(c), Acceptor,
         UNCHANGED <<said, broadcasts>>
  PROVE  Hearer(c)'
<1>0. /\ TypeOK /\ UNCHANGED <<lockVars, sharedVars, outbox>>
      /\ UNCHANGED shown
  BY AcceptorFrame, NothingShown DEF ServerInv, TypeInv, Acceptor, AcceptorRuns,
     RunSetup, RunCheck, RunSelectReady, RunSelectTimeout, RunSelectError,
     RunAccept, CloseListener, netVars
<1>1. ASSUME NEW d \in Conns, NEW f \in FDs, peer[d] = "backlog",
             peer' = [peer EXCEPT ![d] = "connected"],
             pc' = [pc EXCEPT ![d] = "start"],
             clientSocket' = [clientSocket EXCEPT ![d] = f],
             UNCHANGED response
      PROVE  Hearer(c)'
  <2>1. CASE c # d
    <3>1. /\ pc'[c] = pc[c] /\ peer'[c] = peer[c] /\ clientSocket'[c] = clientSocket[c]
          /\ Serving(c)' <=> Serving(c)
      BY <1>0, <1>1, <2>1 DEF TypeOK, Serving
    <3> QED
      BY <1>0, <3>1, HearerFrame DEF sharedVars
  <2>2. CASE c = d
    <3>1. pc[c] = "none" /\ pc'[c] = "start" /\ ~authenticated[c]
      BY <1>0, <1>1, <2>2 DEF ServerInv, DescriptorInv, NotAccepted, SessionInv, Own, TypeOK
    <3>2. shown'[c] = {} /\ ~R!Said(c, "joined")'
      BY <1>0, <3>1, NothingSaid DEF Hearer, Speaker
    <3>3. \A i \in 1..Len(said') : said'[i] # R!Words("joined", c, c)
      BY <3>2 DEF R!Said, R!Words
    <3> QED
      BY <3>1, <3>2, <3>3 DEF Hearer
  <2> QED
    BY <2>1, <2>2
<1>2. CASE RunAccept /\ ~UNCHANGED pc
  BY <1>1, <1>2 DEF RunAccept, handlerVars
<1>3. CASE UNCHANGED pc
  <2>1. /\ UNCHANGED handlerVars
        /\ peer'[c] = "connected" => peer[c] = "connected"
    <3>1. CASE RunAccept
      <4>1. \A d \in Conns : peer[d] = "backlog" => pc[d] # "start"
        BY DEF ServerInv, DescriptorInv, NotAccepted
      <4> QED
        BY <1>0, <1>3, <3>1, <4>1 DEF RunAccept, TypeOK, netVars
    <3>2. CASE ~RunAccept
      BY <1>0, <3>2 DEF Acceptor, AcceptorRuns, RunSetup, RunCheck, RunSelectReady,
         RunSelectTimeout, RunSelectError, CloseListener, netVars, TypeOK
    <3> QED
      BY <3>1, <3>2
  <2> QED
    BY <1>0, <2>1, HearerFrame DEF handlerVars, Serving, sharedVars
<1>4. ~RunAccept => UNCHANGED pc
  BY DEF Acceptor, AcceptorRuns, RunSetup, RunCheck, RunSelectReady,
     RunSelectTimeout, RunSelectError, CloseListener, handlerVars
<1> QED
  BY <1>2, <1>3, <1>4

LEMMA HearerBroadcast ==
  ASSUME ServerInv, SaidType, NEW h \in Conns, Speaker(h), Broadcast(h),
         NEW c \in Conns, Hearer(c)
  PROVE  Hearer(c)'
<1>1. /\ BroadcastLock(h) /\ TypeOK /\ clientMutex = Free
      /\ clientMutex' = h /\ pos' = 1
      /\ UNCHANGED <<clientSockets, clientSocket, peer, outbox>>
  BY DEF Broadcast, BroadcastLock, ServerInv, TypeInv, sharedVars, netVars
<1>2. UNCHANGED shown
  BY <1>1, NothingShown
<1>3. /\ Serving(c)' <=> Serving(c)
      /\ pc'[c] = "none" => pc[c] = "none"
  <2>1. CASE c = h
    BY <1>1, <2>1, BroadcastSays DEF Serving, BroadcastLock
  <2>2. CASE c # h
    BY <1>1, <2>2, HandlerLocals DEF Serving, Handler
  <2> QED
    BY <2>1, <2>2
<1>4. ~Passed(clientSocket[c])' /\ Registered' = Registered
  BY <1>1 DEF Passed, Registered
<1>5. /\ broadcasts \in Nat /\ broadcasts' = broadcasts + 1
      /\ Len(said) = broadcasts /\ Len(said') = broadcasts'
      /\ \A i \in 1..Len(said) : said'[i] = said[i]
      /\ said'[Len(said')] = R!Words(response[h].kind, h, h)
  BY BroadcastSays, SomethingSaid DEF SaidType
<1>6. ASSUME Serving(c)', peer'[c] = "connected", shown'[c] = {},
             NEW i \in 1..Len(said'), said'[i] = R!Words("joined", c, c)
      PROVE  i = broadcasts' /\ c = h
  <2>1. i \notin 1..Len(said)
    BY <1>1, <1>2, <1>3, <1>5, <1>6, ConnsAssumption DEF Hearer, ConnsAssumption
  <2>2. i = Len(said')
    BY <1>5, <2>1
  <2> QED
    BY <1>5, <1>6, <2>2 DEF R!Words
<1>7. shown[c] \subseteq 1..broadcasts'
  BY <1>5 DEF Hearer
<1>8. ASSUME Serving(c)', peer'[c] = "connected", shown'[c] # {}
      PROVE  clientSocket[c] \in Registered /\ broadcasts' - 1 \in shown[c]
  BY <1>1, <1>2, <1>3, <1>5, <1>8 DEF Hearer
<1>9. pc'[c] = "none" => shown'[c] = {}
  BY <1>2, <1>3 DEF Hearer
<1>10. clientMutex' # Free
  BY <1>1, ConnsAssumption DEF ConnsAssumption
<1> QED
  BY <1>1, <1>2, <1>4, <1>6, <1>7, <1>8, <1>9, <1>10 DEF Hearer

\* A send() of a broadcast shows it to the connection that has the number, if
\* its peer is still there, and to no other.
LEMMA BroadcastShows ==
  ASSUME ServerInv, RoomInv, NEW h \in Conns, BroadcastSend(h), NEW c \in Conns
  PROVE  /\ broadcasts > 0 /\ clientMutex = h
         /\ peer'[c] = "connected" => peer[c] = "connected"
         /\ shown'[c] = shown[c]
            \/ /\ shown'[c] = shown[c] \cup {broadcasts}
               /\ Serving(c) /\ peer[c] = "connected"
               /\ clientSocket[c] = clientSockets[pos]
         /\ Serving(c) /\ peer'[c] = "connected" /\ clientSocket[c] = clientSockets[pos]
              => shown'[c] = shown[c] \cup {broadcasts}
<1> DEFINE f == clientSockets[pos]
<1>1. /\ TypeOK /\ f \in FDs /\ response[h] \in Message
      /\ SendOk(f, response[h]) \/ SendFails(f)
  BY DEF ServerInv, TypeInv, TypeOK, BroadcastSend
<1>2. /\ pc[h] = "sending" /\ clientMutex = h
      /\ broadcasts > 0 /\ broadcasts \in Nat /\ response[h].id = broadcasts
  BY <1>1 DEF BroadcastSend, ServerInv, LockInv, RoomInv, Speaker, TypeOK
<1>3. /\ fdTable[f] = c => Serving(c) /\ clientSocket[c] = f
      /\ Serving(c) /\ clientSocket[c] = f => fdTable[f] = c
  BY <1>1, ConnsAssumption DEF ServerInv, DescriptorInv, NoLeakedDescriptor,
     SessionInv, Own, ConnsAssumption
<1>4. CASE SendOk(f, response[h])
  <2>1. CASE /\ peer[fdTable[f]] = "connected" /\ UNCHANGED peer
             /\ shown' = [shown EXCEPT ![fdTable[f]] = @ \cup ({broadcasts} \ {0})]
    <3>1. {broadcasts} \ {0} = {broadcasts}
      BY <1>2
    <3>2. /\ fdTable[f] = c => shown'[c] = shown[c] \cup {broadcasts}
          /\ fdTable[f] # c => shown'[c] = shown[c]
      BY <2>1, <3>1 DEF shown
    <3> QED
      BY <1>2, <1>3, <2>1, <3>2
  <2>2. CASE peer' = [peer EXCEPT ![fdTable[f]] = "reset"] /\ UNCHANGED shown
    BY <1>1, <1>2, <1>3, <2>2 DEF TypeOK
  <2> QED
    BY <1>1, <1>2, <1>4, <2>1, <2>2, SendShows
<1>5. CASE SendFails(f)
  <2>1. UNCHANGED <<peer, shown>>
    BY <1>5, NothingShown DEF SendFails, netVars
  <2>2. fdTable[f] = c => peer[c] = "reset"
    BY <1>5, ConnsAssumption DEF SendFails, ConnsAssumption
  <2> QED
    BY <1>2, <1>3, <2>1, <2>2
<1> QED
  BY <1>1, <1>4, <1>5

LEMMA HearerSend ==
  ASSUME ServerInv, RoomInv, NEW h \in Conns, BroadcastSend(h), UNCHANGED said,
         NEW c \in Conns
  PROVE  Hearer(c)'
<1>1. /\ TypeOK /\ Hearer(c) /\ pos \in Nat \ {0} /\ pos' = pos + 1
      /\ pos \in 1..Len(clientSockets)
      /\ UNCHANGED <<clientMutex, clientSockets, handlerVars, broadcasts>>
  BY DEF ServerInv, TypeInv, TypeOK, RoomInv, BroadcastSend, sharedVars
<1>2. /\ Serving(c)' <=> Serving(c)
      /\ Registered' = Registered /\ UNCHANGED <<pc, clientSocket>>
  BY <1>1 DEF Serving, Registered, handlerVars
<1>3. /\ Passed(clientSocket[c])'
           <=> Passed(clientSocket[c]) \/ clientSocket[c] = clientSockets[pos]
  <2>1. \A i \in 1..Len(clientSockets) : i < pos + 1 <=> i < pos \/ i = pos
    BY <1>1
  <2> QED
    BY <1>1, <1>2, <2>1 DEF Passed
<1>4. broadcasts \in Nat /\ broadcasts \in 1..broadcasts /\ clientMutex # Free
  BY <1>1, BroadcastShows, ConnsAssumption DEF TypeOK, ConnsAssumption
<1>5. shown'[c] \subseteq 1..broadcasts
  BY <1>1, <1>4, BroadcastShows DEF Hearer
<1>6. pc[c] = "none" => shown'[c] = {}
  BY <1>1, BroadcastShows DEF Hearer, Serving
<1>7. CASE Serving(c) /\ peer'[c] = "connected" /\ clientSocket[c] = clientSockets[pos]
  <2>1. broadcasts \in shown'[c]
    BY <1>7, BroadcastShows
  <2>2. clientSocket[c] \in Registered
    BY <1>1, <1>7 DEF Registered
  <2> QED
    BY <1>1, <1>2, <1>3, <1>5, <1>6, <1>7, <2>1, <2>2 DEF Hearer
<1>8. CASE Serving(c) /\ peer'[c] = "connected" /\ clientSocket[c] # clientSockets[pos]
  <2>1. shown'[c] = shown[c] /\ peer[c] = "connected"
    BY <1>8, BroadcastShows
  <2> QED
    BY <1>1, <1>2, <1>3, <1>5, <1>6, <1>8, <2>1 DEF Hearer
<1>9. CASE ~(Serving(c) /\ peer'[c] = "connected")
  BY <1>1, <1>2, <1>5, <1>6, <1>9 DEF Hearer
<1> QED
  BY <1>7, <1>8, <1>9

LEMMA HearerUnlock ==
  ASSUME ServerInv, RoomInv, NEW h \in Conns, BroadcastUnlock(h), UNCHANGED said,
         NEW c \in Conns
  PROVE  Hearer(c)'
<1>1. /\ TypeInv /\ TypeOK /\ Hearer(c) /\ Speaker(h) /\ pc[h] = "sending"
      /\ clientMutex = h /\ clientMutex' = Free /\ pos > Len(clientSockets)
      /\ UNCHANGED <<clientSockets, clientSocket, broadcasts, outbox, peer>>
  BY DEF ServerInv, TypeInv, RoomInv, LockInv, BroadcastUnlock, sharedVars, netVars
<1>2. UNCHANGED shown /\ Registered' = Registered
  BY <1>1, NothingShown DEF Registered
<1>3. /\ Serving(c)' => Serving(c)
      /\ pc'[c] = "none" => pc[c] = "none"
  <2>1. CASE c = h
    BY <1>1, <2>1 DEF BroadcastUnlock, Serving, Goto, TypeOK
  <2>2. CASE c # h
    BY <1>1, <2>2, HandlerLocals DEF Serving, Handler
  <2> QED
    BY <2>1, <2>2
<1>4. ASSUME clientSocket[c] \in Registered PROVE Passed(clientSocket[c])
  <2>1. pos \in Nat /\ Len(clientSockets) \in Nat
    BY <1>1 DEF TypeOK
  <2> QED
    BY <1>1, <1>4, <2>1 DEF Registered, Passed
<1>5. clientMutex = c /\ Serving(c) => Passed(clientSocket[c])
  BY <1>1, <1>4 DEF ServerInv, SessionInv, Own, RegisteredInv, OpenIsRegistered
<1> QED
  BY <1>1, <1>2, <1>3, <1>4, <1>5 DEF Hearer

\* The reply to a command is no part of the conversation.
LEMMA RespondShows ==
  ASSUME ServerInv, RoomInv, NEW h \in Conns, Respond(h)
  PROVE  /\ UNCHANGED shown
         /\ \A c \in Conns : peer'[c] = "connected" => peer[c] = "connected"
<1>1. /\ TypeOK /\ clientSocket[h] \in FDs
      /\ response[h] \in Message /\ response[h].id = 0
  BY DEF ServerInv, TypeInv, TypeOK, HandlerHasFD, RoomInv, Speaker, Respond
<1>2. CASE SendOk(clientSocket[h], response[h])
  <2>1. CASE /\ UNCHANGED peer
             /\ shown' = [shown EXCEPT ![fdTable[clientSocket[h]]] =
                            @ \cup ({response[h].id} \ {0})]
    <3>1. shown \in [Conns -> SUBSET Nat]
      BY <1>1, ShownType
    <3>2. \A d \in Conns : shown[d] \cup ({response[h].id} \ {0}) = shown[d]
      BY <1>1
    <3> HIDE DEF shown
    <3> QED
      BY <2>1, <3>1, <3>2
  <2>2. CASE peer' = [peer EXCEPT ![fdTable[clientSocket[h]]] = "reset"] /\ UNCHANGED shown
    BY <1>1, <2>2 DEF TypeOK
  <2> QED
    BY <1>1, <1>2, <2>1, <2>2, SendShows
<1>3. CASE SendFails(clientSocket[h])
  BY <1>3, NothingShown DEF SendFails, netVars
<1> QED
  BY <1>2, <1>3 DEF Respond

LEMMA HearerHandler ==
  ASSUME ServerInv, RoomInv, NEW h \in Conns, Handler(h), ~BroadcastLock(h),
         UNCHANGED <<said, broadcasts>>, NEW c \in Conns
  PROVE  Hearer(c)'
<1>0. TypeOK /\ Hearer(c) /\ Speaker(h) /\ clientSocket[h] \in FDs
  BY HandlerFrame DEF ServerInv, TypeInv, HandlerHasFD, RoomInv
<1>1. CASE Register(h)
  <2>1. /\ clientMutex = Free /\ UNCHANGED <<lockVars, clientSocket, peer, shown>>
        /\ clientSockets' = Append(clientSockets, clientSocket[h])
    BY <1>1, NothingShown DEF Register, netVars
  <2>2. Registered \subseteq Registered'
    <3>1. /\ clientSockets \in Seq(FDs) /\ Len(clientSockets) \in Nat
          /\ Len(clientSockets') = Len(clientSockets) + 1
          /\ \A i \in 1..Len(clientSockets) : clientSockets'[i] = clientSockets[i]
      BY <1>0, <2>1 DEF TypeOK
    <3> QED
      BY <3>1 DEF Registered
  <2>3. (Serving(c)' => Serving(c)) /\ (pc'[c] = "none" => pc[c] = "none")
    BY <1>0, <1>1 DEF Register, Goto, Serving, TypeOK
  <2> QED
    BY <1>0, <2>1, <2>2, <2>3, ConnsAssumption DEF Hearer, lockVars, ConnsAssumption
<1>2. CASE BroadcastSend(h)
  BY <1>2, HearerSend
<1>3. CASE BroadcastUnlock(h)
  BY <1>3, HearerUnlock
<1>4. CASE Respond(h)
  <2>2. UNCHANGED shown /\ (peer'[c] = "connected" => peer[c] = "connected")
    BY <1>4, RespondShows
  <2>3. (Serving(c)' => Serving(c)) /\ (pc'[c] = "none" => pc[c] = "none")
    BY <1>0, <1>4 DEF Respond, Goto, Serving, TypeOK
  <2> QED
    BY <1>0, <1>4, <2>2, <2>3, HearerFrame DEF Respond, sharedVars
<1>5. CASE Check(h) \/ ReadCall(h) \/ ReadEnd(h) \/ Read(h) \/ SetName(h) \/ LookupName(h)
         \/ Close(h)
  <2>1. UNCHANGED <<lockVars, clientSockets, clientSocket, peer, shown>>
    BY <1>5, NothingShown DEF Check, ReadCall, ReadEnd, Read, SetName, LookupName, Close,
       sharedVars, netVars
  <2>2. (Serving(c)' => Serving(c)) /\ (pc'[c] = "none" => pc[c] = "none")
    <3>1. CASE c = h
      BY <1>0, <1>5, <3>1 DEF Check, ReadCall, ReadEnd, Read, Dispatch, SetName, LookupName,
         Close, Goto, Serving, Announcement, TypeOK
    <3>2. CASE c # h
      BY <1>0, <3>2, HandlerLocals DEF Serving
    <3> QED
      BY <3>1, <3>2
  <2> QED
    BY <1>0, <2>1, <2>2, HearerFrame
<1> QED
  BY <1>1, <1>2, <1>3, <1>4, <1>5 DEF Handler

LEMMA HearerStep ==
  ASSUME ServerInv, RoomInv, [RoomNext]_roomVars, NEW c \in Conns
  PROVE  Hearer(c)'
<1>0. TypeOK /\ Hearer(c) /\ Speaker(c)
  BY DEF ServerInv, TypeInv, RoomInv
<1>1. ASSUME UNCHANGED <<said, broadcasts, lockVars, clientSockets, handlerVars, outbox>>,
             peer'[c] = "connected" => peer[c] = "connected"
      PROVE  Hearer(c)'
  BY <1>0, <1>1, NothingShown, HearerFrame DEF handlerVars, Serving
<1>2. ASSUME NEW h \in Conns, Broadcast(h) PROVE Hearer(c)'
  BY <1>2, HearerBroadcast DEF RoomInv
<1>3. ASSUME NEW h \in Conns, Handler(h), ~BroadcastLock(h),
             UNCHANGED <<said, broadcasts>>
      PROVE  Hearer(c)'
  BY <1>3, HearerHandler
<1>4. CASE Acceptor /\ UNCHANGED <<said, broadcasts>>
  BY <1>0, <1>4, HearerStarted
<1>5. CASE (Start \/ BrokenPipe \/ UsernamesRace) /\ UNCHANGED <<said, broadcasts>>
  BY <1>1, <1>5, DeathFrame DEF Start, sharedVars, netVars
<1>6. CASE Peers /\ UNCHANGED <<said, broadcasts>>
  BY <1>0, <1>1, <1>6, PeerFrame DEF Peers, PeerConnect, PeerSend, PeerRead,
     PeerClose, Unchanged4Peers, sharedVars, TypeOK
<1>7. CASE UNCHANGED roomVars
  BY <1>1, <1>7 DEF roomVars, vars, sharedVars, netVars
<1> QED
  BY <1>0, <1>2, <1>3, <1>4, <1>5, <1>6, <1>7, RoomSteps

-----------------------------------------------------------------------------
(* The invariant, and the steps of the room.                               *)

LEMMA RoomBegins == RoomInit => RoomInv
<1> SUFFICES ASSUME RoomInit PROVE RoomInv
  OBVIOUS
<1>1. /\ said = <<>> /\ broadcasts = 0 /\ clientSockets = <<>>
      /\ pc = [c \in Conns |-> "none"] /\ authenticated = [c \in Conns |-> FALSE]
      /\ peer = [c \in Conns |-> "none"] /\ outbox = [c \in Conns |-> <<>>]
  BY DEF RoomInit, Init
<1>2. SaidType
  BY <1>1 DEF SaidType
<1>3. ASSUME NEW c \in Conns PROVE Speaker(c) /\ Hearer(c)
  <2>1. \A kind : ~R!Said(c, kind)
    BY <1>1 DEF R!Said
  <2>2. shown[c] = {}
    BY <1>1 DEF shown
  <2> QED
    BY <1>1, <2>1, <2>2 DEF Speaker, Hearer, Serving
<1> QED
  BY <1>2, <1>3 DEF RoomInv

LEMMA SaidStep ==
  ASSUME ServerInv, RoomInv, [RoomNext]_roomVars
  PROVE  SaidType'
<1>0. TypeOK /\ SaidType
  BY DEF ServerInv, TypeInv, RoomInv
<1>1. CASE UNCHANGED <<said, broadcasts>>
  BY <1>0, <1>1 DEF SaidType
<1>2. ASSUME NEW h \in Conns, Broadcast(h) PROVE SaidType'
  BY <1>0, <1>2, BroadcastSays, SomethingSaid DEF SaidType, RoomInv
<1> QED
  BY <1>0, <1>1, <1>2, RoomSteps DEF roomVars, vars

LEMMA RoomInvariant == RoomSpec => [](ServerInv /\ RoomInv)
<1>1. ServerInv /\ RoomInv /\ [RoomNext]_roomVars => RoomInv'
  BY SaidStep, SpeakerStep, HearerStep DEF RoomInv
<1> QED
  BY <1>1, RoomBegins, ServerInvariant, PTL DEF RoomSpec

\* The lock of a broadcast is where its author enters, talks or leaves.
LEMMA BroadcastIsSaying ==
  ASSUME ServerInv, RoomInv, NEW h \in Conns, Broadcast(h)
  PROVE  R!Next
<1>1. /\ BroadcastLock(h) /\ Speaker(h) /\ pc[h] = "lock" /\ UNCHANGED outbox
  BY DEF Broadcast, BroadcastLock, RoomInv, netVars
<1>2. UNCHANGED shown
  BY <1>1, NothingShown
<1>3. ~R!Said(h, "left") /\ (response[h].kind # "joined" => R!Said(h, "joined"))
  BY <1>1 DEF Speaker
<1>4. R!Says(h, response[h].kind)
  BY <1>2, BroadcastSays DEF R!Says, RoomInv
<1>5. response[h].kind \in {"joined", "chat", "left"}
  BY BroadcastSays DEF Broadcasts, RoomInv
<1> QED
  BY <1>3, <1>4, <1>5 DEF R!Next, R!Enter, R!Talk, R!Leave, R!Member

\* The send() of a broadcast shows its receiver the next thing said, or what it
\* has been shown before.
LEMMA SendIsShowing ==
  ASSUME ServerInv, RoomInv, NEW h \in Conns, BroadcastSend(h), UNCHANGED said
  PROVE  R!Next \/ UNCHANGED <<said, shown>>
<1>0. TypeOK
  BY DEF ServerInv, TypeInv
<1>1. CASE \E c \in Conns : shown'[c] # shown[c]
  <2>0. PICK c \in Conns : shown'[c] # shown[c]
    BY <1>1
  <2>1. /\ Serving(c) /\ peer[c] = "connected" /\ clientMutex = h
        /\ shown'[c] = shown[c] \cup {broadcasts} /\ broadcasts \notin shown[c]
        /\ broadcasts > 0 /\ broadcasts \in Nat
    <3>1. broadcasts > 0 /\ clientMutex = h
      BY BroadcastShows
    <3>2. /\ shown'[c] = shown[c] \cup {broadcasts}
          /\ Serving(c) /\ peer[c] = "connected"
      BY <2>0, BroadcastShows
    <3>3. broadcasts \notin shown[c]
      BY <2>0, <3>2
    <3>4. broadcasts \in Nat
      BY <1>0 DEF TypeOK
    <3> QED
      BY <3>1, <3>2, <3>3, <3>4
  <2>2. ~R!Said(c, "left")
    BY <2>1 DEF RoomInv, Speaker, Serving
  <2>3. broadcasts \in 1..Len(said)
    BY <2>1 DEF RoomInv, SaidType
  <2>4. IF shown[c] = {} THEN R!FirstShown(c, broadcasts) ELSE broadcasts - 1 \in shown[c]
    BY <2>1, ConnsAssumption DEF RoomInv, Hearer, R!FirstShown, R!Words, ConnsAssumption
  <2>5. shown' = [shown EXCEPT ![c] = @ \cup {broadcasts}]
    <3>1. ASSUME NEW d \in Conns, d # c PROVE shown'[d] = shown[d]
      <4>1. Serving(d) => clientSocket[d] # clientSocket[c]
        BY <2>1, <3>1, NumbersDiffer DEF ServerInv
      <4> QED
        BY <2>1, <4>1, BroadcastShows
    <3> QED
      BY <2>1, <3>1 DEF shown
  <2>6. R!Show(c)
    BY <2>2, <2>3, <2>4, <2>5 DEF R!Show
  <2> QED
    BY <2>6 DEF R!Next
<1>2. CASE \A c \in Conns : shown'[c] = shown[c]
  BY <1>2 DEF shown
<1> QED
  BY <1>1, <1>2

LEMMA RoomStep ==
  ASSUME ServerInv, RoomInv, [RoomNext]_roomVars
  PROVE  [R!Next]_<<said, shown>>
<1>0. TypeOK
  BY DEF ServerInv, TypeInv
<1>1. CASE UNCHANGED <<said, outbox>>
  BY <1>1, NothingShown
<1>2. ASSUME NEW h \in Conns, Handler(h), ~BroadcastLock(h), UNCHANGED said
      PROVE  R!Next \/ UNCHANGED <<said, shown>>
  <2>1. CASE BroadcastSend(h)
    BY <1>2, <2>1, SendIsShowing
  <2>2. CASE Respond(h)
    BY <1>2, <2>2, RespondShows
  <2>3. CASE ~BroadcastSend(h) /\ ~Respond(h)
    BY <1>1, <1>2, <2>3 DEF Handler, Register, Check, ReadCall, ReadEnd, Read, SetName,
       LookupName, BroadcastUnlock, Close, netVars
  <2> QED
    BY <2>1, <2>2, <2>3
<1>3. CASE (Start \/ Acceptor \/ BrokenPipe \/ UsernamesRace) /\ UNCHANGED said
  BY <1>1, <1>3, DeathFrame DEF Start, Acceptor, AcceptorRuns, RunSetup, RunCheck,
     RunSelectReady, RunSelectTimeout, RunSelectError, RunAccept, CloseListener, netVars
<1>4. CASE Peers /\ UNCHANGED said
  BY <1>1, <1>4 DEF Peers, PeerConnect, PeerSend, PeerRead, PeerClose
<1>5. CASE UNCHANGED roomVars
  BY <1>1, <1>5 DEF roomVars, vars, netVars
<1> QED
  BY <1>0, <1>2, <1>3, <1>4, <1>5, RoomSteps, BroadcastIsSaying

\* One run of the server is a chat room, for any number of connections,
\* descriptors and commands: nobody speaks under another's name, before the own
\* "has joined" or after the own "has left", and nobody is shown the
\* conversation with a gap or in another order, although the handlers use the
\* map of names without the lock and numbers stay registered after their
\* close() (server.cpp 156-174, 182-237).
THEOREM RoomIsImplemented == RoomSpec => ImplementsRoom
<1>1. RoomInit => R!Init
  <2>1. ASSUME RoomInit PROVE shown = [c \in Conns |-> {}]
    BY <2>1 DEF RoomInit, Init, shown
  <2> QED
    BY <2>1 DEF R!Init, RoomInit
<1>2. ServerInv /\ RoomInv /\ [RoomNext]_roomVars => [R!Next]_<<said, shown>>
  BY RoomStep
<1> QED
  BY <1>1, <1>2, RoomInvariant, PTL DEF RoomSpec, ImplementsRoom, R!Spec

-----------------------------------------------------------------------------
(* The order of what is sent.  OrderedDelivery follows from Hearer and from *)
(* the order of the broadcasts on each connection, which the invariant adds. *)

Sorted(q) == \A i, j \in 1..Len(q) : i < j /\ q[i].id # 0 /\ q[j].id # 0 => q[i].id <= q[j].id

Gapless(q) ==
  \A i, j \in 1..Len(q) :
    /\ i < j /\ q[i].id # 0 /\ q[j].id # 0
    /\ \A k \in i+1..j-1 : q[k].id = 0
    => q[j].id \in {q[i].id, q[i].id + 1}

OrderInv == \A c \in Conns : Sorted(outbox[c]) /\ Gapless(outbox[c])

LEMMA AppendReply ==
  ASSUME NEW q \in Seq(Message), NEW m \in Message, NEW r, r = Append(q, m),
         Sorted(q), Gapless(q), m.id = 0
  PROVE  Sorted(r) /\ Gapless(r)
<1>1. /\ Len(q) \in Nat /\ Len(r) = Len(q) + 1 /\ r[Len(q) + 1] = m
      /\ \A i \in 1..Len(q) : r[i] = q[i]
  OBVIOUS
<1>2. \A i \in 1..Len(r) : r[i].id # 0 => i \in 1..Len(q) /\ r[i] = q[i]
  BY <1>1
<1>3. Sorted(r)
  <2> SUFFICES ASSUME NEW i \in 1..Len(r), NEW j \in 1..Len(r), i < j,
                      r[i].id # 0, r[j].id # 0
               PROVE  r[i].id <= r[j].id
    BY DEF Sorted
  <2>1. i \in 1..Len(q) /\ j \in 1..Len(q) /\ r[i] = q[i] /\ r[j] = q[j]
    BY <1>2
  <2> QED
    BY <2>1 DEF Sorted
<1>4. Gapless(r)
  <2> SUFFICES ASSUME NEW i \in 1..Len(r), NEW j \in 1..Len(r), i < j,
                      r[i].id # 0, r[j].id # 0, \A k \in i+1..j-1 : r[k].id = 0
               PROVE  r[j].id \in {r[i].id, r[i].id + 1}
    BY DEF Gapless
  <2>1. i \in 1..Len(q) /\ j \in 1..Len(q) /\ r[i] = q[i] /\ r[j] = q[j]
    BY <1>2
  <2>2. \A k \in i+1..j-1 : q[k].id = 0
    BY <1>1, <2>1
  <2> QED
    BY <2>1, <2>2 DEF Gapless
<1> QED
  BY <1>3, <1>4

LEMMA AppendBroadcast ==
  ASSUME NEW q \in Seq(Message), NEW m \in Message, NEW r, r = Append(q, m),
         Sorted(q), Gapless(q), NEW b \in Nat \ {0}, m.id = b,
         \A i \in 1..Len(q) : q[i].id <= b,
         \/ \A i \in 1..Len(q) : q[i].id = 0
         \/ \E i \in 1..Len(q) : q[i].id \in {b - 1, b} /\ q[i].id # 0
  PROVE  Sorted(r) /\ Gapless(r)
<1>1. /\ Len(q) \in Nat /\ Len(r) = Len(q) + 1 /\ r[Len(q) + 1] = m
      /\ \A i \in 1..Len(q) : r[i] = q[i]
  OBVIOUS
<1>2. \A i \in 1..Len(r) : i \in 1..Len(q) \/ i = Len(q) + 1
  BY <1>1
<1>3. Sorted(r)
  <2> SUFFICES ASSUME NEW i \in 1..Len(r), NEW j \in 1..Len(r), i < j,
                      r[i].id # 0, r[j].id # 0
               PROVE  r[i].id <= r[j].id
    BY DEF Sorted
  <2>1. i \in 1..Len(q)
    BY <1>1
  <2>2. CASE j \in 1..Len(q)
    BY <1>1, <2>1, <2>2 DEF Sorted
  <2>3. CASE j = Len(q) + 1
    BY <1>1, <2>1, <2>3
  <2> QED
    BY <1>2, <2>2, <2>3
<1>4. Gapless(r)
  <2> SUFFICES ASSUME NEW i \in 1..Len(r), NEW j \in 1..Len(r), i < j,
                      r[i].id # 0, r[j].id # 0, \A k \in i+1..j-1 : r[k].id = 0
               PROVE  r[j].id \in {r[i].id, r[i].id + 1}
    BY DEF Gapless
  <2>1. i \in 1..Len(q) /\ r[i] = q[i]
    BY <1>1
  <2>2. CASE j \in 1..Len(q)
    <3>1. \A k \in i+1..j-1 : q[k].id = 0
      BY <1>1, <2>2
    <3> QED
      BY <1>1, <2>1, <2>2, <3>1 DEF Gapless
  <2>3. CASE j = Len(q) + 1
    <3>1. PICK k \in 1..Len(q) : q[k].id \in {b - 1, b} /\ q[k].id # 0
      BY <2>1
    <3>2. k <= i
      <4>1. k \in i+1..j-1 => r[k].id = 0
        OBVIOUS
      <4> QED
        BY <1>1, <2>1, <2>3, <3>1, <4>1
    <3>3. q[i] \in Message /\ q[k] \in Message
      BY <2>1
    <3>4. q[k].id <= q[i].id /\ q[i].id <= b /\ q[i].id \in Nat
      <4>1. q[i].id \in Nat
        BY <3>3 DEF Message
      <4>2. CASE k = i
        BY <2>1, <4>1, <4>2
      <4>3. CASE k < i
        BY <2>1, <3>1, <4>1, <4>3 DEF Sorted
      <4> QED
        BY <2>1, <3>2, <4>2, <4>3
    <3>5. q[i].id \in {b - 1, b}
      BY <3>1, <3>4
    <3> QED
      BY <1>1, <2>1, <2>3, <3>5
  <2> QED
    BY <1>2, <2>2, <2>3
<1> QED
  BY <1>3, <1>4

LEMMA OrderSend ==
  ASSUME TypeOK, OrderInv, NEW f \in FDs, NEW m \in Message, SendOk(f, m),
         \A r : r = Append(outbox[fdTable[f]], m) /\ peer[fdTable[f]] = "connected"
                  => Sorted(r) /\ Gapless(r)
  PROVE  OrderInv'
<1> DEFINE d == fdTable[f]
<1>1. d \in Conns
  BY DEF SendOk, TypeOK
<1>2. CASE UNCHANGED outbox
  BY <1>2 DEF OrderInv
<1>3. CASE peer[d] = "connected" /\ outbox' = [outbox EXCEPT ![d] = Append(@, m)]
  <2>1. ASSUME NEW c \in Conns, c # d PROVE outbox'[c] = outbox[c]
    BY <1>3, <2>1 DEF TypeOK
  <2>2. outbox'[d] = Append(outbox[d], m)
    BY <1>1, <1>3 DEF TypeOK
  <2>3. Sorted(outbox'[d]) /\ Gapless(outbox'[d])
    BY <1>3, <2>2
  <2>4. ASSUME NEW c \in Conns PROVE Sorted(outbox'[c]) /\ Gapless(outbox'[c])
    BY <2>1, <2>3 DEF OrderInv
  <2> QED
    BY <2>4 DEF OrderInv, Sorted, Gapless
<1> QED
  BY <1>2, <1>3 DEF SendOk

LEMMA OrderStep ==
  ASSUME ServerInv, RoomInv, OrderInv, [RoomNext]_roomVars
  PROVE  OrderInv'
<1>0. TypeOK
  BY DEF ServerInv, TypeInv
<1>1. CASE UNCHANGED outbox
  BY <1>1 DEF OrderInv
<1>2. ASSUME NEW h \in Conns, Respond(h) PROVE OrderInv'
  <2>1. /\ clientSocket[h] \in FDs /\ response[h] \in Message /\ response[h].id = 0
    BY <1>2 DEF ServerInv, TypeInv, TypeOK, HandlerHasFD, RoomInv, Speaker, Respond
  <2>2. CASE SendOk(clientSocket[h], response[h])
    <3> DEFINE d == fdTable[clientSocket[h]]
    <3>1. /\ d \in Conns /\ outbox[d] \in Seq(Message)
          /\ Sorted(outbox[d]) /\ Gapless(outbox[d])
      <4>1. d \in Conns
        BY <1>0, <2>1, <2>2 DEF SendOk, TypeOK
      <4> QED
        BY <1>0, <4>1 DEF TypeOK, OrderInv
    <3>2. \A r : r = Append(outbox[d], response[h]) => Sorted(r) /\ Gapless(r)
      BY <2>1, <3>1, AppendReply
    <3> QED
      BY <1>0, <2>1, <2>2, <3>2, OrderSend
  <2> QED
    BY <1>1, <1>2, <2>2 DEF Respond, SendFails, netVars
<1>3. ASSUME NEW h \in Conns, BroadcastSend(h) PROVE OrderInv'
  <2> DEFINE f == clientSockets[pos]
             d == fdTable[f]
  <2>1. /\ f \in FDs /\ response[h] \in Message
        /\ broadcasts \in Nat \ {0} /\ response[h].id = broadcasts /\ clientMutex # Free
    BY <1>3, ConnsAssumption DEF ServerInv, TypeInv, TypeOK, LockInv, BroadcastSend, RoomInv,
       Speaker, ConnsAssumption
  <2>2. CASE SendOk(f, response[h])
    <3>1. /\ d \in Conns /\ outbox[d] \in Seq(Message)
          /\ Sorted(outbox[d]) /\ Gapless(outbox[d])
      <4>1. d \in Conns
        BY <1>0, <2>1, <2>2 DEF SendOk, TypeOK
      <4> QED
        BY <1>0, <4>1 DEF TypeOK, OrderInv
    <3>2. Serving(d)
      BY <2>1, <3>1, ConnsAssumption DEF ServerInv, DescriptorInv, NoLeakedDescriptor,
         ConnsAssumption
    <3>3. /\ shown[d] = {outbox[d][i].id : i \in 1..Len(outbox[d])} \ {0}
          /\ Hearer(d)
      BY <3>1 DEF shown, RoomInv
    <3> HIDE DEF d, f
    <3>4. \A i \in 1..Len(outbox[d]) : outbox[d][i].id <= broadcasts
      BY <2>1, <3>3 DEF Hearer
    <3>5. shown[d] = {} => \A i \in 1..Len(outbox[d]) : outbox[d][i].id = 0
      BY <3>3
    <3>6. shown[d] # {} /\ peer[d] = "connected" =>
            \E i \in 1..Len(outbox[d]) :
              outbox[d][i].id \in {broadcasts - 1, broadcasts} /\ outbox[d][i].id # 0
      BY <2>1, <3>2, <3>3 DEF Hearer
    <3>7. ASSUME NEW r, r = Append(outbox[d], response[h]), peer[d] = "connected"
          PROVE  Sorted(r) /\ Gapless(r)
      BY <2>1, <3>1, <3>4, <3>5, <3>6, <3>7, AppendBroadcast
    <3> QED
      BY <1>0, <2>1, <2>2, <3>7, OrderSend DEF d
  <2> QED
    BY <1>1, <1>3, <2>2 DEF BroadcastSend, SendFails, netVars
<1>4. ASSUME NEW h \in Conns, Handler(h), ~BroadcastSend(h), ~Respond(h) PROVE OrderInv'
  BY <1>1, <1>4 DEF Handler, Register, Check, ReadCall, ReadEnd, Read, SetName,
     LookupName, BroadcastLock, BroadcastUnlock, Close, netVars
<1>5. CASE Start \/ Acceptor \/ BrokenPipe \/ UsernamesRace
  BY <1>1, <1>5, DeathFrame DEF Start, Acceptor, AcceptorRuns, RunSetup, RunCheck,
     RunSelectReady, RunSelectTimeout, RunSelectError, RunAccept, CloseListener, netVars
<1>6. CASE Peers
  BY <1>1, <1>6 DEF Peers, PeerConnect, PeerSend, PeerRead, PeerClose
<1>7. CASE UNCHANGED roomVars
  BY <1>1, <1>7 DEF roomVars, vars, netVars
<1> QED
  BY <1>0, <1>2, <1>3, <1>4, <1>5, <1>6, <1>7, RoomSteps DEF Broadcast, Handler

\* In one run of the server every connection is sent the broadcasts in the order
\* in which they got the mutex, none left out between two of them: a number that
\* is registered more than once only repeats a message (server.cpp 156-161).
THEOREM DeliveryIsOrdered == RoomSpec => []OrderedDelivery
<1>1. RoomInit => OrderInv
  BY DEF RoomInit, Init, OrderInv, Sorted, Gapless
<1>2. ServerInv /\ RoomInv /\ OrderInv /\ [RoomNext]_roomVars => OrderInv'
  BY OrderStep
<1>3. OrderInv => OrderedDelivery
  BY DEF OrderInv, Gapless, OrderedDelivery, BroadcastAt
<1> QED
  BY <1>1, <1>2, <1>3, RoomInvariant, PTL DEF RoomSpec

=============================================================================
