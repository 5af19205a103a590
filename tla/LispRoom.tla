------------------------------ MODULE LispRoom ------------------------------
(***************************************************************************)
(* One run of the server of LispServer as a chat room.  "said" remembers   *)
(* the broadcasts, in the order in which broadcastMessage() gets the       *)
(* mutex; it is a history variable, of which the server knows nothing.     *)
(***************************************************************************)
EXTENDS LispServer

VARIABLE said

roomVars == <<vars, said>>

\* What a connection has been shown: the broadcasts sent to it.
shown == [c \in Conns |-> {outbox[c][i].id : i \in 1..Len(outbox[c])} \ {0}]

R == INSTANCE ChatRoom

RoomInit == Init /\ said = <<>>

Broadcast(h) ==
  /\ BroadcastLock(h)
  /\ said' = Append(said, R!Words(response[h].kind, response[h].from, response[h].by))

RoomNext ==
  \/ proc = "up" /\ \E h \in Conns : Broadcast(h)
  \/ SessionNext /\ broadcasts' = broadcasts /\ UNCHANGED said

RoomSpec     == RoomInit /\ [][RoomNext]_roomVars
RoomFairSpec == RoomSpec /\ HandlersRun /\ PeersRead

-----------------------------------------------------------------------------
\* The handlers, their unlocked map and the reused numbers together keep one
\* conversation: nobody speaks before the own "has joined" or after the own "has
\* left", nobody is shown anything in another order, with a gap, or after having
\* left, and who has joined misses nothing from then on
\* (server.cpp 156-174, 182-185, 203-219, 233-236).
ImplementsRoom == R!Spec

\* As long as the members read, no broadcast gets stuck: who stays in the room is
\* shown everything that is said, although send() blocks with the mutex held and
\* a number may be registered for a connection that has gone
\* (server.cpp 156-161, 187-233).
EveryMemberHears ==
  \A c \in Conns :
    R!Member(c) ~> \/ Len(said) \in shown[c] \/ R!Said(c, "left")
                   \/ peer[c] # "connected" \/ proc # "up"

=============================================================================
