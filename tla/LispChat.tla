------------------------------ MODULE LispChat ------------------------------
(***************************************************************************)
(* The chat: the server of LispServer with the client of Lunix             *)
(* (lunix-sys/kernel/net/lisp/client/client.cpp) at the far end of each    *)
(* connection, in the place of arbitrary peers.  A client is the shell     *)
(* thread of another Lunix process inside connectToServer() or             *)
(* pingServer(), and from the end of the handshake on a second thread      *)
(* inside receiveMessages().                                               *)
(***************************************************************************)
EXTENDS LispServer

CONSTANTS
  MaxChats,  \* bound: CHAT lines the users type in all
  Names      \* bound: the clients whose users may type a name

ASSUME ChatsAssumption ==
  /\ MaxChats \in Nat
  /\ Names \subseteq Conns
  /\ {"PING", "CONN_REQ", "USER_SET", "CHAT", "DISS"} \subseteq Commands

VARIABLES
  client,         \* where the shell thread of each client is
  clientRunning,  \* its Client::running
  receiver,       \* where its receive thread is
  chats,          \* how many CHAT lines have been typed
  childTable      \* the descriptors a child of the server's shell has inherited

clientVars == <<client, clientRunning, receiver, chats>>
chatVars   == <<vars, clientVars, childTable>>

ChatInit ==
  /\ Init
  /\ client = [c \in Conns |-> "off"]
  /\ clientRunning = [c \in Conns |-> FALSE]
  /\ receiver = [c \in Conns |-> "none"]
  /\ chats = 0
  /\ childTable = [f \in FDs |-> NoConn]

-----------------------------------------------------------------------------
(* The client's end of the connection.  Messages arrive in the order in    *)
(* which they were sent; one read() returns one or several of them.        *)

\* The server's end of a connection is open while the connection waits to be
\* accepted, while a number refers to it, here or in a child, and while a read()
\* on it is in progress, also if its number has been closed.
Open(c) ==
  \/ /\ proc = "up"
     /\ \/ pc[c] = "none" \/ \E f \in FDs : fdTable[f] = c
        \/ \E h \in Conns : pc[h] = "read" /\ source[h] = c
  \/ \E f \in FDs : childTable[f] = c

ServerEnded(c) == shut[c] \/ peer[c] = "reset" \/ ~Open(c)

\* It closed with unread messages, or was sent one afterwards.
ServerReset(c) == ServerEnded(c) /\ (peer[c] = "reset" \/ inbox[c] # <<>>)

ClientSend(c, m) ==
  /\ IF ServerEnded(c)
       THEN /\ peer' = [peer EXCEPT ![c] = "reset"]
            /\ UNCHANGED inbox
       ELSE /\ inbox' = [inbox EXCEPT ![c] = Append(@, m)]
            /\ UNCHANGED peer
  /\ UNCHANGED <<shut, cmds, outbox, rcvd>>

\* read() returns the next n messages; n = 0 is the end of the connection.
ClientRead(c, n) ==
  /\ IF n = 0 THEN ServerEnded(c) /\ (rcvd[c] = Len(outbox[c]) \/ ServerReset(c))
              ELSE rcvd[c] + n <= Len(outbox[c])
  /\ rcvd' = [rcvd EXCEPT ![c] = @ + n]
  /\ UNCHANGED <<peer, shut, inbox, cmds, outbox>>

Chunk(c, n) == SubSeq(outbox[c], rcvd[c] + 1, rcvd[c] + n)
Contains(chunk, kind) == \E i \in 1..Len(chunk) : chunk[i].kind = kind

\* What strstr(buffer, "USER_OK") finds: it finds the reply, and may find a
\* broadcast, whose text and name the users have chosen.
FindsOK(chunk, found) ==
  /\ Contains(chunk, "USER_OK") => found
  /\ found => \E kind \in Broadcasts \cup {"USER_OK"} : Contains(chunk, kind)

\* close(sock): unread messages reset the connection.
ClientClose(c) ==
  /\ peer' = [peer EXCEPT ![c] =
                IF @ = "reset" \/ rcvd[c] < Len(outbox[c]) THEN "reset" ELSE "closed"]
  /\ UNCHANGED <<shut, inbox, cmds, outbox, rcvd>>

-----------------------------------------------------------------------------
(* connectToServer() and pingServer() up to the prompt.                    *)

To(c, state) == client' = [client EXCEPT ![c] = state]
ThreadUnchanged == UNCHANGED <<clientRunning, receiver, chats>>

Connect(c) ==
  /\ client[c] = "off" /\ proc = "up" /\ Listening
  /\ peer' = [peer EXCEPT ![c] = "backlog"]
  /\ To(c, "request") \/ To(c, "ping")
  /\ ThreadUnchanged /\ UNCHANGED <<shut, inbox, cmds, outbox, rcvd>>

\* Mutant of SendRequest: the answer is not waited for.
SendRequestOnly(c) ==
  /\ client[c] = "request"
  /\ ClientSend(c, "CONN_REQ")
  /\ To(c, "name")
  /\ ThreadUnchanged

SendRequest(c) ==
  /\ client[c] = "request"
  /\ ClientSend(c, "CONN_REQ")
  /\ To(c, "await100")
  /\ ThreadUnchanged

\* Only "100" and nothing behind it is taken for the answer.
Await100(c) ==
  /\ client[c] = "await100"
  /\ \E n \in 0..Len(outbox[c]) :
       /\ ClientRead(c, n)
       /\ To(c, IF n = 1 /\ Contains(Chunk(c, n), "100") THEN "name" ELSE "refused")
  /\ ThreadUnchanged

EnterName(c) ==
  /\ client[c] = "name" /\ c \in Names
  /\ ClientSend(c, "USER_SET")
  /\ To(c, "awaitOK")
  /\ ThreadUnchanged

Admitted(c) ==
  /\ To(c, "check")
  /\ clientRunning' = [clientRunning EXCEPT ![c] = TRUE]
  /\ receiver' = [receiver EXCEPT ![c] = "start"]

AdmittedIf(c, found, otherwise) ==
  IF found THEN Admitted(c)
           ELSE To(c, otherwise) /\ UNCHANGED <<clientRunning, receiver>>

\* Mutant of AwaitOK: no second read.
AwaitOKOnce(c) ==
  /\ client[c] = "awaitOK"
  /\ \E n \in 0..Len(outbox[c]), found \in BOOLEAN :
       /\ ClientRead(c, n)
       /\ FindsOK(Chunk(c, n), found)
       /\ AdmittedIf(c, found, "failed")
  /\ UNCHANGED chats

\* One read that does not bring USER_OK is forgiven, and what it brought lost.
AwaitOK(c) ==
  /\ client[c] \in {"awaitOK", "awaitOK2"}
  /\ \E n \in 0..Len(outbox[c]), found \in BOOLEAN :
       /\ ClientRead(c, n)
       /\ FindsOK(Chunk(c, n), found)
       /\ AdmittedIf(c, found, IF client[c] = "awaitOK" THEN "awaitOK2" ELSE "failed")
  /\ UNCHANGED chats

SendPing(c) ==
  /\ client[c] = "ping"
  /\ ClientSend(c, "PING")
  /\ To(c, "pong")
  /\ ThreadUnchanged

AwaitPong(c) ==
  /\ client[c] = "pong"
  /\ \E n \in 0..Len(outbox[c]) : ClientRead(c, n)
  /\ To(c, "pinged")
  /\ ThreadUnchanged

HangUp(c) ==
  /\ client[c] \in {"refused", "failed", "pinged"}
  /\ ClientClose(c)
  /\ To(c, "done")
  /\ ThreadUnchanged

-----------------------------------------------------------------------------
(* The prompt and the receive thread.                                      *)

Prompt(c) ==
  /\ client[c] = "check"
  /\ To(c, IF clientRunning[c] THEN "line" ELSE "leave")
  /\ ThreadUnchanged /\ UNCHANGED netVars

\* send() on a connection that has been reset reports the error once, to the
\* first thread that asks, and raises SIGPIPE from then on, here as well.
ResetSeen(c)    == ServerReset(c) /\ receiver[c] = "ended"
ClientKilled(c) ==
  /\ client[c] = "line" /\ ServerReset(c)
  /\ To(c, "killed")
  /\ receiver' = [receiver EXCEPT ![c] = "ended"]
  /\ UNCHANGED <<clientRunning, chats, netVars>>

Chat(c) ==
  /\ client[c] = "line" /\ ~ResetSeen(c)
  /\ chats < MaxChats /\ chats' = chats + 1
  /\ ClientSend(c, "CHAT")
  /\ To(c, "check")
  /\ UNCHANGED <<clientRunning, receiver>>

\* An empty line or one the client does not know.
OtherLine(c) ==
  /\ client[c] = "line"
  /\ To(c, "check")
  /\ ThreadUnchanged /\ UNCHANGED netVars

\* The line "/exit".
ExitLine(c) ==
  /\ client[c] = "line" /\ ~ResetSeen(c)
  /\ ClientSend(c, "DISS")
  /\ To(c, "leave")
  /\ ThreadUnchanged

Leave(c) ==
  /\ client[c] = "leave"
  /\ clientRunning' = [clientRunning EXCEPT ![c] = FALSE]
  /\ To(c, "join")
  /\ UNCHANGED <<receiver, chats, netVars>>

\* Mutant of Join: the receive thread is detached.
JoinDetaches(c) ==
  /\ client[c] = "join"
  /\ ClientClose(c)
  /\ To(c, "done")
  /\ ThreadUnchanged

Join(c) ==
  /\ client[c] = "join" /\ receiver[c] = "ended"
  /\ ClientClose(c)
  /\ To(c, "done")
  /\ ThreadUnchanged

\* receiveMessages(): the first test of running, then recv() and the next test.
ReceiveStarts(c) ==
  /\ receiver[c] = "start"
  /\ receiver' = [receiver EXCEPT ![c] = IF clientRunning[c] THEN "recv" ELSE "ended"]
  /\ UNCHANGED <<client, clientRunning, chats, netVars>>

Receive(c) ==
  /\ receiver[c] = "recv"
  /\ \E n \in 1..Len(outbox[c]) : ClientRead(c, n)
  /\ receiver' = [receiver EXCEPT ![c] = IF clientRunning[c] THEN "recv" ELSE "ended"]
  /\ UNCHANGED <<client, clientRunning, chats>>

ReceiveEnd(c) ==
  /\ receiver[c] = "recv"
  /\ ClientRead(c, 0)
  /\ clientRunning' = [clientRunning EXCEPT ![c] = FALSE]
  /\ receiver' = [receiver EXCEPT ![c] = "ended"]
  /\ UNCHANGED <<client, chats>>

-----------------------------------------------------------------------------
\* What the users decide, and what their clients do on their own.
User(c)      == Connect(c) \/ EnterName(c) \/ Chat(c) \/ OtherLine(c)
                  \/ ExitLine(c) \/ ClientKilled(c)
Handshake(c) == SendRequest(c) \/ Await100(c) \/ AwaitOK(c) \/ SendPing(c)
                  \/ AwaitPong(c) \/ HangUp(c)
Leaving(c)   == Prompt(c) \/ Leave(c) \/ Join(c)
Receiving(c) == ReceiveStarts(c) \/ Receive(c) \/ ReceiveEnd(c)

ServerUnchanged == UNCHANGED <<Unchanged4Peers, childTable>>

Clients ==
  /\ \E c \in Conns : User(c) \/ Handshake(c) \/ Leaving(c) \/ Receiving(c)
  /\ ServerUnchanged

\* One run of the server, and any use of it.
ChatSessionNext ==
  \/ proc = "up" /\ ServerRuns /\ UNCHANGED <<clientVars, childTable>>
  \/ Clients

ChatNext ==
  \/ ChatSessionNext
  \/ proc = "up" /\ (StopRequest \/ Stopping) /\ UNCHANGED <<clientVars, childTable>>

ChatSession == ChatInit /\ [][ChatSessionNext]_chatVars
ChatSpec    == ChatInit /\ [][ChatNext]_chatVars

\* Every thread of the server and of the clients runs; users need not type.
ChatFairness ==
  /\ ThreadFairness
  /\ \A c \in Conns :
       /\ WF_chatVars(Handshake(c) /\ ServerUnchanged)
       /\ WF_chatVars(Leaving(c) /\ ServerUnchanged)
       /\ WF_chatVars(Receiving(c) /\ ServerUnchanged)

ChatFairSpec == ChatSpec /\ ChatFairness

-----------------------------------------------------------------------------
ClientPC == {"off", "request", "await100", "name", "awaitOK", "awaitOK2",
             "ping", "pong", "pinged", "refused", "failed", "check", "line", "leave",
             "join", "done", "killed"}

\* Types, and the life of the receive thread: it never outlives the
\* connectToServer() that created it, whose socket it reads and whose next call
\* assigns to receiveThread (client.cpp 130-154).
ClientTypeOK ==
  /\ client \in [Conns -> ClientPC]
  /\ clientRunning \in [Conns -> BOOLEAN]
  /\ receiver \in [Conns -> {"none", "start", "recv", "ended"}]
  /\ chats \in 0..MaxChats
  /\ \A c \in Conns : receiver[c] \in {"start", "recv"} =>
       client[c] \in {"check", "line", "leave", "join"}

\* Handshake and server agree: no Lunix client is ever answered that its
\* request is bad or that it is not authenticated, although TCP may join what
\* it sends and the handler may be stopped at any point (client.cpp 95-148,
\* server.cpp 199-223).
NeverRefused ==
  \A c \in Conns : \A i \in 1..Len(outbox[c]) :
    outbox[c][i].kind \notin {"BAD_REQ", "NOT_AUTHENTICATED"}

\* While the server is not being stopped, the handshake can fail in two ways
\* only: a broadcast arrives in front of the 100, or two arrive in front of
\* USER_OK, of which the client forgives one (client.cpp 95-128,
\* server.cpp 156-161, 203-209, 226).
Broadcasting(c) == {i \in 1..Len(outbox[c]) : outbox[c][i].kind \in Broadcasts}

HandshakeFailsByBroadcasts ==
  \A c \in Conns :
    running /\ ~ServerEnded(c) =>
      /\ client[c] = "refused" => Broadcasting(c) # {}
      /\ client[c] = "failed"  => Cardinality(Broadcasting(c)) > 1

\* "Check for USER_OK in the response" (client.cpp 109): a client that found it is
\* one its handler has authenticated.  It is not so: added to the run handshake,
\* TLC refutes it by a broadcast that contains the text.
PromptMeansAuthenticated ==
  \A c \in Conns :
    client[c] \in {"check", "line"} => authenticated[c] /\ username[c] = c

\* What the code does ensure while the server is not being stopped: a client at
\* its prompt is known to its handler by the name its user chose, or its connection
\* has ended, or a broadcast it has read has let it in early; then its USER_SET is
\* still the first thing its handler will read, and what its user types comes
\* behind the name, joined to it or not, and never in front (client.cpp 100-124,
\* server.cpp 203-223).
Unnamed(c) == ~authenticated[c] /\ inbox[c] # <<>> /\ Head(inbox[c]) = "USER_SET"

PromptIsNamed ==
  \A c \in Conns :
    client[c] \in {"check", "line"} =>
      \/ authenticated[c] /\ username[c] = c
      \/ ServerEnded(c)
      \/ Unnamed(c) /\ \E i \in Broadcasting(c) : i <= rcvd[c]

\* A broadcast waits in send(), with the mutex, for a client that is itself
\* waiting for its user to type a name.
Stalled ==
  \E h \in Conns :
    /\ pc[h] = "sending" /\ pos <= Len(clientSockets)
    /\ LET c == fdTable[clientSockets[pos]] IN
         c # NoConn /\ client[c] = "name" /\ ~Room(c)

\* "/exit" ends connectToServer() (client.cpp 133-156).
ExitReturns == \A c \in Conns : client[c] = "leave" ~> client[c] = "done"

=============================================================================
