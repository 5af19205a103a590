----------------------------- MODULE MCLispHost -----------------------------
(* Values of the constants of LispHost for TLC.                              *)
EXTENDS LispHost

AllCommands == {"PING", "CONN_REQ", "USER_SET", "CHAT", "DISS"}

(* Two beginnings.  One is HostInit, for a single client and a shell that    *)
(* runs programs.  The other is a state HostSpec reaches: the server is up,  *)
(* and one client has had its request answered and waits for its user, who   *)
(* never types a name.  To begin there leaves the room in the state space    *)
(* for what another client, the stop and the exit do next.                   *)

SilentConn == CHOOSE c \in Conns : c \notin Names
SilentFD   == CHOOSE f \in FDs : TRUE

Silent(v, w) == [c \in Conns |-> IF c = SilentConn THEN v ELSE w]

SilentServer ==
  /\ proc = "up" /\ running = TRUE /\ serverThread = TRUE /\ starts = 1
  /\ shell = "idle" /\ acceptor = "check"
  /\ clientMutex = Free /\ pos = 1 /\ broadcasts = 0
  /\ clientSockets = <<SilentFD>>
  /\ clientUsernames = [f \in FDs |-> NoConn]
  /\ fdTable = [f \in FDs |-> IF f = SilentFD THEN SilentConn ELSE NoConn]
  /\ pc = Silent("read", "none")
  /\ clientSocket = Silent(SilentFD, NoFD)
  /\ source = Silent(SilentConn, NoConn)
  /\ authenticated = [h \in Conns |-> FALSE]
  /\ username = [h \in Conns |-> NoConn]
  /\ response = [h \in Conns |-> NoMessage]

SilentNet ==
  /\ peer = Silent("connected", "none")
  /\ shut = [c \in Conns |-> FALSE]
  /\ inbox = [c \in Conns |-> <<>>]
  /\ cmds = 0
  /\ outbox = Silent(<<Reply("100")>>, <<>>)
  /\ rcvd = Silent(1, 0)

SilentInit ==
  /\ SilentServer /\ SilentNet
  /\ client = Silent("name", "off")
  /\ clientRunning = [c \in Conns |-> FALSE]
  /\ receiver = [c \in Conns |-> "none"]
  /\ chats = 0
  /\ childTable = NoTable /\ child = "none" /\ copy = NoCopy /\ exiting = FALSE

AloneNext  == client[SilentConn] = "off" /\ HostNext
                /\ client'[SilentConn] = "off"
                /\ \A f \in FDs \ {SilentFD} : fdTable'[f] = NoConn
SilentNext == client[SilentConn] = "name" /\ LoneNext

ChatHostSpec ==
  (HostInit \/ SilentInit) /\ [][AloneNext \/ SilentNext]_allVars /\ HostFairness

=============================================================================
