# Lunix in TLA+

Lunix is a small "operating system" that runs as one C++ process: a kernel
object that boots, a shell that reads commands, a password file, and a chat
protocol (LISP, the Lunix Inter-terminal Server Protocol) with a server and a
client inside the same process. A boot loader checks the kernel image and runs
it. This directory holds TLA+ models of the parts
where things can go wrong in ways that are hard to test, the TLC runs that check
them on small instances, and proofs for every size.

Paths below are relative to `src/`.

## Inventory

| Component | Source | State | Operations | Status |
|---|---|---|---|---|
| Chat server | `lunix-sys/kernel/net/lisp/server/server.cpp` | `running`, `serverThread`, `clientSockets`, `clientUsernames`, `clientMutex`, the descriptors, one thread per client | `start`, `stop`, `run`, `handleClient`, `broadcastMessage`, `closeAllConnections` | modelled |
| User manager | `lunix-sys/kernel/security/userman.cpp` | `.passwd`, `currentUsername`, the echo of the terminal | `initialize`, `login`, `setPassword`, `createPasswordFile`, `authenticate` | modelled |
| Chat client | `lunix-sys/kernel/net/lisp/client/client.cpp` | `running`, the socket, the receive thread | `pingServer`, `connectToServer`, `receiveMessages` | modelled |
| Shell | `lunix-sys/kernel/lsh.cpp` | the command, the working directory, who is logged in | the command loop | modelled |
| Kernel | `lunix-sys/kernel/kernel/kernel.cpp`, `main.cpp` | `runlevel`, twice | `start`, `shutdown`, `crl` | modelled |
| Error handler | `lunix-sys/kernel/kernel/error_handler.cpp` | `oops_count`, `kernel.log` | `panic`, `oops`, `handle_signal` | partly (no `oops_count`) |
| Disk | `lunix-sys/kernel/disk/disk.cpp` | `rootfsAbsolutePath`, the host's files | `rootfs`, `loadMod`, `fopenbin`, `funlink`, `fmkdir`, `frmdir_r`, `fchdir`, `fcwd` | partly |
| Network self-test | `lunix-sys/kernel/net/network.cpp` | none | `test`, which runs `ping` by `system()` | modelled |
| Boot loader | `lunix-bl/main.cpp` | the flags, the hash it has computed | check, fork, exec, recovery prompt, report | partly (not `-r`, `-h`) |
| Build scripts | `lunix-bl/build/post-build.sh`, `Build.sh`, ... | the kernel image and its stored hash | build, install, hash | partly (`post-build.sh`) |
| Colours, web page, docs | `color.h`, ... | none | | not modelled |

How they interact:

- The shell thread calls `server.start()` and `server.stop()` directly. `start`
  creates the acceptor thread; the acceptor detaches one handler per connection.
  These threads share `running` (atomic), `clientSockets` (under `clientMutex`),
  `clientUsernames` (under it only in `closeAllConnections`) and, through the
  operating system, the numbers of the descriptors.
- A client, usually in another Lunix process, speaks a text protocol with its
  handler: `CONN_REQ`/`100`, `USER_SET n`/`USER_OK`, `CHAT m`, `DISS`, `PING`/`200`.
  Broadcasts arrive between the replies.
- The shell calls `UserManager::initialize` before its first prompt and
  `setPassword` for `passwd`. Several processes can run on one `rootfs`.
- A fault or an uncaught exception reaches `handle_signal`, which panics: the panic is
  logged in the working directory and the process exits with 1.
- The shell forks to run a module or a program and waits for it. The child has a copy
  of the server object and the same connections. Whoever leaves by `exit()`, the shell
  or a child that could not exec, runs `~Server` and so `stop()`.
- The boot loader runs `post-build.sh` if asked to, compares the hash of `kernel.bin`
  with the stored one, forks, executes Lunix or asks for another path, waits, and
  reports the status. Boot loader and Lunix share a terminal and its Ctrl-C.

What is hard: the handlers are detached and know only a number, so everything
that closes descriptors races with everything that reuses them; `send` and `read`
block, some of them under a mutex; a peer can vanish or stop reading at any point;
two processes can boot on one `rootfs`, and one can remove the directory the other is
in; any process can be interrupted between two prompts; a script can be interrupted between two files. `PROJECT.json` lists these hazards line by line, also those that no
property covers yet, with the reason.

What makes each component correct:

- *Server*: broadcasts reach every open connection in one order; a message is
  attributed to its sender; a handler serves its own connection; descriptors do
  not leak; loops over `clientSockets` are safe; the server can be stopped and
  started again at any time; stop returns and ends the handlers; a vanished peer is
  given up and harms nobody else.
- *User manager*: only who knows an accepted password gets a shell; the accepted
  passwords change only by a command of a user who is logged in; a broken password file is
  not left behind by races; the terminal echoes in the shell.
- *Client*: it and the server agree whether it is authenticated; the handshake fails
  for known reasons only; the receive thread does not outlive its connection; `/exit`
  and the end of the server end it.
- *Kernel, shell, disk, error handler*: the runlevels follow each other; panics are
  logged where they are looked for; the end of the input ends the process; what a
  failing command or a child does leaves the server alone, and `exit()` ends it.
- *Boot loader*: a fresh image passes the check whatever earlier scripts left behind;
  the status it reports says how Lunix ended; a Lunix that has lost it carries out no command.

## Modules

| Module | What it is |
|---|---|
| `LispServer` | the chat server, its threads, the descriptor table, TCP and arbitrary peers |
| `MCLispServer` | constants for TLC; four configurations |
| `LispServer_proofs` | seven theorems about `LispServer` |
| `ChatRoom` | abstract: one conversation, its members, and what each has been shown of it |
| `LispRoom` | one run of the server, seen as a chat room; implements `ChatRoom` |
| `MCLispRoom` | constants for TLC; two configurations |
| `LispRoom_proofs` | two theorems about `LispRoom`, that it implements `ChatRoom` among them |
| `LispChat` | the server composed with the client of Lunix at the far end of each connection |
| `MCLispChat` | constants for TLC; two configurations |
| `LispChat_proofs` | four theorems about `LispChat` |
| `LispHost` | the server and its clients in the Lunix process around them: children and `exit()` |
| `MCLispHost` | constants for TLC, and a second state for a run to begin in; two configurations |
| `LispHost_proofs` | six theorems about `LispHost` |
| `LispFirstRun_proofs` | six theorems about the first run of the server in `LispHost` |
| `Accounts` | abstract: a set of accepted (name, password) pairs and who is logged in; what the code keeps to, which is less than it documents |
| `UserMan` | the user manager, the password file, several processes; implements `Accounts` |
| `MCUserMan` | constants for TLC; one configuration |
| `UserMan_proofs` | four theorems about `UserMan`, the refinement among them |
| `Runlevels` | abstract: what the runlevels of `kernel.h` stand for |
| `Lunix` | the Lunix process: kernel, mount, shell, panics, directories; implements `Runlevels` |
| `Bootloader` | the boot loader and `post-build.sh` |
| `Machine` | `Lunix` composed with `Bootloader`, on several terminals in one build directory |
| `MCMachine` | the instance for TLC; one configuration |
| `Machine_proofs` | six theorems about `Machine`, the refinement among them |

`LispHost` EXTENDS `LispChat`, which EXTENDS `LispServer`; `Machine` EXTENDS `Bootloader`,
which EXTENDS `Lunix`. `LispRoom`
EXTENDS `LispServer` too, with the arbitrary peers of that module. Chat, accounts and machine are separate compositions: what they
share, the shell, is idle in the other two while it is busy in one.

### LispServer

A thread is a program counter: `shell` (inside `stop()`), `acceptor` (inside
`run()`), `pc[h]` (inside `handleClient()` for the handler started for connection
`h`). An action is what a thread does between two points at which another thread
could notice: one system call, one critical section step, one read or write of
`running` or of the shared map. Handler locals are functions of `h`:
`clientSocket[h]` is the descriptor number passed to the thread, `source[h]` the
connection the number referred to when `read()` was called (`ReadCall`; the kernel resolves
the number once, so a blocked read stays on its connection even if the number is
closed). Between the test of `running` (`Check`) and that call the number may be closed
and given to another connection: a handler that then reads from it has *strayed*.
Further locals are `authenticated[h]`, `username[h]` and `response[h]`, the reply or
broadcast it is about to send.

| Action | Code in `server.cpp` |
|---|---|
| `Start`; `StopRequest`, `CloseAll*`, `StopJoin` | 19-24; 26-44 |
| `RunSetup`, `RunCheck`, `RunSelect*`, `RunAccept`, `CloseListener` | 75-154 |
| `Register`, `Check`, `ReadCall`, `Read`, `ReadEnd`, `Dispatch` | 182-224 |
| `SetName`, `LookupName` | 203-209, 169-174 |
| `BroadcastLock`, `BroadcastSend`, `BroadcastUnlock` | 156-161 |
| `Respond`, `Close` | 225-230, 233-236 |
| `BrokenPipe` | a `send` at 159 or 226 that raises SIGPIPE |
| `UsernamesRace` | 170, 208 and 43 at once |

`fdTable` maps each descriptor number to a connection: `RunAccept` takes an unused
number, `Close` and `CloseAllClose` free a number whatever it refers to by then.
Numbers taken by other files of the process are not modelled, so a stale `close`
can only hit another connection.

The network is external and modelled by what the socket calls show: a connection
is `backlog`, `connected`, `closed` (the peer has gone), `reset`; `send` to a closed
peer succeeds once and provokes the reset, then reports an error or, as after
`shutdown`, raises SIGPIPE; a full send buffer blocks the sender; `read` returns one
or several of the peer's commands at once, since TCP keeps no boundaries. What the
code makes of several commands in one read is `Classify`: a leading `USER_SET` or
`CHAT` swallows the rest as its argument, everything else is a `BAD_REQ`. Not
modelled: commands split over several reads, and commands of 1024 bytes and more.
When the listener closes, the connections still in its backlog are reset.

A data race on the `unordered_map` may go unnoticed (the two accesses happen one
after the other) or break the table, which ends in the panic of the signal handler.

Ghost data: `by` and `id` of a message (whose command caused it, the number of the
broadcast), the history in `outbox`, `source` outside `read`.

### ChatRoom, LispRoom

`ChatRoom` is what a user expects of the chat, without descriptors, threads or a mutex:
`said` is the conversation, `shown[c]` the places of it that connection `c` has seen.
`Enter`, `Talk` and `Leave` append to the one, each under the speaker's own name and in this
order (entering again is allowed, as a second `USER_SET` is); `Show` adds the next place
to the other, the first one being no later than the own entrance. Nothing is shown after
`Leave`.

`LispRoom` adds to `LispServer` the history variable `said`: `Broadcast(h)` is
`BroadcastLock(h)`, where the order of the conversation is decided, with the entry it makes.
The refinement mapping reads `shown` off the `id`s in `outbox`. So `Enter`, `Talk` and
`Leave` are the lock of `broadcastMessage()`, `Show` one of its `send` calls, and every other step a
stutter; so is the second copy a connection is sent when its number is registered twice.

### LispChat

`LispChat` EXTENDS `LispServer` and replaces its arbitrary peers: connection `c` is
one call of `connectToServer()` or `pingServer()` in some other Lunix process.
`client[c]` says which of its statements the shell thread of that process is at,
`receiver[c]` the same for `receiveMessages()`, and `clientRunning[c]` is its
`Client::running`. The actions of the server are those of `LispServer`, unchanged.

| Action | Code in `client.cpp` |
|---|---|
| `Connect`, `SendRequest`, `Await100`, `EnterName` | 69-90, 95-96, 97-99, 100-103 |
| `AwaitOK`, once or twice, and `Admitted` | 105-123, 130-131 |
| `Prompt`, `Chat`, `OtherLine`, `ExitLine` | 135-148 |
| `Leave`, `Join` | 150-156 |
| `SendPing`, `AwaitPong`, `HangUp` | 15-45, and the `close` at 120 and 126 |
| `ReceiveStarts`, `Receive`, `ReceiveEnd` | 48-66 |
| `ClientKilled` | a `send` at 140 or 144 that raises SIGPIPE |

One `read` returns any number of the messages that have arrived (`Chunk`), since TCP
joins them. So the code's different tests matter: the 100 is compared with the whole
buffer, USER_OK is looked for anywhere in it, and what else a read of the handshake
brought is lost. "Anywhere" includes the text and the names in broadcasts, which users
choose: `FindsOK` lets the search succeed, or not, on any chunk with a broadcast, and makes
it succeed on every chunk with the reply. `ReceiveStarts` and `Receive` contain the test of `running` at line 50 that
precedes the next `recv`; the thread is not woken by a later change of `running`.
When the connection has been reset, the first `send` may report it without a signal,
if `recv` has not reported it before.
Only the users in `Names` ever type their name; a client of another user waits for it, in
`EnterName`, for ever. Left out: a `connect()` that fails (it leaks its descriptor and does
nothing else), the contents of names and messages but for USER_OK, Ctrl-C at a client. The
end of the client's input is in `Lunix`.

`ChatSession` has one run of the server that nobody stops, `ChatSpec` adds `server
stop` and `server start` at any time, `ChatFairSpec` fairness. A connection is closed
when no descriptor refers to it, in the server or in a child (`childTable`, which only
`LispHost` changes), and no `read` on it is in progress.

### LispHost

The shell thread of the server's Lunix, when it is not inside `server start` or `server
stop`, may fork a child or exit. `copy` is what the child has of the `Server` object and
of the mutex, as they were at the fork; the threads stay behind, so a mutex taken at the
fork is never released in the child. `shutdown()` acts on the shared connection,
`close()` on the child's own table.

| Action | Code |
|---|---|
| `Fork`, `ExecSucceeds`, `ExecFails` | `disk.cpp` 95-108, 173-186, `loadMod` and `fopenbin` |
| `ChildLock`, `ChildClose`, `ChildJoin` | `server.cpp` 13-17, 26-44, in the child |
| `ChildEnds`, `Reap` | the end of the child; `waitpid` at `disk.cpp` 110, 189 |
| `ExitRequest`, `Exits` | `~Server` in the shell thread, after `exit()` in `shutdown()` or `panic()` |

`LoneNext` is the process without children. `Stalled` says that a broadcast waits in `send`,
with the mutex, for a client that waits for its user to type a name (`client.cpp` 100-101); two liveness
properties exempt exactly that. `Held` says that a child keeps a
connection open.

`Exits` may be a panic: the map is destroyed after `~Server` has returned, while detached
handlers may still use it. The listening socket, which a child inherits as well, is left
out: it would keep the port taken after the server has closed it.

### Runlevels, Lunix

`pc[t]` says where the process on terminal `t` is: a step of `kernel::start()` and
`disk::rootfs()`, a prompt, the shell, a panic. The runlevel exists twice: `kernel Kernel`
in `main()` is set to 1, 2, 3 and 0, the object in `disk.cpp` to 4 by the shell.
`dirs` is which of the build directory, `rootfs` and `rootfs/modules` exist; a process
in a directory that is removed has the working directory `Gone`. Tests of a directory
and uses of it are separate actions, so that another process can get in between.

| Action | Code |
|---|---|
| `Main`, `Start` | `main.cpp` 16-23, `kernel.cpp` 50-83 |
| `FindRootfs`, `Ask`, `AskOverflows`, `CreateRootfs`, `EnterRootfs` | `disk.cpp` 24-61 |
| `FindModules`, `CreateModules`, `ListModules` | `disk.cpp` 63-81 |
| `Devices`, `SelfTests` | `kernel.cpp` 85-103 |
| `LoginName`, `LoginPassword` | `lsh.cpp` 171-180 with the outcome of `userman.cpp` 47-74 |
| `Prompt`, `Shutdown`, `PowerOff` | `lsh.cpp` 182-200, `kernel.cpp` 104-119 |
| `Cd`, `Pwd`, `Mkdir`, `Rm`, `RmAgain`, `RmRecursive` | `lsh.cpp` 204-255, `disk.cpp` 156-243 |
| `SystemCommand`, `SystemReturns` | `lsh.cpp` 228-231, 256-257: `nano`, `chmod`, `clear` |
| `ClientCommand`, `ClientAddress`, `ClientReturns` | `lsh.cpp` 296-307, `client.cpp` 135-156 |
| `RootPanics`, `Editor`, `EditorWq`, `OtherCommand` | `lsh.cpp` 273-291, 128-140, the rest |
| `LogPanic`, `PanicExits` | `error_handler.cpp` 24-62, 147-155 |
| `EndInput`, `Killed` | the user ends the input; a signal nobody handles |

An exception nobody catches ends in `abort()`, whose signal is handled by a panic, so
`Uncaught` is `Panic`. A failed `rm` reports the result of a second `funlink()`
(`lsh.cpp` 253), which is `RmAgain`. Whose shell it is, `UserMan` says; here
`RootPanics` is possible in every shell. Files are not kept in `Lunix`, so `rm` may find any
directory without a subdirectory empty (`RemovesEmpty`), `rootfs` included.

`Runlevels` is the promise of `kernel.h`: 0, 1, 2, 3, 4 in this order, and 0 again from 4
only. The refinement mapping takes 4 when one object says 3 and the other 4, and
"halted" while `shutdown()` has said that it is safe to turn off.

### Bootloader, Machine

A binary is the number of its build, and so is its hash. `post-build.sh` is
`Install` (cp and mv), `Sum` (the redirection empties the file, `sha256sum` reads) and
`Write`; with two boot loaders at once, or an interrupt in the middle, its steps mix.

| Action | Code |
|---|---|
| `Make` | `Build.sh` 18-23 |
| `StartLoader`, `Install`, `Sum`, `Write`, `InterruptScript` | `lunix-bl/main.cpp` 67-94, `post-build.sh` |
| `ComputeSHA256`, `Compare`, `ExecFails` | `lunix-bl/main.cpp` 16-65, 111-128, 136-148 |
| `ExecKernel`, `PathFails`, `Report`, `Return` | `lunix-bl/main.cpp` 130-170 |
| `CtrlC`, `Abandoned` | Ctrl-C on the terminal; nobody waits for an orphan |

While `system()` waits, its caller ignores Ctrl-C: an interrupt during the script ends
the script only, and an interrupt during the network test, or during `nano`, `chmod` or
`clear` of the shell, ends the program and the boot loader but not Lunix, which goes on as an
orphan. `InSystem(t)` says that it is in one of these calls. The boot loader is taken to be started
from a shell with job control, which takes the terminal back when the boot loader has ended,
so that the orphan can no longer read from it. A second boot loader is not started on
a terminal that an orphan still has.

### UserMan and Accounts

`pc[k]` says at which prompt process `k` waits. `passwd[d]` is the sequence of lines
of `.passwd` in directory `d`. A name is a sequence of parts, because a line is
`name.hash` and is taken apart at its *first* dot: a name with a dot is written and
never matched. `CreateOpen` truncates the file when the prompt for root's password
appears and `CreateWrite` writes at the start of the file when it is answered; between the two
other processes may write. All lines are taken to be equally long, so such a write
replaces exactly the first line. SHA-256 is taken to be free of collisions.
`Interrupt` ends a process anywhere and leaves terminal and files as they are; each
process has a terminal of its own. `passwd` works on the `.passwd` of the working
directory, which `Chdir` changes. The shell's other ways to that file are in the model, too:
`Edit` is the command `editor`, with which any user may add any line, and `Remove` is `rm`,
which protects the name `.passwd` but not `./.passwd`, and `rm -R`, which protects nothing.
A file that is removed while `createPasswordFile` has it open is written and lost;
`linked[k]` says that the file process `k` has open is still the one in the rootfs. The ghost
`rootless` says that the file was made by `passwd` or `editor` after an `rm`, or left by a
process that ended at the prompt for root's password.

| Action | Code |
|---|---|
| `Boot`, `Initialize`, `CreateOpen`, `CreateWrite` | `lsh.cpp` 171-172, `userman.cpp` 40-45, 104-115 |
| `LoginUsername`, `LoginPassword`, `LoginFails`, `LoginSucceeds` | `userman.cpp` 47-84 |
| `Chdir`, `SetPassword`, `Exit` | `lsh.cpp` 197-213, 279-291, `userman.cpp` 86-94 |
| `Edit`, `Remove` | `lsh.cpp` 128-140, 234-255, `disk.cpp` 156-170, 216-222 |
| `Interrupt` | a signal that ends the process |

`Accounts` is what the code keeps to, without files: until the accounts are *settled* they
may change freely; afterwards only a shell changes them, by adding one pair or by losing all,
after which they are set up again; and who is logged in gave an accepted pair. The refinement
mapping takes the pairs `authenticate` accepts in the rootfs, `currentUsername`, and "the file
exists and nobody is inside `createPasswordFile`" for `settled`.

`Accounts` is weaker than the shell's own description of `passwd`, which is said to change a
password: no step of it takes an old pair away (see the end of *Runs*). What
the refinement does show is that nothing else touches the accounts: while nobody uses `rm`, `settled`
stays true, so no boot, race, prompt or interruption gets back into `createPasswordFile` once the
last process has left it.

## Runs

| Run | Instance | Shows |
|---|---|---|
| `restart` | 2 connections, 2 descriptors, 2 starts, `USER_SET` and departures | `TypeOK`, `RestartSafe`, `NoLeakedDescriptor`, `IterationStable`, `OpenIsRegistered` |
| `session` | 2 connections, 1 descriptor, `USER_SET`, `CHAT` and `DISS`, 3 in all, up to 2 per read | `ChatAttribution`, `OwnConnection`, `ImplementsRoom` while the number is reused |
| `stop` | 2 connections, 1 descriptor, 1 start, all commands, send buffer of 1, fairness | `StopReturns`, `StopEndsOthers`, `GoneIsReaped` |
| `handshake` | 2 clients, 2 descriptors, no `CHAT`, up to 2 commands per read of the server, any number of messages per read of a client | `ClientTypeOK`, `NeverRefused`, `PromptIsNamed`, `HandshakeFailsByBroadcasts`, `OrderedDelivery` |
| `chat` | two beginnings, both with 1 `CHAT`, 1 start, a send buffer of 1 and fairness: 1 client and 1 descriptor, children, `exit()`; or 2 clients and 2 descriptors, no children, from the state where one client waits for a name that is never typed | `NeverRefused`, `ExitJoins`, `StopFreesClients`, `ExitEnds`, `FailedCommandReturns` |
| `hear` | 2 connections, 2 descriptors, `USER_SET` and departures, send buffer of 1, fairness | `EveryMemberHears` while both are open |
| `machine` | 2 terminals, 2 builds, fairness | `MachineTypeOK`, `PanicLoggedInRootfs`, `ZeroMeansShutdown`, `FreshImageBoots`, `OrphanTakesNoCommand`, `EofEnds`, `ImplementsRunlevels` |
| `accounts` | 2 processes, 2 directories, 3 names (one with a dot), 2 passwords, files of 2 lines | `TypeOK`, `EchoInShell`, `NoLockoutByRaces`, `ImplementsAccounts` |
| `pipe` | 1 connection | violated: `PeerCannotKill` |
| `stranded` | 1 descriptor, 2 connections, 1 `USER_SET`, 1 start, send buffer of 1, fairness | violated: `StopEndsHandlers` |
| `exit` | 1 client, 1 `CHAT`, fairness | violated: `ExitReturns` |
| `child` | 1 client, 1 descriptor, 1 start, children, `exit()`, no `CHAT` | violated: `CommandsLeaveServer` |

Bounds. `MaxStarts`, `MaxCmds`, `MaxChunk`, `MaxChats`, `SendBuffer`, `MaxLines` and
`MaxBuilds` are guards of the actions they limit. Two connections are enough for every hazard listed: one
loses its number and the other gets it, one broadcasts and the other registers, leaves or does not read.
One descriptor forces reuse at once and exhausts `accept`; two let an
old and a new connection be open together. One command per peer suffices to be
registered under a name and to broadcast twice ("joined", "left"), which is what
`restart` needs to interleave broadcasts with registrations and with both stops; two
broadcasters at once are in `handshake`, where `OrderedDelivery` is checked; `session`
needs three, a name on each connection and a chat on the second, and two per read to
join them; `hear` needs two, a name on each of two connections open together. The clients of `handshake` send what the
code makes them send; "joined" and "left" are the broadcasts that disturb each other
and the handshakes there. `chat` and `exit` add the `CHAT` that can swallow a `DISS`,
for which one client is enough: the child, the acceptor, the handler and the shell
interleave around it. Two terminals are enough for `machine`: one process removes what the other
is about to use, one script overlaps another; two builds make the stored hash and the
image disagree. The send buffer never fills in the safety runs; `stop`, `hear`, `chat`
and `stranded` use 1, so that a single unread message blocks. The second beginning of `chat` has one
client that is silent for good, while the other does all a client can: its broadcasts
("joined", its line, "left") fill the buffer of the first, or do not, before the stop or the exit takes
the mutex. It begins where the first client has been answered `100`, a state `HostSpec` reaches,
because all the ways to that state together with all that follows would be too many; for the same
reason the children belong to the first beginning. The runs `session`,
`restart` and `handshake` use
symmetry in connections and descriptors; the runs with liveness use none. Deadlock
is not checked for the server: once peers have used up their commands, or after the process has
ended, the bounded system really stops, and not for `machine`. `accounts` does check it.

Fairness. `ThreadFairness`: the operating system runs every thread that can take a
step; the acceptor's `select` times out after a second, so it always can (its failure
is possible and never owed). Weak fairness is
enough for the mutex because in each of these runs it stays free once the finitely many
broadcasts are over. `PeersRead`: a connected peer eventually reads what it was sent, as
`Client::receiveMessages` does. `ChatFairSpec` adds the two threads of each client in
place of `PeersRead`: what waits for the network or for the other thread is fair, what waits for the
user is not. Nothing makes a user type `server stop`, a line or a name, or a peer
connect, send or close. `stop` and `stranded` assume `ThreadFairness` and `PeersRead`, `hear`
of the threads only the handlers (`HandlersRun`);
without `PeersRead` a broadcast that waits, with the mutex, for a peer to read would keep
`server stop` waiting. `exit` assumes `ChatFairSpec`. `HostFairness` (`chat`, `child`) adds that a child that
could not exec runs on, that `waitpid` returns, that an exit is completed, and that a `send` on a
connection a child has shut down raises its signal; a program that has been started may run
for ever. `MachineSpec` runs every process of Lunix that can take a step of its own
(`Runs`), and a program that has been interrupted in `system()` ends (`SystemReturns` of
an orphan); nothing makes anybody type, build, boot or interrupt.

What the violated runs show:

- `pipe`: `handleClient` checks the result of `send` and prints "Error sending
  response to client" (`server.cpp:228`), but the second `send` to a peer that has
  gone raises SIGPIPE, for which nobody installs a handler, and the process ends.
- `stranded`: a handler has tested `running` and is about to call `read`. `server stop`
  closes its number; the acceptor, which has passed its own test, accepts one last
  connection and gets the same number; the handler calls `read` on that connection.
  Nobody shuts it down, since its own handler registers after `closeAllConnections` has
  cleared the vector, finds `running` false and only closes the number. So the strayed
  handler stays in `read` for as long as the new peer is silent, and the peer keeps
  an open socket, which the note at `server.cpp:116` says `server stop` avoids.
  After a restart the `close` of a late handler does the like to a connection of the new run.
  `stop` shows that a strayed handler is the only one that can be left behind, and
  `FirstRunStraysOnce` that there is never a second one.
- `child`: the child of a command that cannot be executed calls `exit()` ("Exit child process on
  failure", `disk.cpp:107`) and so `~Server` on its copy of the server: every
  connection of the parent is shut down, and the next broadcast of the parent to one of
  them raises SIGPIPE in Lunix. So one mistyped `./` command disconnects everybody, which
  `server.cpp:116` reserves for `server stop`. `chat` shows what still holds: the command
  returns to the prompt, unless a handler had the mutex at the fork.
- `exit`: the server reads `CHAT ...` and `DISS` in one `read` and takes the second for
  part of the first. The connection stays open; the echo reaches the client's receive
  thread while `running` is still true, the thread enters `recv` again, and the `join`
  waits until somebody else says something or the server stops (`chat` shows that this
  frees it). The prompt at `client.cpp:133`
  promises that `/exit` quits.

What the code does not keep, although the source says it, beyond those runs. Each is stated in its module and
refuted by TLC when it is added to the run named here:

- `FailedChildExits` (`chat`): "Exit child process on failure" (`disk.cpp:107`). If a handler has
  `clientMutex` at the moment the shell forks, the child of a
  command that cannot be executed does not exit: its copy of the mutex is locked by a thread
  it does not have, its `~Server` waits for it, and the shell waits for the child.
  `FailedCommandReturns` says that this is the only way for such a command not to return.
- `StopReturns` (`chat`): "ALWAYS type 'server stop' to stop the server!" (`server.cpp:116`). A client that
  waits for its user to type a name (`client.cpp:100`) is
  already sent the broadcasts, and does not read them. Once its buffers are full, the next
  broadcast waits in `send` with `clientMutex`, and `server stop`, the other handlers and an
  exiting Lunix wait for the mutex until that user types. `StopFreesClients` and `ExitEnds` exempt a
  broadcast that is blocked in this way for ever (`Stalled`), and nothing that ends; `stop` shows
  that `StopReturns` holds when peers read.
- `PromptMeansAuthenticated` (`handshake`): "Check for USER_OK in the response" (`client.cpp:109`).
  `strstr(buffer, "USER_OK")`, at lines 110 and 116, also finds the
  text in another user's line or name, so a client can tell its user "User authentication successful"
  while the server has not read its `USER_SET`. `PromptIsNamed` is what is true instead: the
  `USER_SET` is then the next thing its handler reads, so nothing the user types comes in
  front of the name, and no command of his is refused (`NeverRefused`).
- `PasswdChangesPassword` (`accounts`): "Change the password for a user" (`lsh.cpp:50`, `86`).
  `passwd` adds a line, and the old password is accepted as before. `ImplementsAccounts` does not
  contradict this: `Accounts` says what the code keeps, and lets a pair be added but not replaced.

One observation that no document of the repository speaks against: a ping leaves its
number in `clientSockets`; a connection that gets the same number is sent every
broadcast twice, and since `handleClient` broadcasts "has joined" before it sends
USER_OK and the client forgives only one read without it (`client.cpp:113`), a user who
pings and then connects can be told "User authentication failed" although the server
has authenticated him.

The safety properties of `session` are stated for one run of the server on purpose:
across a restart a late handler does read from, and speak for, a connection that is
not its own. `SessionSpec` has no `stop`.

The theorems about `LispHost` say the same of the first run before its stop; what remains true after
it is the subject of `FirstRunRefusesNobody` and `FirstRunStraysOnce`.

`HandshakeFailsByBroadcasts` is what remains true next to that observation: as long as
the server is up, the handshake is lost only to a broadcast in front of the `100` or to
two in front of USER_OK.

`PanicLoggedInRootfs` has three exceptions, which are the code's: a panic before the
mount is logged in the build directory, one where the last `cd` has left the rootfs wherever that
is, and one
in a directory somebody has removed nowhere. The boot loader tells its user to look in
`rootfs` (`lunix-bl/main.cpp:98`). `EofEnds` has two: the editor reads for ever
(`lsh.cpp:134`), and so does the prompt of a client that is connected (`client.cpp:135`),
unless the server ends the connection.
`FreshImageBoots` is about a script nothing has disturbed; `machine` contains the
disturbed ones, after which a boot is refused until the next `-b`.

## Proofs

Everything is proved for arbitrary sets of connections, descriptors, processes, names,
directories and terminals and all values of the bounds, from the named assumptions on the
constants alone.

`LispServer_proofs`:

- `TypeCorrect`. `TypeOK` is not inductive by itself, because the handlers use the
  number they were given; `TypeInv` adds that a handler that has been started holds one.
- `RestartIsSafe`. `StopInv`: `serverThread` is joinable exactly while the acceptor
  thread exists, and a shell outside `stop()` that finds `running` false has no such
  thread.
- `DescriptorsAreOwned`. `DescriptorInv` adds that a connection nobody has accepted
  has no handler; without it `RunAccept` could restart one.
- `IterationIsStable`. `LockInv`: exactly the thread inside a loop owns the mutex. The
  only actions that change `clientSockets` need the mutex free or give it up.
- `OpenAreRegistered`. `RegisteredInv`: while `closeAllConnections` goes through the
  vector, any number it has passed and that refers to a connection again belongs to a
  handler that still waits for the mutex, and so registers after the `clear`.
- `HandlersReadTheirOwn`, `ChatsAreAttributed`. `SessionInv`: in one run a number is
  closed by its own handler only, so no two serving handlers hold one number, each
  reads from its own connection, and the map holds under its number the name its own
  peer chose.

`LispRoom_proofs`:

- `RoomIsImplemented`: `RoomSpec => ImplementsRoom`. The invariants of `LispServer` carry
  over, because nothing reads `said`. `RoomInv` adds, of each connection, what its handler has
  said and is about to say (`Speaker`: the flag `authenticated` is set exactly by who has said
  "joined" or is about to) and what it has been shown (`Hearer`: a connection that is open and
  has been shown anything has been shown the last broadcast, or the one before it while the
  last is on its way and has not passed its number; one that has been shown nothing has not
  entered, or its entrance is what is on its way). `Hearer` is what rests on
  `OpenAreRegistered` and `DescriptorsAreOwned`: a number in the vector reaches the
  connection that holds it now, and every open one is in the vector. Each handler step then
  maps to one step of `ChatRoom` or to a stutter.
- `DeliveryIsOrdered`. `OrderInv` says of what a connection has been sent that the numbers of its
  broadcasts never decrease and that none between two of them is missing. A send keeps
  this because, by `Hearer`, the connection's last number is the one on its way or the
  one before it.

`LispChat_proofs`, for clients that send all five commands:

- `ReceiverIsJoined`. `ClientTypeOK` is inductive: a `connectToServer()` only ends
  without a receive thread or after its join.
- `NobodyIsRefused`, `PromptsAreNamed`, in one run of the server. `ChatInv` joins the
  invariants of `LispServer`, which hold with these peers too (by `ClientTouches` a client
  adds at most one command and never goes back to waiting for `accept`), with
  `DialogueInv`, how far the two ends of a connection can be apart: until the
  handler has authenticated its client at most one command is unread, and it is the
  one the client has just sent (`Unread`); after that the unread commands are `CHAT`s with at
  most one `DISS` at the end, so that whatever a read joins begins with `CHAT` or is
  `DISS` alone (`TalkRead`). A `100` on its way means that the request has been read, a
  USER_OK that the flag is set (`Answers`, `Mail`), and replies go to the handler's
  own connection, which is what `SessionInv` is needed for. A client that a broadcast has let
  in early has its `USER_SET` at the head of what is unread, and whatever it sends goes behind it.

- `BroadcastsAreTheOnlyReason`, in one run of the server. Two things about each connection
  strengthen `ChatInv` to `HandshakeInv`. `Progress`: which replies have been sent and how many
  messages have been read at each statement of the handshake; there is one reply at
  most before the name is sent, the `100`, so a first read without it in front has
  read a broadcast; and whatever follows the first message is a broadcast or the USER_OK, so a
  read that brought no USER_OK has brought a broadcast. `Excuse`: a client that was turned away, or
  reads a second time for USER_OK, has read one broadcast, one that has given up has
  read two, unless its connection has ended. The last case is kept because an
  ended connection stays ended (`EndStaysEnded`): a number is given only to connections from
  the backlog, and a handler that reads has its connection open.

`LispHost_proofs`, about the whole process: clients, any number of starts and stops, children
and `exit()`:

- `HostRestartIsSafe`, `HostDescriptorsAreOwned`, `HostOpenAreRegistered`,
  `HostIterationIsStable`, `HostReceiversAreJoined`: what `LispServer_proofs` and
  `LispChat_proofs` show of the server with arbitrary peers and of its clients. Nothing
  is proved twice: a server step is one of `LispServer`; a client's `Touches` its own
  connection only; a child moves nothing of the parent but `shut`; and what `Die` changes no
  invariant reads.
- `ExitHasJoined`. `ExitInv`: once the shell has begun to exit, `running` stays false, since
  only that shell could start the server again. With `StopInv` this gives that no joinable
  thread is left when `Exits` is reached.

`LispFirstRun_proofs`, about the same process in the first run of the server:

- `FirstRunExcuses`, `FirstRunKnowsItsMembers`, `FirstRunAttributes`, `FirstRunReadsItsOwn`. `FirstInv`: while there has
  been one start at most and no stop, `SessionInv`, `DialogueInv` and `HandshakeInv` hold.
  Children and `exit()` keep them (`ChildFrame`, `ExitFrame`): a child holds only connections
  its parent has had, and closing its copies ends connections and opens none. The hypothesis
  of the last three ends with the stop: from then on a handler may stray, which makes
  `OwnConnection` false (`stranded`), and the cleared map no longer has the names.
- `FirstRunRefusesNobody`, `FirstRunStraysOnce`, also during the stop and after
  it. `AfterInv`: the acceptor accepts one connection at most, the newcomer, after `running` has
  become false, and its own handler reads nothing. `Old`: every other
  connection goes on with its own dialogue. At most one of their handlers
  (`OneRival`) holds the newcomer's number. If it reads the newcomer, it finds the first command of a client that has
  had no reply (`SilenceInv`), and after one reply it finds `running` false. So the newcomer
  gets one reply at most, a `100` or a `200`, and no refusal (`Polite`). With a second start all this ends, since `running` is true again.

`UserMan_proofs`:

- `TypeCorrect`, `ShellEchoes`. The first rests on lemmas about lines: what `Appends`
  adds is accepted exactly for names without a dot and never disturbs other lines; what
  `createPasswordFile` writes is a password of root.
- `RacesLockNobodyOut`. `Linked` says of a process that has the file of the rootfs open that it
  is at the prompt for root's password and that the file exists. `NoLockoutByRaces` is inductive with it: a
  file without root's line has a process that will write it, or has been marked in `rootless`.
- `Implementation`. `UserInv`: a process has a user exactly when it is in the shell, so a login
  maps to a `LogIn` of `Accounts` and a command to one of a user who is logged in. Each action maps to
  a step of `Accounts` or to a stutter; that `passwd` and `editor` add one accepted pair or none
  follows from the lemmas, and that `rm` loses all or nothing from what `authenticate` reads.

`Machine_proofs`, about `MachineInv`, the conjunction of the four invariants named here:

- `TypeCorrect`. `TypeInv` adds that the build directory is never removed.
- `ZeroIsShutdown`, `OrphansTakeNoCommand`. `ProcessInv`: `LevelsFit` gives both
  runlevels for every place a process can be at and for every way it can have ended;
  `LoaderFits` says that a boot loader that does not wait has no child, or one that was left
  alone inside `system()` and has no input: it is still there, or on the way from the login or the
  prompt to its end.
- `PanicsAreLogged`. `HomeInv`: a process is in the build directory up to the mount,
  and afterwards in the rootfs, in a removed directory, or where a `cd` has put it.
- `FreshImagesBoot`. `HashInv`: what an undisturbed script and the check behind it
  know of image and hash; any other script withdraws the assumption.
- `RunlevelsAreKept`: `MachineSpec => ImplementsRunlevels`. `LevelsFit` turns each
  action of `Lunix` into one step of `Runlevels` or a stutter; the actions of the
  boot loader are stutters, but for those that start or lose a process.

Frame lemmas (`LunixFrame`, `Untouched`) say once what the step of one process leaves of
another: everything but its working directory, which may become `Gone`.

Only model-checked: all liveness properties (`EofEnds`, `EveryMemberHears`, those of `stop` and of `chat`),
which are out of the prover's reach. Every invariant and action property that a passing run checks is the subject of a theorem.

## Not modelled

- In the server: bytes. A `USER_SET` without an argument (`server.cpp:204`, an uncaught
  exception), reads of 1024 bytes (`server.cpp:195`), commands split over reads. Other
  files' use of descriptor numbers. A listening socket that a child has inherited. A panic in a handler's
  thread ends the process at once; its log and its `exit()` are not followed there.
- In the client: a `connect()` that fails, bytes, Ctrl-C. The end of its input is in `Lunix` only.
- In the user manager: what `nano` or a program does to `.passwd`, and `rm -R` of the directory it is in.
- In the shell and the disk: files other than `.passwd`, the steps of `remove_all` beyond
  "nothing, what is below, everything", a full or write-protected disk other than as an
  exception. Whose shell it is matters in `UserMan` only.
- In the error handler: `oops_count`; `rootfs()` can raise one oops per process, and the
  tenth panics. `restart_after_panic` is never set, so no panic restarts the boot loader.
- In the boot loader: `-r` and `-h`, which print; another program at the recovery path;
  `cp` and `mv` of the script as two steps.
- `halt`, `halt_`, `dexec`, `fopen`, `fread`, `fwrite` and `fclose` are called by nobody.
- Colours, the other scripts and the web page have no state in the running system.

## Plan

1. Done: `LispServer`, `UserMan`, `Accounts`, their runs and proofs; `LispChat` and its runs.
2. Done: `Runlevels`, `Lunix`, `Bootloader`, `Machine`, their run and proofs; `LispHost`
   and its runs.
3. Done: `ChatRoom`, implemented by one run of the server with arbitrary peers; its runs and proof.
4. The bytes of the protocol: commands of a given length, the buffer of 1024, reads that
   end anywhere, and what `substr` throws.
5. Done: the proofs of `LispChat`, `LispHost` and of the first run.
6. Done: what is left of the first run after its stop.
7. That the first run with Lunix clients implements `ChatRoom`, too.
