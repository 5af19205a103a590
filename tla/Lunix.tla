------------------------------- MODULE Lunix --------------------------------
(***************************************************************************)
(* The Lunix process from main() to exit(): kernel::start and shutdown     *)
(* (kernel.cpp), mounting the rootfs (disk.cpp), the error handler         *)
(* (error_handler.cpp) and the command loop of lsh (lsh.cpp).  One process *)
(* per terminal; they are started in one build directory, so all of them   *)
(* mount the same rootfs.  The login is abstracted here to its outcome     *)
(* (module UserMan has it in full), the server and the client are in       *)
(* LispServer, LispChat and LispHost.                                      *)
(*                                                                         *)
(* Of the files only the directories Lunix makes are kept.  An oops is     *)
(* left out: rootfs() can raise one per process and the tenth panics.      *)
(***************************************************************************)
EXTENDS Integers

CONSTANTS
  Terminals,
  Build, RootFS, Modules,  \* the build directory, rootfs and rootfs/modules
  Gone                     \* a working directory that has been removed

ASSUME DirectoriesAssumption ==
  /\ Build \notin {RootFS, Modules, Gone}
  /\ RootFS \notin {Modules, Gone}
  /\ Modules # Gone

VARIABLES
  pc,              \* where each process is
  runlevel,        \* runlevel of the kernel object in main()
  globalRunlevel,  \* runlevel of the kernel object in disk.cpp
  cwd,             \* the working directory
  input,           \* cin has not met the end of the input
  strayed,         \* its last cd was to elsewhere than the rootfs (ghost)
  log,             \* where a panic has written kernel.log; Build if none has
  status,          \* how the process ended: "0", "1", "signal", or "none"
  dirs             \* the directories that exist

levels    == <<runlevel, globalRunlevel>>
session   == <<cwd, input, strayed, log>>
lunixVars == <<pc, levels, session, status, dirs>>

Parent == [d \in {RootFS, Modules} |-> IF d = RootFS THEN Build ELSE RootFS]
Below(d) == IF d = RootFS THEN {RootFS, Modules} ELSE {d}

LunixInit ==
  /\ pc = [t \in Terminals |-> "off"]
  /\ runlevel = [t \in Terminals |-> 0]
  /\ globalRunlevel = [t \in Terminals |-> 0]
  /\ cwd = [t \in Terminals |-> Build]
  /\ input = [t \in Terminals |-> TRUE]
  /\ strayed = [t \in Terminals |-> FALSE]
  /\ log = [t \in Terminals |-> Build]
  /\ status = [t \in Terminals |-> "none"]
  /\ dirs = {Build}

-----------------------------------------------------------------------------
At(t, from)  == pc[t] = from
Goto(t, to)  == pc' = [pc EXCEPT ![t] = to]
Goes(t, to)  == Goto(t, to) /\ UNCHANGED <<levels, session, status, dirs>>

\* ErrHandler.panic(), and an exception nobody catches: terminate() aborts, and
\* the handler of SIGABRT panics.
Panic(t)    == Goes(t, "panic")
Uncaught(t) == Panic(t)

\* What the process knew is gone; how it ended, and its runlevels, stay to be
\* spoken of until somebody has waited for it.
Leaves(t) ==
  /\ Goto(t, "off")
  /\ cwd' = [cwd EXCEPT ![t] = Build]
  /\ input' = [input EXCEPT ![t] = TRUE]
  /\ strayed' = [strayed EXCEPT ![t] = FALSE]
  /\ log' = [log EXCEPT ![t] = Build]
  /\ UNCHANGED dirs

Ends(t, how) ==
  /\ Leaves(t)
  /\ status' = [status EXCEPT ![t] = how]
  /\ UNCHANGED levels

IsReaped(t) ==
  /\ status' = [status EXCEPT ![t] = "none"]
  /\ runlevel' = [runlevel EXCEPT ![t] = 0]
  /\ globalRunlevel' = [globalRunlevel EXCEPT ![t] = 0]

\* The processes that are in a removed directory stay in it.
Remove(S) ==
  /\ dirs' = dirs \ S
  /\ cwd' = [u \in Terminals |-> IF cwd[u] \in S THEN Gone ELSE cwd[u]]
Removes(t, S, to) ==
  /\ Remove(S) /\ Goto(t, to)
  /\ UNCHANGED <<levels, input, strayed, log, status>>

Makes(t, d, to) ==
  /\ dirs' = dirs \cup {d} /\ Goto(t, to)
  /\ UNCHANGED <<levels, session, status>>

\* kernel::crl() of the object in main().
crl(t, level, to) ==
  /\ runlevel' = [runlevel EXCEPT ![t] = level] /\ Goto(t, to)
  /\ UNCHANGED <<globalRunlevel, session, status, dirs>>

-----------------------------------------------------------------------------
(* main(), kernel::start() and disk::rootfs().                             *)

Main(t) ==
  /\ At(t, "off") /\ Goto(t, "start")
  /\ UNCHANGED <<levels, session, status, dirs>>

\* check_sudo() panics for root.
Start(t) == At(t, "start") /\ \E to \in {"rootfs", "panic"} : crl(t, 1, to)

FindRootfs(t) ==
  At(t, "rootfs") /\ Goes(t, IF RootFS \in dirs THEN "enter" ELSE "ask")

\* y; n; and anything else, which asks again by a recursive call.
Ask(t) ==
  At(t, "ask") /\ input[t] /\ \E to \in {"create", "panic", "rootfs"} : Goes(t, to)

\* After the end of the input every answer is empty, and the recursion goes on
\* until the stack, on which the handler of SIGSEGV would run, is exhausted.
AskOverflows(t) == At(t, "ask") /\ ~input[t] /\ Ends(t, "signal")

\* create_directory() returns false if the directory is there by now and throws
\* if it cannot be made; both end in a panic.
CreateRootfs(t) ==
  /\ At(t, "create")
  /\ \/ RootFS \notin dirs /\ Makes(t, RootFS, "enter")
     \/ Panic(t)

\* Mutant of EnterRootfs: an error of current_path() is passed over.
EnterPassesOver(t) ==
  /\ At(t, "enter") /\ Goto(t, "modules")
  /\ cwd' = [cwd EXCEPT ![t] = IF RootFS \in dirs THEN RootFS ELSE @]
  /\ UNCHANGED <<levels, input, strayed, log, status, dirs>>

EnterRootfs(t) ==
  /\ At(t, "enter")
  /\ \/ /\ RootFS \in dirs
        /\ cwd' = [cwd EXCEPT ![t] = RootFS] /\ Goto(t, "modules")
        /\ UNCHANGED <<levels, input, strayed, log, status, dirs>>
     \/ RootFS \notin dirs /\ Panic(t)

FindModules(t) ==
  At(t, "modules") /\ Goes(t, IF Modules \in dirs THEN "list" ELSE "mkmodules")

\* directory_iterator throws if the directory has been removed meanwhile.
ListModules(t) ==
  /\ At(t, "list")
  /\ IF Modules \in dirs THEN Goes(t, "devices") ELSE Uncaught(t)

\* Mutant of CreateModules: the parent is not asked for.
CreateModulesAnywhere(t) == At(t, "mkmodules") /\ Makes(t, Modules, "devices")

\* create_directory() throws without its parent or if it cannot make the
\* directory; a process that finds it made by now raises an oops and goes on.
CreateModules(t) ==
  /\ At(t, "mkmodules")
  /\ \/ RootFS \in dirs /\ Makes(t, Modules, "devices")
     \/ Uncaught(t)

\* Runlevel 2, in which the network is tested, and runlevel 3.
Devices(t)   == At(t, "devices") /\ crl(t, 2, "nettest")
SelfTests(t) == At(t, "nettest") /\ crl(t, 3, "login")

-----------------------------------------------------------------------------
(* lsh::lshStart().                                                        *)

\* Mutant of LoginName: the end of the input is not noticed.
LoginNameIgnoresEof(t) == At(t, "login") /\ Goes(t, "password")

\* Without a name the login fails, as often as is needed for exit(1).
LoginName(t) ==
  /\ At(t, "login")
  /\ IF input[t] THEN Goes(t, "password") ELSE Ends(t, "1")

\* Mutant of LoginPassword: the shell does not change the runlevel.
LoginKeepsRunlevel(t) ==
  /\ At(t, "password")
  /\ \/ input[t] /\ Goes(t, "login")
     \/ Ends(t, "1")
     \/ Goes(t, "prompt")

\* The login fails, for the last time or not, or the shell of that user starts
\* and sets the runlevel of the other kernel object.
LoginPassword(t) ==
  /\ At(t, "password")
  /\ \/ input[t] /\ Goes(t, "login")
     \/ Ends(t, "1")
     \/ /\ Goto(t, "prompt")
        /\ globalRunlevel' = [globalRunlevel EXCEPT ![t] = 4]
        /\ UNCHANGED <<runlevel, cwd, input, strayed, log, status, dirs>>

\* current_path() throws in a directory that has been removed.
Prompt(t) ==
  /\ At(t, "prompt")
  /\ IF cwd[t] = Gone THEN Uncaught(t) ELSE Goes(t, "command")

Command(t) == At(t, "command") /\ input[t]

\* Mutant of Shutdown: the result of getline() is not tested.
ShutdownWhenTold(t) == Command(t) /\ crl(t, 0, "shutdown")

\* shutdown, exit, or the end of the input: lshStart() returns to
\* kernel::start(), which calls shutdown().
Shutdown(t) == At(t, "command") /\ crl(t, 0, "shutdown")

PowerOff(t) == At(t, "shutdown") /\ Ends(t, "0")

Cd(t) ==
  /\ Command(t) /\ Goto(t, "prompt")
  /\ \E d \in dirs :
       /\ cwd' = [cwd EXCEPT ![t] = d]
       /\ strayed' = [strayed EXCEPT ![t] = d # RootFS]
  /\ UNCHANGED <<levels, input, log, status, dirs>>

Pwd(t) == Command(t) /\ IF cwd[t] = Gone THEN Uncaught(t) ELSE Goes(t, "prompt")

\* create_directory() throws if the parent is missing or a file is in the way.
Mkdir(t) ==
  /\ Command(t)
  /\ \/ \E d \in {RootFS, Modules} : Parent[d] \in dirs /\ Makes(t, d, "prompt")
     \/ Uncaught(t)

\* remove() of a directory, which is empty if it holds no other directory and,
\* what is not kept here, no file: rm takes .passwd and kernel.log as well.
RemovesEmpty(t) ==
  \E d \in dirs \ {Build} : Below(d) \cap dirs = {d} /\ Removes(t, {d}, "prompt")

\* A failure of rm is reported with the result of a second attempt.
Rm(t) == Command(t) /\ (RemovesEmpty(t) \/ Goes(t, "unlink"))

RmAgain(t) == At(t, "unlink") /\ (RemovesEmpty(t) \/ Goes(t, "prompt"))

\* rm -R: remove_all() may throw, when it has removed some of what is below.
RmRecursive(t) ==
  /\ Command(t)
  /\ \E d \in dirs \ {Build} :
       \/ Removes(t, Below(d), "prompt")
       \/ \E S \in {{}, Below(d) \ {d}} : Removes(t, S, "panic")

\* A shell of root's can panic, by the command panic and by passwd without
\* arguments, whose substr(7) throws; whose shell it is UserMan says.
RootPanics(t) == Command(t) /\ Panic(t)

\* simpleEditor() reads lines up to ":wq!", and for ever after the end of the
\* input.
Editor(t)    == Command(t) /\ Goes(t, "editor")
EditorWq(t)  == At(t, "editor") /\ input[t] /\ Goes(t, "prompt")

\* nano, chmod and clear run in system(), as the network test does: until their
\* program ends Lunix ignores an interrupt.
SystemCommand(t) == Command(t) /\ Goes(t, "system")
SystemReturns(t) == At(t, "system") /\ Goes(t, "prompt")

\* client ping and client connect read an address, without which they fail.
ClientCommand(t) == Command(t) /\ Goes(t, "address")
ClientAddress(t) ==
  /\ At(t, "address")
  /\ Goes(t, "prompt") \/ (input[t] /\ Goes(t, "client"))

\* The prompt of a connected client does not test getline(): after the end of
\* the input it goes on for ever, unless the server ends the connection.
ClientReturns(t) == At(t, "client") /\ Goes(t, "prompt")

\* Everything else, failures of the above included, changes nothing here.
OtherCommand(t) == Command(t) /\ Goes(t, "prompt")

-----------------------------------------------------------------------------
(* error_handler: panic() ends in log_to_file() and exit(1).               *)

\* A kernel.log cannot be opened in a directory that has been removed.
LogPanic(t) ==
  /\ At(t, "panic") /\ Goto(t, "logged")
  /\ log' = [log EXCEPT ![t] = cwd[t]]
  /\ UNCHANGED <<levels, cwd, input, strayed, status, dirs>>

PanicExits(t) == At(t, "logged") /\ Ends(t, "1")

\* The user ends the input at a prompt.
EndInput(t) ==
  /\ input[t]
  /\ pc[t] \in {"ask", "login", "password", "command", "editor", "address", "client"}
  /\ input' = [input EXCEPT ![t] = FALSE]
  /\ UNCHANGED <<pc, levels, cwd, strayed, log, status, dirs>>

\* The process is killed by a signal nobody handles.
Killed(t) == pc[t] # "off" /\ Ends(t, "signal")

-----------------------------------------------------------------------------
\* What a process does on its own, and what its user makes it do.
Runs(t) ==
  \/ Start(t) \/ FindRootfs(t) \/ AskOverflows(t) \/ CreateRootfs(t)
  \/ EnterRootfs(t) \/ FindModules(t) \/ ListModules(t) \/ CreateModules(t)
  \/ Devices(t) \/ SelfTests(t) \/ Prompt(t) \/ RmAgain(t) \/ PowerOff(t)
  \/ LogPanic(t) \/ PanicExits(t)
  \/ ~input[t] /\ (LoginName(t) \/ LoginPassword(t) \/ Shutdown(t)
                     \/ SystemReturns(t) \/ ClientAddress(t))

Typed(t) ==
  \/ Ask(t) \/ EditorWq(t) \/ Cd(t) \/ Pwd(t) \/ Mkdir(t) \/ Rm(t)
  \/ RmRecursive(t) \/ RootPanics(t) \/ Editor(t) \/ OtherCommand(t)
  \/ SystemCommand(t) \/ ClientCommand(t) \/ ClientReturns(t)
  \/ input[t] /\ (LoginName(t) \/ LoginPassword(t) \/ Shutdown(t)
                    \/ SystemReturns(t) \/ ClientAddress(t))

-----------------------------------------------------------------------------
\* Types.  Whatever the processes make and remove at once, every directory's
\* parent exists, and a process is in a directory that exists or has been
\* removed (disk.cpp 24-81, 200-230).
LunixTypeOK ==
  /\ pc \in [Terminals -> {"off", "start", "rootfs", "ask", "create", "enter",
       "modules", "list", "mkmodules", "devices", "nettest", "login", "password",
       "prompt", "command", "unlink", "editor", "system", "address", "client",
       "shutdown", "panic", "logged"}]
  /\ runlevel \in [Terminals -> 0..3]
  /\ globalRunlevel \in [Terminals -> {0, 4}]
  /\ cwd \in [Terminals -> {Build, RootFS, Modules, Gone}]
  /\ {input, strayed} \subseteq [Terminals -> BOOLEAN]
  /\ log \in [Terminals -> {Build, RootFS, Modules, Gone}]
  /\ status \in [Terminals -> {"none", "0", "1", "signal"}]
  /\ dirs \subseteq {Build, RootFS, Modules}
  /\ \A d \in dirs \ {Build} : Parent[d] \in dirs
  /\ \A t \in Terminals : cwd[t] \in dirs \cup {Gone}

\* The boot loader sends its user to the rootfs for the logs of a panic
\* (lunix-bl/main.cpp 98): a panic is written elsewhere only before the rootfs
\* is mounted or where the last cd of its shell has left it, and is lost only if another
\* process has removed the directory (error_handler.cpp 24-62, 147-155).
PanicLoggedInRootfs ==
  \A t \in Terminals :
    At(t, "logged") =>
      log[t] \in {RootFS, Gone} \/ strayed[t] \/ (runlevel[t] = 1 /\ log[t] = Build)

\* The end of the input ends the process, wherever it meets it, but in the
\* two loops that never test getline(): the editor, and the prompt of a client
\* that is connected (disk.cpp 34-50, lsh.cpp 128-140, 197-200, 296-307,
\* userman.cpp 47-74, client.cpp 135-148).
EofEnds ==
  \A t \in Terminals : ~input[t] ~> pc[t] \in {"off", "editor", "client"}

-----------------------------------------------------------------------------
(* The two kernel objects together keep to the runlevels of kernel.h.      *)

phase == [t \in Terminals |->
  IF At(t, "off") THEN "off" ELSE IF At(t, "shutdown") THEN "halted" ELSE "on"]

level == [t \in Terminals |->
  IF At(t, "off") THEN 0
  ELSE IF runlevel[t] = 3 /\ globalRunlevel[t] = 4 THEN 4 ELSE runlevel[t]]

R == INSTANCE Runlevels

\* A Lunix passes through the runlevels in their order and reaches 0 again only
\* from its shell, although 1 to 3 and 0 are set in one object and 4 in another
\* (kernel.h 32-40, kernel.cpp 41-48, 76-119, lsh.cpp 174).
ImplementsRunlevels == R!Spec

=============================================================================
