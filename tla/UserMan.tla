------------------------------ MODULE UserMan -------------------------------
(***************************************************************************)
(* The user manager of Lunix (lunix-sys/kernel/security/userman.cpp) and   *)
(* the commands of the shell that use it.  Several Lunix processes may run *)
(* on one rootfs, each on a terminal of its own; the password file is all  *)
(* they share, and any of them may be interrupted at any point.            *)
(*                                                                         *)
(* A name is the sequence of its parts between dots, a line of the file    *)
(* the parts of a name followed by a hash.  All lines are taken to have    *)
(* one length, so a write at the start of the file replaces its first line.*)
(* The shell's own commands on the files are passwd, editor and rm; what    *)
(* nano or another program does to them, and the removal of the directories *)
(* themselves, is left out.                                                 *)
(***************************************************************************)
EXTENDS Integers, Sequences, FiniteSets

CONSTANTS
  Kernels,    \* the Lunix processes, one per terminal
  Dirs,       \* the directories the shell can be in
  RootFS,     \* the one every process starts in
  Names,      \* the names users type, sequences of parts
  Root,       \* the name "root"
  NoName,     \* currentUsername of a process nobody has logged in to
  Passwords,
  Hash,       \* hashPassword()
  MaxLines    \* bound: lines passwd makes a password file grow to

ASSUME DirsAssumption == RootFS \in Dirs
ASSUME NamesAssumption ==
  /\ Root \in Names /\ NoName \notin Names
  /\ \A n \in Names : n \in Seq(STRING) /\ n # <<>>
  /\ Len(Root) = 1
\* SHA-256 is taken to be free of collisions.
ASSUME HashAssumption ==
  /\ Hash \in [Passwords -> STRING]
  /\ \A p, q \in Passwords : Hash[p] = Hash[q] => p = q
ASSUME MaxLinesAssumption == MaxLines \in Nat

VARIABLES
  pc,               \* where each process is
  attempts,         \* its failed logins, while it runs initialize()
  currentUsername,  \* UserManager::currentUsername
  cwd,              \* its working directory
  echo,             \* its terminal echoes what is typed
  exists,           \* the directory has a .passwd
  passwd,           \* its lines
  linked,           \* the file its createPasswordFile() has open is that .passwd
  rootless          \* RootFS's was made, or left, without root's line (ghost)

fileVars == <<exists, passwd, linked, rootless>>
vars == <<pc, attempts, currentUsername, cwd, echo, fileVars>>

maxAttempts == 3

Line == Seq(STRING)

\* username << "." << hash, and the two getline() that take it apart: the
\* first stops at the first dot, the second takes the rest.
Format(name, hash)       == Append(name, hash)
Matches(line, name, hash) == <<Head(line)>> = name /\ Tail(line) = <<hash>>

\* authenticate(): the first line that matches decides, so any line does.
Authenticate(dir, name, password) ==
  /\ exists[dir]
  /\ \E i \in 1..Len(passwd[dir]) : Matches(passwd[dir][i], name, Hash[password])

isRoot(k) == currentUsername[k] = Root

Init ==
  /\ pc = [k \in Kernels |-> "off"]
  /\ attempts = [k \in Kernels |-> 0]
  /\ currentUsername = [k \in Kernels |-> NoName]
  /\ cwd = [k \in Kernels |-> RootFS]
  /\ echo = [k \in Kernels |-> TRUE]
  /\ exists = [d \in Dirs |-> FALSE]
  /\ passwd = [d \in Dirs |-> <<>>]
  /\ linked = [k \in Kernels |-> FALSE]
  /\ rootless = FALSE

-----------------------------------------------------------------------------
Goto(k, to)  == pc' = [pc EXCEPT ![k] = to]
SetEcho(k, on) == echo' = [echo EXCEPT ![k] = on]

\* What a process knew is gone with it; the next one starts in the rootfs.
Ends(k) ==
  /\ Goto(k, "off")
  /\ attempts' = [attempts EXCEPT ![k] = 0]
  /\ currentUsername' = [currentUsername EXCEPT ![k] = NoName]
  /\ cwd' = [cwd EXCEPT ![k] = RootFS]

Boot(k) ==
  /\ pc[k] = "off"
  /\ Goto(k, "initialize")
  /\ UNCHANGED <<attempts, currentUsername, cwd, echo, fileVars>>

\* initialize(): passwordFileExists()
Initialize(k) ==
  /\ pc[k] = "initialize"
  /\ Goto(k, IF exists[RootFS] THEN "username" ELSE "create")
  /\ UNCHANGED <<attempts, currentUsername, cwd, echo, fileVars>>

\* createPasswordFile(): the ofstream truncates whatever is there by now, and
\* then the password is asked for.  The file may also fail to open.
CreateOpen(k) ==
  /\ pc[k] = "create"
  /\ \/ /\ exists' = [exists EXCEPT ![RootFS] = TRUE]
        /\ passwd' = [passwd EXCEPT ![RootFS] = <<>>]
        /\ linked' = [linked EXCEPT ![k] = TRUE]
        /\ rootless' = FALSE
        /\ SetEcho(k, FALSE)
        /\ Goto(k, "newpassword")
     \/ /\ Goto(k, "username")
        /\ UNCHANGED <<echo, fileVars>>
  /\ UNCHANGED <<attempts, currentUsername, cwd>>

\* Mutant of CreateWrite: an empty answer writes no line.
CreateWriteNonEmpty(k) ==
  /\ pc[k] = "newpassword"
  /\ linked' = [linked EXCEPT ![k] = FALSE]
  /\ SetEcho(k, TRUE)
  /\ Goto(k, "username")
  /\ UNCHANGED <<attempts, currentUsername, cwd, exists, passwd, rootless>>

\* The line is written when the stream is closed, at the stream's own
\* position, the start of the file; of a file that has been removed nobody
\* reads it.
CreateWrite(k) ==
  /\ pc[k] = "newpassword"
  /\ \/ /\ linked[k]
        /\ \E p \in Passwords :
             passwd' = [passwd EXCEPT ![RootFS] =
                          <<Format(Root, Hash[p])>> \o SubSeq(@, 2, Len(@))]
     \/ ~linked[k] /\ UNCHANGED passwd
  /\ linked' = [linked EXCEPT ![k] = FALSE]
  /\ SetEcho(k, TRUE)
  /\ Goto(k, "username")
  /\ UNCHANGED <<attempts, currentUsername, cwd, exists, rootless>>

\* login(): the name is read as the terminal is, the password without echo.
LoginUsername(k) ==
  /\ pc[k] = "username"
  /\ SetEcho(k, FALSE)
  /\ Goto(k, "password")
  /\ UNCHANGED <<attempts, currentUsername, cwd, fileVars>>

\* Mutant of LoginFails: one attempt too many.
LoginOnceMore(k) ==
  \/ /\ attempts[k] < maxAttempts
     /\ attempts' = [attempts EXCEPT ![k] = @ + 1]
     /\ Goto(k, "username")
     /\ UNCHANGED <<currentUsername, cwd>>
  \/ /\ attempts[k] >= maxAttempts
     /\ Ends(k)

\* initialize() counts the failures and leaves with exit(1) after the last.
LoginFails(k) ==
  \/ /\ attempts[k] + 1 < maxAttempts
     /\ attempts' = [attempts EXCEPT ![k] = @ + 1]
     /\ Goto(k, "username")
     /\ UNCHANGED <<currentUsername, cwd>>
  \/ /\ attempts[k] + 1 >= maxAttempts
     /\ Ends(k)

LoginSucceeds(k, n) ==
  /\ currentUsername' = [currentUsername EXCEPT ![k] = n]
  /\ attempts' = [attempts EXCEPT ![k] = 0]
  /\ Goto(k, "shell")
  /\ UNCHANGED cwd

\* Mutant of LoginPassword: a successful login returns before the echo is
\* restored.
LoginReturnsEarly(k) ==
  /\ pc[k] = "password"
  /\ \E n \in Names, p \in Passwords :
       IF Authenticate(RootFS, n, p) THEN LoginSucceeds(k, n) /\ UNCHANGED echo
                                     ELSE LoginFails(k) /\ SetEcho(k, TRUE)
  /\ UNCHANGED <<fileVars>>

LoginPassword(k) ==
  /\ pc[k] = "password"
  /\ SetEcho(k, TRUE)
  /\ \E n \in Names, p \in Passwords :
       IF Authenticate(RootFS, n, p) THEN LoginSucceeds(k, n) ELSE LoginFails(k)
  /\ UNCHANGED <<fileVars>>

\* The command cd.
Chdir(k) ==
  /\ pc[k] = "shell"
  /\ \E d \in Dirs : cwd' = [cwd EXCEPT ![k] = d]
  /\ UNCHANGED <<pc, attempts, currentUsername, echo, fileVars>>

\* A stream opened with app on the .passwd of the working directory, which it
\* creates where there is none, and a line written to it.
Appends(k, line) ==
  /\ Len(passwd[cwd[k]]) < MaxLines
  /\ exists' = [exists EXCEPT ![cwd[k]] = TRUE]
  /\ passwd' = [passwd EXCEPT ![cwd[k]] = Append(@, line)]
  /\ rootless' = (rootless \/ (cwd[k] = RootFS /\ ~exists[RootFS]))
  /\ UNCHANGED <<pc, attempts, currentUsername, cwd, echo, linked>>

\* Mutant of SetPassword: the stream is opened without app.
SetPasswordTruncates(k, n, p) ==
  /\ pc[k] = "shell" /\ isRoot(k)
  /\ exists' = [exists EXCEPT ![cwd[k]] = TRUE]
  /\ passwd' = [passwd EXCEPT ![cwd[k]] = <<Format(n, Hash[p])>>]
  /\ UNCHANGED <<pc, attempts, currentUsername, cwd, echo, linked, rootless>>

\* The command passwd, and setPassword().
SetPassword(k, n, p) ==
  /\ pc[k] = "shell" /\ isRoot(k)
  /\ Appends(k, Format(n, Hash[p]))

\* The command editor, with which any user may write any line; the lines that
\* are nobody's account are left out.
Edit(k, n, p) ==
  /\ pc[k] = "shell"
  /\ Appends(k, Format(n, Hash[p]))

\* The command rm, which protects the name .passwd from all but root, but
\* neither ./.passwd nor, with -R, any name.
Remove(k, d) ==
  /\ pc[k] = "shell" /\ exists[d]
  /\ exists' = [exists EXCEPT ![d] = FALSE]
  /\ passwd' = [passwd EXCEPT ![d] = <<>>]
  /\ linked' = [j \in Kernels |-> linked[j] /\ d # RootFS]
  /\ rootless' = (rootless /\ d # RootFS)
  /\ UNCHANGED <<pc, attempts, currentUsername, cwd, echo>>

\* exit, shutdown, or the end of the input.
Exit(k) ==
  /\ pc[k] = "shell"
  /\ Ends(k)
  /\ UNCHANGED <<echo, fileVars>>

\* The process is interrupted; the terminal and the files stay as they are,
\* and what the stream has buffered is lost.
Interrupt(k) ==
  /\ pc[k] # "off"
  /\ Ends(k)
  /\ linked' = [linked EXCEPT ![k] = FALSE]
  /\ rootless' = (rootless \/ linked[k])
  /\ UNCHANGED <<echo, exists, passwd>>

Step(k) ==
  \/ Boot(k) \/ Initialize(k) \/ CreateOpen(k) \/ CreateWrite(k)
  \/ LoginUsername(k) \/ LoginPassword(k) \/ Chdir(k)
  \/ \E n \in Names, p \in Passwords : SetPassword(k, n, p) \/ Edit(k, n, p)
  \/ \E d \in Dirs : Remove(k, d)
  \/ Exit(k) \/ Interrupt(k)

Next == \E k \in Kernels : Step(k)

Spec == Init /\ [][Next]_vars

-----------------------------------------------------------------------------
KernelPC == {"off", "initialize", "create", "newpassword", "username",
             "password", "shell"}

TypeOK ==
  /\ pc \in [Kernels -> KernelPC]
  /\ attempts \in [Kernels -> 0..2]
  /\ currentUsername \in [Kernels -> Names \cup {NoName}]
  /\ cwd \in [Kernels -> Dirs]
  /\ echo \in [Kernels -> BOOLEAN]
  /\ exists \in [Dirs -> BOOLEAN]
  /\ passwd \in [Dirs -> Seq(Line)]
  /\ linked \in [Kernels -> BOOLEAN]
  /\ rootless \in BOOLEAN

\* The shell always echoes, even on a terminal where an earlier process was
\* interrupted while it had the echo off (userman.cpp 17-38, 67-84).
EchoInShell == \A k \in Kernels : pc[k] = "shell" => echo[k]

\* A password file without a line for root, with which root can never log in
\* and which no later boot replaces, is only left behind by a process that ended
\* at the prompt for root's password, or made by a passwd or an editor after rm:
\* never by processes that boot at once, write over each other's file and have
\* it removed under them (userman.cpp 42-45, 86-115; disk.cpp 156-170, 216-222).
RootHasPassword == \E p \in Passwords : Authenticate(RootFS, Root, p)

NoLockoutByRaces ==
  exists[RootFS] => RootHasPassword \/ rootless \/ \E k \in Kernels : linked[k]

\* "Change the password for a user" (lsh.cpp 50, 86): after a passwd in the rootfs
\* no other password of that user is accepted.  It is not so: added to the run
\* accounts, TLC refutes it by any second passwd, which adds a line.
PasswdChangesPassword ==
  [][\A k \in Kernels, n \in Names, p \in Passwords :
       SetPassword(k, n, p) /\ cwd[k] = RootFS =>
         \A q \in Passwords \ {p} : ~Authenticate(RootFS, n, q)']_vars

-----------------------------------------------------------------------------
(* The accounts this amounts to.                                           *)

accepted == {np \in Names \X Passwords : Authenticate(RootFS, np[1], np[2])}
settled  == exists[RootFS] /\ \A k \in Kernels : pc[k] \notin {"create", "newpassword"}

A == INSTANCE Accounts WITH who <- currentUsername

\* The files, prompts, races and interruptions implement Accounts: only who
\* gave an accepted password is logged in, and once the first boot is over the
\* accepted passwords change by a command of a user who is logged in and by
\* nothing else: no boot, prompt or interruption of a kernel touches them, until
\* rm has taken the file away (userman.cpp 42-139; lsh.cpp 128-140, 234-255).
ImplementsAccounts == A!Spec

=============================================================================
