--------------------------- MODULE Machine_proofs ---------------------------
(***************************************************************************)
(* Theorems about Machine, for any number of terminals and builds.         *)
(***************************************************************************)
EXTENDS Machine, TLAPS

-----------------------------------------------------------------------------
(* The inductive invariant.                                                *)

Early   == {"start", "rootfs", "ask", "create", "enter"}
Mounted == {"modules", "list", "mkmodules", "devices"}
Logins  == {"login", "password"}
InShell == {"prompt", "command", "unlink", "editor", "system", "address", "client"}
Panics  == {"panic", "logged"}

\* MachineTypeOK, and the build directory is never removed.
TypeInv == MachineTypeOK /\ Build \in dirs

\* The runlevels, given where the process is or how it has ended.
LevelsFit(t) ==
  /\ pc[t] \in {"start", "shutdown"} => runlevel[t] = 0
  /\ pc[t] \in (Early \ {"start"}) \cup Mounted => runlevel[t] = 1
  /\ pc[t] = "nettest" => runlevel[t] = 2
  /\ pc[t] \in Logins \cup InShell => runlevel[t] = 3
  /\ pc[t] \in InShell \cup {"shutdown"} => globalRunlevel[t] = 4
  /\ pc[t] \in Early \cup Mounted \cup Logins \cup {"nettest"} => globalRunlevel[t] = 0
  /\ pc[t] \in Panics => \/ runlevel[t] = 1 /\ globalRunlevel[t] = 0
                         \/ runlevel[t] = 3 /\ globalRunlevel[t] = 4
  /\ pc[t] = "off" /\ status[t] = "none" => runlevel[t] = 0 /\ globalRunlevel[t] = 0
  /\ status[t] = "0" => runlevel[t] = 0 /\ globalRunlevel[t] = 4

\* What boot loader and process know of each other.
LoaderFits(t) ==
  /\ pc[t] # "off" => status[t] = "none"
  /\ loader[t] \notin {"off", "wait"} => pc[t] = "off"
  /\ loader[t] \notin {"off", "wait", "reported"} => status[t] = "none"
  /\ loader[t] # "wait" /\ pc[t] # "off" =>
       /\ ~input[t]
       /\ \/ pc[t] \in {"nettest", "system", "login", "prompt", "command", "shutdown"}
          \/ pc[t] \in Panics /\ cwd[t] = Gone

\* A process is in the build directory up to the mount, and outside the rootfs
\* afterwards only by cd.
HomeFits(t) ==
  /\ pc[t] \in Early \cup {"off"} => cwd[t] = Build
  /\ pc[t] \notin Early \cup {"off"} =>
       \/ cwd[t] \in {RootFS, Gone} \/ strayed[t]
       \/ pc[t] \in Panics /\ runlevel[t] = 1 /\ cwd[t] = Build
  /\ pc[t] = "logged" =>
       log[t] \in {RootFS, Gone} \/ strayed[t] \/ (runlevel[t] = 1 /\ log[t] = Build)

\* What an undisturbed script and the check behind it know of the files.
HashFits(t) ==
  undisturbed[t] /\ runPostBuild[t] =>
    /\ loader[t] = "write" => computed[t] = kernelBin
    /\ loader[t] \in {"hash", "compare"} => storedHash = kernelBin
    /\ loader[t] = "compare" => computed[t] = kernelBin
    /\ loader[t] = "rejected" => kernelBin = 0

ProcessInv == \A t \in Terminals : LevelsFit(t) /\ LoaderFits(t)
HomeInv    == \A t \in Terminals : HomeFits(t)
HashInv    == \A t \in Terminals : HashFits(t)

MachineInv == TypeInv /\ ProcessInv /\ HomeInv /\ HashInv

-----------------------------------------------------------------------------
LunixStep(t) == Runs(t) \/ Typed(t) \/ EndInput(t) \/ Killed(t)

\* What a step of t changes for another process: its directory may be removed.
Untouched(u) ==
  /\ pc'[u] = pc[u] /\ status'[u] = status[u]
  /\ runlevel'[u] = runlevel[u] /\ globalRunlevel'[u] = globalRunlevel[u]
  /\ input'[u] = input[u] /\ strayed'[u] = strayed[u] /\ log'[u] = log[u]
  /\ cwd'[u] = cwd[u] \/ (cwd[u] # Build /\ cwd'[u] = Gone)

LEMMA Parents == Parent[RootFS] = Build /\ Parent[Modules] = RootFS
BY DirectoriesAssumption DEF Parent

LEMMA LunixTypes ==
  ASSUME TypeInv, NEW t \in Terminals, LunixStep(t)
  PROVE  LunixTypeOK' /\ Build \in dirs'
<1> USE DirectoriesAssumption, Parents DEF TypeInv, MachineTypeOK, LunixTypeOK, At, Goto, Goes,
      Panic, Uncaught, Leaves, Ends, Remove, Removes, Makes, crl, Command, levels,
      session
<1>1. CASE Start(t)
  BY <1>1 DEF Start
<1>2. CASE FindRootfs(t)
  BY <1>2 DEF FindRootfs
<1>3. CASE AskOverflows(t)
  BY <1>3 DEF AskOverflows
<1>4. CASE CreateRootfs(t)
  BY <1>4 DEF CreateRootfs
<1>5. CASE EnterRootfs(t)
  BY <1>5 DEF EnterRootfs
<1>6. CASE FindModules(t)
  BY <1>6 DEF FindModules
<1>7. CASE ListModules(t)
  BY <1>7 DEF ListModules
<1>8. CASE CreateModules(t)
  BY <1>8 DEF CreateModules
<1>9. CASE Devices(t)
  BY <1>9 DEF Devices
<1>10. CASE SelfTests(t)
  BY <1>10 DEF SelfTests
<1>11. CASE Prompt(t)
  BY <1>11 DEF Prompt
<1>a. ASSUME RemovesEmpty(t) PROVE LunixTypeOK' /\ Build \in dirs'
  <2>1. PICK d \in dirs \ {Build} : Below(d) \cap dirs = {d} /\ Removes(t, {d}, "prompt")
    BY <1>a DEF RemovesEmpty
  <2>2. d \in {RootFS, Modules} /\ (d = RootFS => Modules \notin dirs)
    BY <2>1 DEF Below
  <2> QED
    BY <2>1, <2>2
<1>12. CASE RmAgain(t)
  BY <1>12, <1>a DEF RmAgain
<1>13. CASE PowerOff(t)
  BY <1>13 DEF PowerOff
<1>14. CASE LogPanic(t)
  BY <1>14 DEF LogPanic
<1>15. CASE PanicExits(t)
  BY <1>15 DEF PanicExits
<1>16. CASE LoginName(t)
  <2>1. CASE Goes(t, "password")
    BY <2>1
  <2>2. CASE Ends(t, "1")
    BY <2>2
  <2> QED
    BY <1>16, <2>1, <2>2, Zenon DEF LoginName
<1>17. CASE LoginPassword(t)
  <2>1. CASE Goes(t, "login")
    BY <2>1
  <2>2. CASE Ends(t, "1")
    BY <2>2
  <2>3. CASE /\ Goto(t, "prompt")
             /\ globalRunlevel' = [globalRunlevel EXCEPT ![t] = 4]
             /\ UNCHANGED <<runlevel, cwd, input, strayed, log, status, dirs>>
    BY <2>3
  <2> QED
    BY <1>17, <2>1, <2>2, <2>3, Zenon DEF LoginPassword
<1>18. CASE Shutdown(t)
  BY <1>18 DEF Shutdown
<1>19. CASE Ask(t)
  BY <1>19 DEF Ask
<1>20. CASE EditorWq(t)
  BY <1>20 DEF EditorWq
<1>21. CASE Cd(t)
  BY <1>21 DEF Cd
<1>22. CASE Pwd(t)
  BY <1>22 DEF Pwd
<1>23. CASE Mkdir(t)
  BY <1>23 DEF Mkdir
<1>24. CASE Rm(t)
  BY <1>24, <1>a DEF Rm
<1>25. CASE RmRecursive(t)
  <2>1. PICK d \in dirs \ {Build} :
          \/ Removes(t, Below(d), "prompt")
          \/ \E S \in {{}, Below(d) \ {d}} : Removes(t, S, "panic")
    BY <1>25 DEF RmRecursive
  <2>2. d \in {RootFS, Modules} /\ Below(RootFS) = {RootFS, Modules}
          /\ Below(Modules) = {Modules}
    BY DEF Below
  <2>3. CASE Removes(t, Below(d), "prompt")
    BY <2>2, <2>3
  <2>4. ASSUME NEW S \in {{}, Below(d) \ {d}}, Removes(t, S, "panic")
        PROVE  LunixTypeOK' /\ Build \in dirs'
    BY <2>2, <2>4
  <2> QED
    BY <2>1, <2>3, <2>4
<1>26. CASE RootPanics(t)
  BY <1>26 DEF RootPanics
<1>27. CASE Editor(t)
  BY <1>27 DEF Editor
<1>28. CASE OtherCommand(t)
  BY <1>28 DEF OtherCommand
<1>29. CASE EndInput(t)
  BY <1>29 DEF EndInput
<1>30. CASE Killed(t)
  BY <1>30 DEF Killed
<1>31. CASE SystemCommand(t)
  BY <1>31 DEF SystemCommand
<1>32. CASE SystemReturns(t)
  BY <1>32 DEF SystemReturns
<1>33. CASE ClientCommand(t)
  BY <1>33 DEF ClientCommand
<1>34. CASE ClientAddress(t)
  BY <1>34 DEF ClientAddress
<1>35. CASE ClientReturns(t)
  BY <1>35 DEF ClientReturns
<1> QED
  BY <1>1, <1>2, <1>3, <1>4, <1>5, <1>6, <1>7, <1>8, <1>9, <1>10, <1>11, <1>12, <1>13, <1>14, <1>15, <1>16, <1>17, <1>18, <1>19, <1>20, <1>21, <1>22, <1>23, <1>24, <1>25, <1>26, <1>27, <1>28, <1>29, <1>30, <1>31, <1>32,
    <1>33, <1>34, <1>35 DEF LunixStep, Runs, Typed

LEMMA LunixFrame ==
  ASSUME TypeInv, NEW t \in Terminals, LunixStep(t), NEW u \in Terminals, u # t
  PROVE  Untouched(u)
<1> USE DirectoriesAssumption DEF TypeInv, MachineTypeOK, LunixTypeOK, Untouched, At,
      Goto, Goes, Panic, Uncaught, Leaves, Ends, Remove, Removes, Makes, crl, Command,
      levels, session
<1>1. CASE Start(t)
  BY <1>1 DEF Start
<1>2. CASE FindRootfs(t)
  BY <1>2 DEF FindRootfs
<1>3. CASE AskOverflows(t)
  BY <1>3 DEF AskOverflows
<1>4. CASE CreateRootfs(t)
  BY <1>4 DEF CreateRootfs
<1>5. CASE EnterRootfs(t)
  BY <1>5 DEF EnterRootfs
<1>6. CASE FindModules(t)
  BY <1>6 DEF FindModules
<1>7. CASE ListModules(t)
  BY <1>7 DEF ListModules
<1>8. CASE CreateModules(t)
  BY <1>8 DEF CreateModules
<1>9. CASE Devices(t)
  BY <1>9 DEF Devices
<1>10. CASE SelfTests(t)
  BY <1>10 DEF SelfTests
<1>11. CASE Prompt(t)
  BY <1>11 DEF Prompt
<1>12. CASE RmAgain(t)
  BY <1>12 DEF RmAgain, RemovesEmpty
<1>13. CASE PowerOff(t)
  BY <1>13 DEF PowerOff
<1>14. CASE LogPanic(t)
  BY <1>14 DEF LogPanic
<1>15. CASE PanicExits(t)
  BY <1>15 DEF PanicExits
<1>16. CASE LoginName(t)
  BY <1>16 DEF LoginName
<1>17. CASE LoginPassword(t)
  BY <1>17 DEF LoginPassword
<1>18. CASE Shutdown(t)
  BY <1>18 DEF Shutdown
<1>19. CASE Ask(t)
  BY <1>19 DEF Ask
<1>20. CASE EditorWq(t)
  BY <1>20 DEF EditorWq
<1>21. CASE Cd(t)
  BY <1>21 DEF Cd
<1>22. CASE Pwd(t)
  BY <1>22 DEF Pwd
<1>23. CASE Mkdir(t)
  BY <1>23 DEF Mkdir
<1>24. CASE Rm(t)
  BY <1>24 DEF Rm, RemovesEmpty
<1>25. CASE RmRecursive(t)
  <2>1. PICK d \in dirs \ {Build} :
          \/ Removes(t, Below(d), "prompt")
          \/ \E S \in {{}, Below(d) \ {d}} : Removes(t, S, "panic")
    BY <1>25 DEF RmRecursive
  <2>2. Build \notin Below(d)
    BY DEF Below
  <2>3. ASSUME NEW S, Build \notin S, NEW to, Removes(t, S, to)
        PROVE  Untouched(u)
    BY <2>3
  <2> QED
    BY <2>1, <2>2, <2>3
<1>26. CASE RootPanics(t)
  BY <1>26 DEF RootPanics
<1>27. CASE Editor(t)
  BY <1>27 DEF Editor
<1>28. CASE OtherCommand(t)
  BY <1>28 DEF OtherCommand
<1>29. CASE EndInput(t)
  BY <1>29 DEF EndInput
<1>30. CASE Killed(t)
  BY <1>30 DEF Killed
<1>31. CASE SystemCommand(t)
  BY <1>31 DEF SystemCommand
<1>32. CASE SystemReturns(t)
  BY <1>32 DEF SystemReturns
<1>33. CASE ClientCommand(t)
  BY <1>33 DEF ClientCommand
<1>34. CASE ClientAddress(t)
  BY <1>34 DEF ClientAddress
<1>35. CASE ClientReturns(t)
  BY <1>35 DEF ClientReturns
<1> QED
  BY <1>1, <1>2, <1>3, <1>4, <1>5, <1>6, <1>7, <1>8, <1>9, <1>10, <1>11, <1>12, <1>13, <1>14, <1>15, <1>16, <1>17, <1>18, <1>19, <1>20, <1>21, <1>22, <1>23, <1>24, <1>25, <1>26, <1>27, <1>28, <1>29, <1>30, <1>31, <1>32,
    <1>33, <1>34, <1>35 DEF LunixStep, Runs, Typed

LEMMA LunixProcess ==
  ASSUME TypeInv, NEW t \in Terminals, LevelsFit(t), LoaderFits(t), LunixStep(t),
         loader'[t] = loader[t]
  PROVE  LevelsFit(t)' /\ LoaderFits(t)'
<1> USE DEF TypeInv, MachineTypeOK, LunixTypeOK, LevelsFit, LoaderFits, Early, Mounted,
      Logins, InShell, Panics, At, Goto, Goes, Panic, Uncaught, Leaves, Ends, Remove,
      Removes, Makes, crl, Command, levels, session
<1>1. CASE Start(t)
  BY <1>1 DEF Start
<1>2. CASE FindRootfs(t)
  BY <1>2 DEF FindRootfs
<1>3. CASE AskOverflows(t)
  BY <1>3 DEF AskOverflows
<1>4. CASE CreateRootfs(t)
  BY <1>4 DEF CreateRootfs
<1>5. CASE EnterRootfs(t)
  BY <1>5 DEF EnterRootfs
<1>6. CASE FindModules(t)
  BY <1>6 DEF FindModules
<1>7. CASE ListModules(t)
  BY <1>7 DEF ListModules
<1>8. CASE CreateModules(t)
  BY <1>8 DEF CreateModules
<1>9. CASE Devices(t)
  BY <1>9 DEF Devices
<1>10. CASE SelfTests(t)
  BY <1>10 DEF SelfTests
<1>11. CASE Prompt(t)
  BY <1>11 DEF Prompt
<1>12. CASE RmAgain(t)
  BY <1>12 DEF RmAgain, RemovesEmpty
<1>13. CASE PowerOff(t)
  BY <1>13 DEF PowerOff
<1>14. CASE LogPanic(t)
  BY <1>14 DEF LogPanic
<1>15. CASE PanicExits(t)
  BY <1>15 DEF PanicExits
<1>16. CASE LoginName(t)
  BY <1>16 DEF LoginName
<1>17. CASE LoginPassword(t)
  BY <1>17 DEF LoginPassword
<1>18. CASE Shutdown(t)
  BY <1>18 DEF Shutdown
<1>19. CASE Ask(t)
  BY <1>19 DEF Ask
<1>20. CASE EditorWq(t)
  BY <1>20 DEF EditorWq
<1>21. CASE Cd(t)
  BY <1>21 DEF Cd
<1>22. CASE Pwd(t)
  BY <1>22 DEF Pwd
<1>23. CASE Mkdir(t)
  BY <1>23 DEF Mkdir
<1>24. CASE Rm(t)
  BY <1>24 DEF Rm, RemovesEmpty
<1>25. CASE RmRecursive(t)
  BY <1>25 DEF RmRecursive
<1>26. CASE RootPanics(t)
  BY <1>26 DEF RootPanics
<1>27. CASE Editor(t)
  BY <1>27 DEF Editor
<1>28. CASE OtherCommand(t)
  BY <1>28 DEF OtherCommand
<1>29. CASE EndInput(t)
  BY <1>29 DEF EndInput
<1>30. CASE Killed(t)
  BY <1>30 DEF Killed
<1>31. CASE SystemCommand(t)
  BY <1>31 DEF SystemCommand
<1>32. CASE SystemReturns(t)
  BY <1>32 DEF SystemReturns
<1>33. CASE ClientCommand(t)
  BY <1>33 DEF ClientCommand
<1>34. CASE ClientAddress(t)
  BY <1>34 DEF ClientAddress
<1>35. CASE ClientReturns(t)
  BY <1>35 DEF ClientReturns
<1> QED
  BY <1>1, <1>2, <1>3, <1>4, <1>5, <1>6, <1>7, <1>8, <1>9, <1>10, <1>11, <1>12, <1>13, <1>14, <1>15, <1>16, <1>17, <1>18, <1>19, <1>20, <1>21, <1>22, <1>23, <1>24, <1>25, <1>26, <1>27, <1>28, <1>29, <1>30, <1>31, <1>32,
    <1>33, <1>34, <1>35 DEF LunixStep, Runs, Typed

LEMMA LunixHome ==
  ASSUME TypeInv, NEW t \in Terminals, LevelsFit(t), HomeFits(t), LunixStep(t)
  PROVE  HomeFits(t)'
<1> USE DirectoriesAssumption DEF TypeInv, MachineTypeOK, LunixTypeOK, LevelsFit, HomeFits,
      Early, Mounted, Logins, InShell, Panics, At, Goto, Goes, Panic, Uncaught, Leaves,
      Ends, Remove, Removes, Makes, crl, Command, levels, session
<1>1. CASE Start(t)
  BY <1>1 DEF Start
<1>2. CASE FindRootfs(t)
  BY <1>2 DEF FindRootfs
<1>3. CASE AskOverflows(t)
  BY <1>3 DEF AskOverflows
<1>4. CASE CreateRootfs(t)
  BY <1>4 DEF CreateRootfs
<1>5. CASE EnterRootfs(t)
  BY <1>5 DEF EnterRootfs
<1>6. CASE FindModules(t)
  BY <1>6 DEF FindModules
<1>7. CASE ListModules(t)
  BY <1>7 DEF ListModules
<1>8. CASE CreateModules(t)
  BY <1>8 DEF CreateModules
<1>9. CASE Devices(t)
  BY <1>9 DEF Devices
<1>10. CASE SelfTests(t)
  BY <1>10 DEF SelfTests
<1>11. CASE Prompt(t)
  BY <1>11 DEF Prompt
<1>12. CASE RmAgain(t)
  BY <1>12 DEF RmAgain, RemovesEmpty
<1>13. CASE PowerOff(t)
  BY <1>13 DEF PowerOff
<1>14. CASE LogPanic(t)
  BY <1>14 DEF LogPanic
<1>15. CASE PanicExits(t)
  BY <1>15 DEF PanicExits
<1>16. CASE LoginName(t)
  BY <1>16 DEF LoginName
<1>17. CASE LoginPassword(t)
  BY <1>17 DEF LoginPassword
<1>18. CASE Shutdown(t)
  BY <1>18 DEF Shutdown
<1>19. CASE Ask(t)
  BY <1>19 DEF Ask
<1>20. CASE EditorWq(t)
  BY <1>20 DEF EditorWq
<1>21. CASE Cd(t)
  BY <1>21 DEF Cd
<1>22. CASE Pwd(t)
  BY <1>22 DEF Pwd
<1>23. CASE Mkdir(t)
  BY <1>23 DEF Mkdir
<1>24. CASE Rm(t)
  BY <1>24 DEF Rm, RemovesEmpty
<1>25. CASE RmRecursive(t)
  BY <1>25 DEF RmRecursive
<1>26. CASE RootPanics(t)
  BY <1>26 DEF RootPanics
<1>27. CASE Editor(t)
  BY <1>27 DEF Editor
<1>28. CASE OtherCommand(t)
  BY <1>28 DEF OtherCommand
<1>29. CASE EndInput(t)
  BY <1>29 DEF EndInput
<1>30. CASE Killed(t)
  BY <1>30 DEF Killed
<1>31. CASE SystemCommand(t)
  BY <1>31 DEF SystemCommand
<1>32. CASE SystemReturns(t)
  BY <1>32 DEF SystemReturns
<1>33. CASE ClientCommand(t)
  BY <1>33 DEF ClientCommand
<1>34. CASE ClientAddress(t)
  BY <1>34 DEF ClientAddress
<1>35. CASE ClientReturns(t)
  BY <1>35 DEF ClientReturns
<1> QED
  BY <1>1, <1>2, <1>3, <1>4, <1>5, <1>6, <1>7, <1>8, <1>9, <1>10, <1>11, <1>12, <1>13, <1>14, <1>15, <1>16, <1>17, <1>18, <1>19, <1>20, <1>21, <1>22, <1>23, <1>24, <1>25, <1>26, <1>27, <1>28, <1>29, <1>30, <1>31, <1>32,
    <1>33, <1>34, <1>35 DEF LunixStep, Runs, Typed

-----------------------------------------------------------------------------
(* The boot loader.                                                        *)

LoaderTypeOK ==
  /\ loader \in [Terminals -> {"off", "install", "sum", "write", "hash", "compare",
       "rejected", "exec", "prompt", "wait", "reported"}]
  /\ {ignoreHashError, runPostBuild, undisturbed} \subseteq [Terminals -> BOOLEAN]
  /\ computed \in [Terminals -> 0..MaxBuilds]
  /\ lunix \in 0..MaxBuilds /\ kernelBin \in 0..lunix
  /\ storedHash \in 0..MaxBuilds \cup {NoFile}

LEMMA LoaderTypes ==
  ASSUME LoaderTypeOK, NEW t \in Terminals, LoaderAlone(t)
  PROVE  LoaderTypeOK'
<1> USE BuildsAssumption DEF LoaderTypeOK, LoaderAt, Computes, ScriptStep, Matching,
      flags, files
<1>1. CASE StartLoader(t)
  BY <1>1 DEF StartLoader
<1>2. CASE Install(t)
  BY <1>2 DEF Install
<1>3. CASE Sum(t)
  BY <1>3 DEF Sum
<1>4. CASE Write(t)
  BY <1>4 DEF Write
<1>5. CASE InterruptScript(t)
  BY <1>5 DEF InterruptScript
<1>6. CASE ComputeSHA256(t)
  BY <1>6 DEF ComputeSHA256
<1>7. CASE Compare(t)
  <2>1. /\ loader' \in {[loader EXCEPT ![t] = "rejected"], [loader EXCEPT ![t] = "exec"]}
        /\ ignoreHashError' \in {ignoreHashError, [ignoreHashError EXCEPT ![t] = FALSE]}
        /\ runPostBuild' \in {runPostBuild, [runPostBuild EXCEPT ![t] = FALSE]}
        /\ undisturbed' \in {undisturbed, [undisturbed EXCEPT ![t] = FALSE]}
        /\ computed' = [computed EXCEPT ![t] = 0] /\ UNCHANGED files
    BY <1>7, Zenon DEF Compare
  <2>2. loader' \in [Terminals -> {"off", "install", "sum", "write", "hash", "compare",
           "rejected", "exec", "prompt", "wait", "reported"}]
    BY <2>1
  <2>3. \A f \in [Terminals -> BOOLEAN] : [f EXCEPT ![t] = FALSE] \in [Terminals -> BOOLEAN]
    OBVIOUS
  <2>4. {ignoreHashError, runPostBuild, undisturbed}' \subseteq [Terminals -> BOOLEAN]
    <3>1. ASSUME NEW f \in [Terminals -> BOOLEAN], NEW g,
                 g \in {f, [f EXCEPT ![t] = FALSE]}
          PROVE  g \in [Terminals -> BOOLEAN]
      BY <2>3, <3>1, Zenon
    <3>2. /\ ignoreHashError \in [Terminals -> BOOLEAN]
          /\ runPostBuild \in [Terminals -> BOOLEAN]
          /\ undisturbed \in [Terminals -> BOOLEAN]
      OBVIOUS
    <3>3. /\ ignoreHashError' \in [Terminals -> BOOLEAN]
          /\ runPostBuild' \in [Terminals -> BOOLEAN]
          /\ undisturbed' \in [Terminals -> BOOLEAN]
      BY <2>1, <3>1, <3>2, Zenon
    <3> QED
      BY <3>3
  <2> QED
    BY <2>1, <2>2, <2>4
<1>8. CASE ExecFails(t)
  BY <1>8 DEF ExecFails
<1> QED
  BY <1>1, <1>2, <1>3, <1>4, <1>5, <1>6, <1>7, <1>8 DEF LoaderAlone

LEMMA LoaderHash ==
  ASSUME LoaderTypeOK, HashInv, NEW t \in Terminals, LoaderAlone(t)
  PROVE  HashInv'
<1> USE BuildsAssumption DEF LoaderTypeOK, HashInv, HashFits, LoaderAt, Computes,
      ScriptStep, Matching, flags, files
<1>1. CASE StartLoader(t)
  BY <1>1 DEF StartLoader
<1>2. CASE Install(t)
  BY <1>2 DEF Install
<1>3. CASE Sum(t)
  BY <1>3 DEF Sum
<1>4. CASE Write(t)
  BY <1>4 DEF Write
<1>5. CASE InterruptScript(t)
  BY <1>5 DEF InterruptScript
<1>6. CASE ComputeSHA256(t)
  BY <1>6 DEF ComputeSHA256
<1>7. CASE Compare(t)
  BY <1>7 DEF Compare
<1>8. CASE ExecFails(t)
  BY <1>8 DEF ExecFails
<1> QED
  BY <1>1, <1>2, <1>3, <1>4, <1>5, <1>6, <1>7, <1>8 DEF LoaderAlone

-----------------------------------------------------------------------------
(* The steps of the whole machine.                                         *)

\* The processes keep what they have while the boot loader works alone.
Alone(t) == LoaderAlone(t) /\ At(t, "off") /\ status[t] = "none" /\ UNCHANGED lunixVars

MachineStep(t) ==
  \/ Alone(t)
  \/ ExecKernel(t) \/ PathFails(t) \/ Report(t) \/ Return(t) \/ CtrlC(t) \/ Abandoned(t)
  \/ LunixStep(t) /\ UNCHANGED loaderVars

LEMMA Steps ==
  ASSUME [MachineNext]_machineVars
  PROVE  \/ UNCHANGED machineVars
         \/ Make /\ UNCHANGED lunixVars
         \/ \E t \in Terminals : MachineStep(t)
BY DEF MachineNext, MachineStep, LunixStep, Alone

LEMMA TypeStep ==
  ASSUME TypeInv, [MachineNext]_machineVars
  PROVE  TypeInv'
<1>0. LunixTypeOK /\ LoaderTypeOK /\ Build \in dirs
  BY DEF TypeInv, MachineTypeOK, LoaderTypeOK
<1> SUFFICES LunixTypeOK' /\ LoaderTypeOK' /\ Build \in dirs'
  BY DEF TypeInv, MachineTypeOK, LoaderTypeOK
<1>a. ASSUME UNCHANGED lunixVars PROVE LunixTypeOK' /\ Build \in dirs'
  BY <1>a, <1>0 DEF LunixTypeOK, lunixVars, levels, session
<1>b. ASSUME UNCHANGED loaderVars PROVE LoaderTypeOK'
  BY <1>b, <1>0 DEF LoaderTypeOK, loaderVars, flags, files
<1>1. CASE UNCHANGED machineVars
  BY <1>1, <1>a, <1>b DEF machineVars
<1>2. CASE Make /\ UNCHANGED lunixVars
  <2>1. LoaderTypeOK'
    BY <1>2, <1>0, BuildsAssumption DEF LoaderTypeOK, Make, flags
  <2> QED
    BY <1>2, <2>1, <1>a
<1>3. ASSUME NEW t \in Terminals, MachineStep(t)
      PROVE  LunixTypeOK' /\ LoaderTypeOK' /\ Build \in dirs'
  <2> USE DEF LoaderAt, Computes, flags, files
  <2>1. CASE Alone(t)
    BY <2>1, <1>0, <1>a, LoaderTypes DEF Alone
  <2>2. CASE ExecKernel(t)
    <3>1. LoaderTypeOK'
      BY <2>2, <1>0 DEF ExecKernel, LoaderTypeOK
    <3>2. LunixTypeOK' /\ Build \in dirs'
      BY <2>2, <1>0 DEF ExecKernel, Main, Goto, levels, session, LunixTypeOK
    <3> QED
      BY <3>1, <3>2
  <2>3. CASE PathFails(t)
    <3>1. LoaderTypeOK'
      BY <2>3, <1>0 DEF PathFails, LoaderTypeOK
    <3>2. LunixTypeOK' /\ Build \in dirs'
      BY <2>3, <1>0 DEF PathFails, levels, session, LunixTypeOK
    <3> QED
      BY <3>1, <3>2
  <2>4. CASE Report(t)
    <3>1. LoaderTypeOK'
      BY <2>4, <1>0 DEF Report, LoaderTypeOK
    <3> QED
      BY <2>4, <3>1, <1>a DEF Report
  <2>5. ASSUME LoaderEnds(t) PROVE LoaderTypeOK'
    BY <2>5, <1>0, BuildsAssumption DEF LoaderEnds, LoaderTypeOK
  <2>6. CASE Return(t)
    <3>1. LunixTypeOK' /\ Build \in dirs'
      BY <2>6, <1>0 DEF Return, IsReaped, session, LunixTypeOK
    <3> QED
      BY <2>5, <2>6, <3>1 DEF Return
  <2>7. CASE CtrlC(t)
    <3>1. ASSUME Leaves(t), IsReaped(t) PROVE LunixTypeOK' /\ Build \in dirs'
      BY <3>1, <1>0 DEF Leaves, Goto, IsReaped, LunixTypeOK
    <3>2. ASSUME input' = [input EXCEPT ![t] = FALSE],
                 UNCHANGED <<pc, levels, cwd, strayed, log, status, dirs>>
          PROVE  LunixTypeOK' /\ Build \in dirs'
      BY <3>2, <1>0 DEF levels, LunixTypeOK
    <3> QED
      BY <2>5, <2>7, <3>1, <3>2 DEF CtrlC
  <2>8. CASE Abandoned(t)
    <3>1. LunixTypeOK' /\ Build \in dirs'
      BY <2>8, <1>0 DEF Abandoned, IsReaped, session, LunixTypeOK
    <3> QED
      BY <2>8, <3>1, <1>b DEF Abandoned
  <2>9. CASE LunixStep(t) /\ UNCHANGED loaderVars
    BY <2>9, <1>b, LunixTypes
  <2> QED
    BY <1>3, <2>1, <2>2, <2>3, <2>4, <2>6, <2>7, <2>8, <2>9 DEF MachineStep
<1> QED
  BY <1>1, <1>2, <1>3, Steps

\* No step of one terminal changes what another's runlevels and loader are.
LEMMA ProcessStep ==
  ASSUME TypeInv, ProcessInv, [MachineNext]_machineVars
  PROVE  ProcessInv'
<1> SUFFICES ASSUME NEW u \in Terminals PROVE (LevelsFit(u) /\ LoaderFits(u))'
  BY DEF ProcessInv
<1>0. LevelsFit(u) /\ LoaderFits(u)
  BY DEF ProcessInv
<1>a. ASSUME pc'[u] = pc[u], status'[u] = status[u], runlevel'[u] = runlevel[u],
             globalRunlevel'[u] = globalRunlevel[u], input'[u] = input[u],
             loader'[u] = loader[u], cwd'[u] = cwd[u] \/ cwd'[u] = Gone
      PROVE  (LevelsFit(u) /\ LoaderFits(u))'
  BY <1>a, <1>0 DEF LevelsFit, LoaderFits
<1>1. CASE UNCHANGED machineVars
  BY <1>1, <1>a DEF machineVars, loaderVars, lunixVars, levels, session
<1>2. CASE Make /\ UNCHANGED lunixVars
  BY <1>2, <1>a DEF Make, lunixVars, levels, session
<1>3. ASSUME NEW t \in Terminals, MachineStep(t), t # u
      PROVE  (LevelsFit(u) /\ LoaderFits(u))'
  <2>1. CASE Alone(t)
    <3>1. loader'[u] = loader[u]
      BY <2>1, <1>3 DEF Alone, LoaderAlone, StartLoader, Install, Sum, Write,
        InterruptScript, ComputeSHA256, Compare, ExecFails, LoaderAt, ScriptStep,
        TypeInv, MachineTypeOK
    <3> QED
      BY <2>1, <3>1, <1>a DEF Alone, lunixVars, levels, session
  <2>2. CASE LunixStep(t) /\ UNCHANGED loaderVars
    BY <2>2, <1>3, <1>a, LunixFrame DEF Untouched, loaderVars
  <2>3. CASE ExecKernel(t) \/ PathFails(t) \/ Report(t) \/ Return(t) \/ CtrlC(t)
               \/ Abandoned(t)
    BY <2>3, <1>3, <1>a DEF ExecKernel, PathFails, Report, Return, CtrlC, Abandoned,
      Main, Goto, LoaderAt, LoaderEnds, Leaves, IsReaped, loaderVars, lunixVars,
      levels, session, TypeInv, MachineTypeOK, LunixTypeOK
  <2> QED
    BY <1>3, <2>1, <2>2, <2>3 DEF MachineStep
<1>4. CASE MachineStep(u)
  <2> USE <1>0 DEF TypeInv, MachineTypeOK, LunixTypeOK
  <2>1. CASE Alone(u)
    BY <2>1 DEF Alone, At, lunixVars, levels, session, LevelsFit, LoaderFits
  <2>2. CASE LunixStep(u) /\ UNCHANGED loaderVars
    BY <2>2, LunixProcess DEF loaderVars
  <2>3. CASE ExecKernel(u)
    BY <2>3 DEF ExecKernel, Main, At, Goto, LoaderAt, levels, session, LevelsFit,
      LoaderFits, Early, Mounted, Logins, InShell, Panics
  <2>4. CASE PathFails(u)
    BY <2>4 DEF PathFails, LoaderAt, levels, session, LevelsFit, LoaderFits, Early,
      Mounted, Logins, InShell, Panics
  <2>5. CASE Report(u)
    BY <2>5 DEF Report, LoaderAt, At, lunixVars, levels, session, LevelsFit, LoaderFits
  <2>6. CASE Return(u)
    BY <2>6 DEF Return, LoaderEnds, IsReaped, session, LevelsFit, LoaderFits, Early,
      Mounted, Logins, InShell, Panics
  <2>7. CASE CtrlC(u)
    BY <2>7 DEF CtrlC, InSystem, LoaderEnds, Leaves, IsReaped, At, Goto, levels, LevelsFit,
      LoaderFits, Early, Mounted, Logins, InShell, Panics
  <2>8. CASE Abandoned(u)
    BY <2>8 DEF Abandoned, IsReaped, At, loaderVars, session, LevelsFit, LoaderFits,
      Early, Mounted, Logins, InShell, Panics
  <2> QED
    BY <1>4, <2>1, <2>2, <2>3, <2>4, <2>5, <2>6, <2>7, <2>8 DEF MachineStep
<1> QED
  BY <1>1, <1>2, <1>3, <1>4, Steps

LEMMA HomeStep ==
  ASSUME TypeInv, ProcessInv, HomeInv, [MachineNext]_machineVars
  PROVE  HomeInv'
<1> SUFFICES ASSUME NEW u \in Terminals PROVE HomeFits(u)'
  BY DEF HomeInv
<1>0. LevelsFit(u) /\ LoaderFits(u) /\ HomeFits(u)
  BY DEF ProcessInv, HomeInv
<1>a. ASSUME pc'[u] = pc[u], runlevel'[u] = runlevel[u], strayed'[u] = strayed[u],
             log'[u] = log[u], cwd'[u] = cwd[u] \/ (cwd[u] # Build /\ cwd'[u] = Gone)
      PROVE  HomeFits(u)'
  BY <1>a, <1>0, DirectoriesAssumption DEF HomeFits
<1>1. CASE UNCHANGED machineVars
  BY <1>1, <1>a DEF machineVars, lunixVars, levels, session
<1>2. CASE Make /\ UNCHANGED lunixVars
  BY <1>2, <1>a DEF lunixVars, levels, session
<1>3. ASSUME NEW t \in Terminals, MachineStep(t), t # u
      PROVE  HomeFits(u)'
  <2>1. CASE LunixStep(t) /\ UNCHANGED loaderVars
    BY <2>1, <1>3, <1>a, LunixFrame DEF Untouched
  <2>2. CASE ~(LunixStep(t) /\ UNCHANGED loaderVars)
    BY <2>2, <1>3, <1>a DEF MachineStep, Alone, ExecKernel, PathFails, Report, Return,
      CtrlC, Abandoned, Main, Goto, Leaves, IsReaped, lunixVars, levels, session,
      TypeInv, MachineTypeOK, LunixTypeOK
  <2> QED
    BY <2>1, <2>2
<1>4. CASE MachineStep(u)
  <2>1. CASE LunixStep(u) /\ UNCHANGED loaderVars
    BY <2>1, <1>0, LunixHome
  <2>2. CASE Alone(u) \/ PathFails(u) \/ Report(u)
    BY <2>2, <1>a DEF Alone, PathFails, Report, lunixVars, levels, session
  <2>3. CASE ExecKernel(u)
    BY <2>3, <1>0 DEF ExecKernel, Main, At, Goto, levels, session, HomeFits, Early,
      Panics, TypeInv, MachineTypeOK, LunixTypeOK
  <2>4. CASE Return(u) \/ Abandoned(u)
    <3>1. pc[u] = "off" /\ UNCHANGED <<pc, session>>
      BY <2>4, <1>0 DEF Return, Abandoned, At, LoaderFits
    <3> QED
      BY <3>1, <1>0 DEF session, HomeFits, Early
  <2>5. CASE CtrlC(u)
    BY <2>5, <1>0 DEF CtrlC, InSystem, Leaves, IsReaped, At, Goto, levels, HomeFits, Early, Panics,
      TypeInv, MachineTypeOK, LunixTypeOK
  <2> QED
    BY <1>4, <2>1, <2>2, <2>3, <2>4, <2>5 DEF MachineStep
<1> QED
  BY <1>1, <1>2, <1>3, <1>4, Steps

LEMMA HashStep ==
  ASSUME TypeInv, HashInv, [MachineNext]_machineVars
  PROVE  HashInv'
<1>0. LoaderTypeOK
  BY DEF TypeInv, MachineTypeOK, LoaderTypeOK
<1>1. CASE UNCHANGED loaderVars
  BY <1>1 DEF loaderVars, flags, files, HashInv, HashFits
<1>2. CASE Make /\ UNCHANGED lunixVars
  BY <1>2 DEF Make, flags, HashInv, HashFits
<1>3. ASSUME NEW t \in Terminals, MachineStep(t)
      PROVE  HashInv'
  <2>1. CASE Alone(t)
    BY <2>1, <1>0, LoaderHash DEF Alone
  <2>2. CASE Abandoned(t)
    BY <2>2, <1>1 DEF Abandoned
  <2>5. CASE LunixStep(t) /\ UNCHANGED loaderVars
    BY <2>5, <1>1
  <2>3. CASE ExecKernel(t) \/ PathFails(t) \/ Report(t)
    BY <2>3, <1>0 DEF ExecKernel, PathFails, Report, LoaderAt, LoaderTypeOK, flags, files,
      HashInv, HashFits
  <2>4. CASE Return(t) \/ CtrlC(t)
    BY <2>4, <1>0 DEF Return, CtrlC, LoaderEnds, Computes, LoaderTypeOK, files, HashInv,
      HashFits
  <2> QED
    BY <1>3, <2>1, <2>2, <2>3, <2>4, <2>5 DEF MachineStep
<1> QED
  BY <1>1, <1>2, <1>3, Steps DEF machineVars

-----------------------------------------------------------------------------
(* The theorems.                                                           *)

LEMMA InvariantInit == MachineInit => MachineInv
<1> SUFFICES ASSUME MachineInit PROVE MachineInv
  OBVIOUS
<1> USE BuildsAssumption, DirectoriesAssumption DEF MachineInit, LoaderInit, LunixInit
<1>1. TypeInv
  BY DEF TypeInv, MachineTypeOK, LunixTypeOK
<1>2. ProcessInv
  BY DEF ProcessInv, LevelsFit, LoaderFits, Early, Mounted, Logins, InShell, Panics
<1>3. HomeInv
  BY DEF HomeInv, HomeFits, Early
<1>4. HashInv
  BY DEF HashInv, HashFits
<1> QED
  BY <1>1, <1>2, <1>3, <1>4 DEF MachineInv

LEMMA Invariance == MachineSpec => []MachineInv
<1>1. MachineInv /\ [MachineNext]_machineVars => MachineInv'
  BY TypeStep, ProcessStep, HomeStep, HashStep DEF MachineInv
<1> QED
  BY InvariantInit, <1>1, PTL DEF MachineSpec

\* Whatever boot loaders, processes and users do at once, the state is well typed,
\* directories have parents, and a process is in one that exists or has been
\* removed (disk.cpp 24-81, 200-230; lunix-bl/main.cpp; post-build.sh).
THEOREM TypeCorrect == MachineSpec => []MachineTypeOK
<1>1. MachineInv => MachineTypeOK
  BY DEF MachineInv, TypeInv
<1> QED
  BY <1>1, Invariance, PTL

\* A panic is logged in the rootfs, or before the mount, or after a cd, or its
\* directory has been removed (error_handler.cpp 24-62, 147-155).
THEOREM PanicsAreLogged == MachineSpec => []PanicLoggedInRootfs
<1>1. MachineInv => PanicLoggedInRootfs
  BY DEF MachineInv, HomeInv, HomeFits, PanicLoggedInRootfs, At
<1> QED
  BY <1>1, Invariance, PTL

\* A boot loader whose own post-build.sh was undisturbed accepts the kernel
\* (lunix-bl/main.cpp 67-120, post-build.sh).
THEOREM FreshImagesBoot == MachineSpec => []FreshImageBoots
<1>1. MachineInv => FreshImageBoots
  BY DEF MachineInv, HashInv, HashFits, FreshImageBoots
<1> QED
  BY <1>1, Invariance, PTL

\* The status 0 is that of a Lunix shut down from its shell
\* (lunix-bl/main.cpp 122-161, kernel.cpp 108-119).
THEOREM ZeroIsShutdown == MachineSpec => []ZeroMeansShutdown
<1>1. MachineInv => ZeroMeansShutdown
  BY DEF MachineInv, ProcessInv, LevelsFit, ZeroMeansShutdown
<1> QED
  BY <1>1, Invariance, PTL

\* A Lunix that has lost its boot loader has lost its input, asks for no password,
\* carries out no command, and panics only in a directory that has been removed
\* (network.cpp 12, userman.cpp 47-74, lsh.cpp 183-200, 228-231, 256-257).
THEOREM OrphansTakeNoCommand == MachineSpec => []OrphanTakesNoCommand
<1>1. MachineInv => OrphanTakesNoCommand
  BY DEF MachineInv, ProcessInv, LoaderFits, OrphanTakesNoCommand, InSystem, Panics, At
<1> QED
  BY <1>1, Invariance, PTL

-----------------------------------------------------------------------------
(* The runlevels.                                                          *)

\* What may become of one terminal in a step of Runlevels.
Edge(t) ==
  \/ phase'[t] = phase[t] /\ level'[t] = level[t]
  \/ phase[t] = "off" /\ phase'[t] = "on" /\ level'[t] = 0
  \/ phase[t] = "on" /\ level[t] < 4 /\ phase'[t] = "on" /\ level'[t] = level[t] + 1
  \/ phase[t] = "on" /\ level[t] = 4 /\ phase'[t] = "halted" /\ level'[t] = 0
  \/ phase[t] # "off" /\ phase'[t] = "off" /\ level'[t] = 0

LEMMA EdgeIsStep ==
  ASSUME NEW t \in Terminals, Edge(t),
         \A u \in Terminals \ {t} : phase'[u] = phase[u] /\ level'[u] = level[u]
  PROVE  [R!Next]_<<phase, level>>
<1>1. /\ phase = [u \in Terminals |-> phase[u]] /\ level = [u \in Terminals |-> level[u]]
      /\ phase' = [u \in Terminals |-> phase'[u]]
      /\ level' = [u \in Terminals |-> level'[u]]
  BY DEF phase, level
<1> DEFINE p == phase'[t]  l == level'[t]
<1>2. phase' = [phase EXCEPT ![t] = p] /\ level' = [level EXCEPT ![t] = l]
  <2> HIDE DEF p, l
  <2>1. p = phase'[t] /\ l = level'[t]
    BY DEF p, l
  <2> QED
    BY <1>1, <2>1
<1>3. R!Becomes(t, p, l)
  BY <1>2 DEF R!Becomes
<1>4. p = phase'[t] /\ l = level'[t]
  OBVIOUS
<1> HIDE DEF p, l
<1>5. CASE p = phase[t] /\ l = level[t]
  BY <1>1, <1>2, <1>5
<1>6. CASE ~(p = phase[t] /\ l = level[t])
  BY <1>3, <1>4, <1>6 DEF Edge, R!Next, R!PowerOn, R!Raise, R!Halt, R!End
<1> QED
  BY <1>5, <1>6

LEMMA LunixEdge ==
  ASSUME TypeInv, NEW t \in Terminals, LevelsFit(t), LunixStep(t)
  PROVE  Edge(t)
<1> USE DEF TypeInv, MachineTypeOK, LunixTypeOK, LevelsFit, Early, Mounted, Logins, InShell,
      Panics, At, Goto, Goes, Panic, Uncaught, Leaves, Ends, Remove, Removes, Makes, crl,
      Command, levels, session, Edge, phase, level
<1>1. CASE Start(t)
  BY <1>1 DEF Start
<1>2. CASE FindRootfs(t)
  BY <1>2 DEF FindRootfs
<1>3. CASE AskOverflows(t)
  BY <1>3 DEF AskOverflows
<1>4. CASE CreateRootfs(t)
  BY <1>4 DEF CreateRootfs
<1>5. CASE EnterRootfs(t)
  BY <1>5 DEF EnterRootfs
<1>6. CASE FindModules(t)
  BY <1>6 DEF FindModules
<1>7. CASE ListModules(t)
  BY <1>7 DEF ListModules
<1>8. CASE CreateModules(t)
  BY <1>8 DEF CreateModules
<1>9. CASE Devices(t)
  BY <1>9 DEF Devices
<1>10. CASE SelfTests(t)
  BY <1>10 DEF SelfTests
<1>11. CASE Prompt(t)
  BY <1>11 DEF Prompt
<1>12. CASE RmAgain(t)
  BY <1>12 DEF RmAgain, RemovesEmpty
<1>13. CASE PowerOff(t)
  BY <1>13 DEF PowerOff
<1>14. CASE LogPanic(t)
  BY <1>14 DEF LogPanic
<1>15. CASE PanicExits(t)
  BY <1>15 DEF PanicExits
<1>16. CASE LoginName(t)
  BY <1>16 DEF LoginName
<1>17. CASE LoginPassword(t)
  BY <1>17 DEF LoginPassword
<1>18. CASE Shutdown(t)
  BY <1>18 DEF Shutdown
<1>19. CASE Ask(t)
  BY <1>19 DEF Ask
<1>20. CASE EditorWq(t)
  BY <1>20 DEF EditorWq
<1>21. CASE Cd(t)
  BY <1>21 DEF Cd
<1>22. CASE Pwd(t)
  BY <1>22 DEF Pwd
<1>23. CASE Mkdir(t)
  BY <1>23 DEF Mkdir
<1>24. CASE Rm(t)
  BY <1>24 DEF Rm, RemovesEmpty
<1>25. CASE RmRecursive(t)
  BY <1>25 DEF RmRecursive
<1>26. CASE RootPanics(t)
  BY <1>26 DEF RootPanics
<1>27. CASE Editor(t)
  BY <1>27 DEF Editor
<1>28. CASE OtherCommand(t)
  BY <1>28 DEF OtherCommand
<1>29. CASE EndInput(t)
  BY <1>29 DEF EndInput
<1>30. CASE Killed(t)
  BY <1>30 DEF Killed
<1>31. CASE SystemCommand(t)
  BY <1>31 DEF SystemCommand
<1>32. CASE SystemReturns(t)
  BY <1>32 DEF SystemReturns
<1>33. CASE ClientCommand(t)
  BY <1>33 DEF ClientCommand
<1>34. CASE ClientAddress(t)
  BY <1>34 DEF ClientAddress
<1>35. CASE ClientReturns(t)
  BY <1>35 DEF ClientReturns
<1> QED
  BY <1>1, <1>2, <1>3, <1>4, <1>5, <1>6, <1>7, <1>8, <1>9, <1>10, <1>11, <1>12, <1>13, <1>14, <1>15, <1>16, <1>17, <1>18, <1>19, <1>20, <1>21, <1>22, <1>23, <1>24, <1>25, <1>26, <1>27, <1>28, <1>29, <1>30, <1>31, <1>32,
    <1>33, <1>34, <1>35 DEF LunixStep, Runs, Typed

LEMMA Refines ==
  ASSUME TypeInv, ProcessInv, [MachineNext]_machineVars
  PROVE  [R!Next]_<<phase, level>>
<1>a. ASSUME NEW u \in Terminals, pc'[u] = pc[u], runlevel'[u] = runlevel[u],
             globalRunlevel'[u] = globalRunlevel[u]
      PROVE  phase'[u] = phase[u] /\ level'[u] = level[u]
  BY <1>a DEF phase, level, At
<1>1. CASE UNCHANGED lunixVars
  BY <1>1 DEF lunixVars, levels, phase, level, At
<1>2. ASSUME NEW t \in Terminals, MachineStep(t)
      PROVE  [R!Next]_<<phase, level>>
  <2>0. LevelsFit(t) /\ LoaderFits(t)
    BY DEF ProcessInv
  <2>1. CASE Alone(t) \/ Report(t)
    BY <2>1, <1>1 DEF Alone, Report
  <2>2. ASSUME NEW u \in Terminals, u # t
        PROVE  phase'[u] = phase[u] /\ level'[u] = level[u]
    <3>1. CASE LunixStep(t) /\ UNCHANGED loaderVars
      BY <3>1, <2>2, <1>a, LunixFrame DEF Untouched
    <3>2. CASE ~(LunixStep(t) /\ UNCHANGED loaderVars)
      BY <3>2, <1>2, <2>2, <1>a DEF MachineStep, Alone, ExecKernel, PathFails, Report,
        Return, CtrlC, Abandoned, Main, Goto, Leaves, IsReaped, lunixVars, levels,
        session, TypeInv, MachineTypeOK, LunixTypeOK
    <3> QED
      BY <3>1, <3>2
  <2>3. CASE LunixStep(t) /\ UNCHANGED loaderVars
    BY <2>0, <2>2, <2>3, LunixEdge, EdgeIsStep
  <2>4. CASE ExecKernel(t)
    <3>1. Edge(t)
      BY <2>0, <2>4 DEF ExecKernel, Main, At, Goto, levels, LevelsFit, LoaderFits,
        LoaderAt, Edge, phase, level, TypeInv, MachineTypeOK, LunixTypeOK
    <3> QED
      BY <2>2, <3>1, EdgeIsStep
  <2>5. CASE PathFails(t) \/ Return(t) \/ Abandoned(t)
    <3>1. pc'[t] = pc[t] /\ pc[t] = "off"
      BY <2>0, <2>5 DEF PathFails, Return, Abandoned, LoaderFits, LoaderAt, At
    <3>2. Edge(t)
      BY <3>1 DEF Edge, phase, level, At
    <3> QED
      BY <2>2, <3>2, EdgeIsStep
  <2>6. CASE CtrlC(t)
    <3>1. Edge(t)
      BY <2>6, <1>a DEF CtrlC, InSystem, Leaves, Goto, levels, At, Edge, phase, level, TypeInv,
        MachineTypeOK, LunixTypeOK
    <3> QED
      BY <2>2, <3>1, EdgeIsStep
  <2> QED
    BY <1>2, <2>1, <2>3, <2>4, <2>5, <2>6 DEF MachineStep
<1> QED
  BY <1>1, <1>2, Steps DEF machineVars

\* Any number of Lunix processes keep to the runlevels of kernel.h between them
\* their two kernel objects (kernel.h 32-40, kernel.cpp 41-48, 76-119, lsh.cpp 174).
THEOREM RunlevelsAreKept == MachineSpec => ImplementsRunlevels
<1>1. MachineInit => R!Init
  BY DEF MachineInit, LunixInit, R!Init, phase, level, At
<1>2. MachineInv /\ [MachineNext]_machineVars => [R!Next]_<<phase, level>>
  BY Refines DEF MachineInv
<1> QED
  BY <1>1, <1>2, Invariance, PTL DEF MachineSpec, ImplementsRunlevels, R!Spec

=============================================================================
