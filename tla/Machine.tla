------------------------------ MODULE Machine -------------------------------
(***************************************************************************)
(* The whole of Lunix on one build directory: on each terminal the boot    *)
(* loader of Bootloader starts the process of Lunix as its child, waits    *)
(* for it and reports how it ended.                                        *)
(***************************************************************************)
EXTENDS Bootloader

machineVars == <<loaderVars, lunixVars>>

MachineInit == LoaderInit /\ LunixInit

\* execvp() of kernel.bin, or of the path given at the recovery prompt.
ExecKernel(t) ==
  /\ \/ LoaderAt(t, "exec", "wait") /\ kernelBin # 0
     \/ LoaderAt(t, "prompt", "wait")
  /\ Main(t)
  /\ UNCHANGED <<flags, computed, files, undisturbed>>

\* Mutant of PathFails: the child returns 0, as the parent does.
PathReturnsZero(t) ==
  /\ LoaderAt(t, "prompt", "wait")
  /\ status' = [status EXCEPT ![t] = "0"]
  /\ UNCHANGED <<flags, computed, files, undisturbed, pc, levels, session, dirs>>

\* The second execvp() fails as well, and the child returns 1.
PathFails(t) ==
  /\ LoaderAt(t, "prompt", "wait")
  /\ status' = [status EXCEPT ![t] = "1"]
  /\ UNCHANGED <<flags, computed, files, undisturbed, pc, levels, session, dirs>>

\* waitpid() returns, and the parent prints the status.
Report(t) ==
  /\ LoaderAt(t, "wait", "reported") /\ At(t, "off")
  /\ UNCHANGED <<flags, computed, files, undisturbed, lunixVars>>

\* The boot loader returns after its report or after a check that failed.
Return(t) ==
  /\ loader[t] \in {"rejected", "exec", "reported"}
  /\ LoaderEnds(t) /\ IsReaped(t)
  /\ UNCHANGED <<pc, session, dirs>>

InSystem(t) == pc[t] \in {"nettest", "system"}

\* The terminal interrupts the boot loader and its child, but not a Lunix that
\* is inside system(), where only the program it waits for is interrupted: that
\* Lunix loses its boot loader, and with it the terminal, which the shell of the
\* host takes back and from which it can no longer read.
CtrlC(t) ==
  /\ LoaderEnds(t)
  /\ \/ ~InSystem(t) /\ Leaves(t) /\ IsReaped(t)
     \/ /\ InSystem(t)
        /\ input' = [input EXCEPT ![t] = FALSE]
        /\ UNCHANGED <<pc, levels, cwd, strayed, log, status, dirs>>

\* Nobody waits for a Lunix that has been left alone.
Abandoned(t) ==
  /\ loader[t] = "off" /\ At(t, "off") /\ status[t] # "none"
  /\ IsReaped(t)
  /\ UNCHANGED <<loaderVars, pc, session, dirs>>

\* A Lunix left alone keeps its terminal until it has ended.
MachineNext ==
  \/ Make /\ UNCHANGED lunixVars
  \/ \E t \in Terminals :
       \/ LoaderAlone(t) /\ At(t, "off") /\ status[t] = "none" /\ UNCHANGED lunixVars
       \/ ExecKernel(t) \/ PathFails(t) \/ Report(t) \/ Return(t) \/ CtrlC(t)
       \/ Abandoned(t)
       \/ (Runs(t) \/ Typed(t) \/ EndInput(t) \/ Killed(t)) /\ UNCHANGED loaderVars

\* The processes run; nothing makes a user type, build or interrupt.
MachineSpec ==
  /\ MachineInit /\ [][MachineNext]_machineVars
  /\ \A t \in Terminals : WF_machineVars(Runs(t) /\ UNCHANGED loaderVars)

-----------------------------------------------------------------------------
\* Types, and that kernel.bin is a build (lunix-bl/main.cpp, post-build.sh).
MachineTypeOK ==
  /\ LunixTypeOK
  /\ loader \in [Terminals -> {"off", "install", "sum", "write", "hash", "compare",
       "rejected", "exec", "prompt", "wait", "reported"}]
  /\ {ignoreHashError, runPostBuild, undisturbed} \subseteq [Terminals -> BOOLEAN]
  /\ computed \in [Terminals -> 0..MaxBuilds]
  /\ lunix \in 0..MaxBuilds /\ kernelBin \in 0..lunix
  /\ storedHash \in 0..MaxBuilds \cup {NoFile}

\* "Child exited with status: 0" means that a Lunix was started, got as far as
\* its shell and was shut down, also when its first exec failed and the child
\* became the recovery prompt (lunix-bl/main.cpp 122-161, kernel.cpp 108-119).
ZeroMeansShutdown ==
  \A t \in Terminals :
    loader[t] = "reported" /\ status[t] = "0" =>
      runlevel[t] = 0 /\ globalRunlevel[t] = 4

\* A Lunix that has lost its boot loader, which Ctrl-C ends in the place of the
\* network test or beside a program of the shell's, does nothing more for anybody:
\* it asks for no password, carries out no command, and goes from login or prompt
\* to its end, which is a panic only if its directory has been removed
\* (network.cpp 12, userman.cpp 47-74, lsh.cpp 183-200, 228-231, 256-257).
OrphanTakesNoCommand ==
  \A t \in Terminals :
    loader[t] # "wait" /\ ~At(t, "off") =>
      /\ ~input[t]
      /\ \/ InSystem(t)
         \/ pc[t] \in {"login", "prompt", "command", "shutdown"}
         \/ pc[t] \in {"panic", "logged"} /\ cwd[t] = Gone

=============================================================================
