----------------------------- MODULE Bootloader -----------------------------
(***************************************************************************)
(* The boot loader (lunix-bl/main.cpp) and the script it runs with -b      *)
(* (lunix-bl/build/post-build.sh), one at a time on each terminal of       *)
(* Lunix, all in one build directory.  A binary is the number of its       *)
(* build, and so is its hash: SHA-256 is taken to be free of collisions.   *)
(* With -r and -h the boot loader only prints a text; those calls are left *)
(* out.                                                                    *)
(***************************************************************************)
EXTENDS Lunix

CONSTANTS
  NoFile,    \* kernel.bin.sha256 does not exist
  MaxBuilds  \* bound: builds of lunix-sys/build/lunix

ASSUME BuildsAssumption == MaxBuilds \in Nat /\ NoFile \notin 0..MaxBuilds

VARIABLES
  loader,           \* where each boot loader is, its script and its child included
  ignoreHashError,  \* main()'s flags
  runPostBuild,
  computed,         \* the hash its script or computeSHA256() has computed
  lunix,            \* the last build; 0 if there is none
  kernelBin,        \* the build in kernel.bin; 0 if there is no such file
  storedHash,       \* kernel.bin.sha256; 0 if it is empty
  undisturbed       \* since its script began nothing has got in its way (ghost)

flags      == <<ignoreHashError, runPostBuild>>
files      == <<lunix, kernelBin, storedHash>>
loaderVars == <<loader, flags, computed, files, undisturbed>>

LoaderInit ==
  /\ loader = [t \in Terminals |-> "off"]
  /\ ignoreHashError = [t \in Terminals |-> FALSE]
  /\ runPostBuild = [t \in Terminals |-> FALSE]
  /\ computed = [t \in Terminals |-> 0]
  /\ lunix = 0 /\ kernelBin = 0 /\ storedHash = NoFile
  /\ undisturbed = [t \in Terminals |-> FALSE]

-----------------------------------------------------------------------------
LoaderAt(t, from, to) ==
  /\ loader[t] = from
  /\ loader' = [loader EXCEPT ![t] = to]

Computes(t, hash) == computed' = [computed EXCEPT ![t] = hash]

\* Somebody builds Lunix.
Make ==
  /\ lunix < MaxBuilds
  /\ lunix' = lunix + 1
  /\ UNCHANGED <<loader, flags, computed, kernelBin, storedHash, undisturbed>>

StartLoader(t) ==
  /\ \E b \in BOOLEAN :
       /\ runPostBuild' = [runPostBuild EXCEPT ![t] = b]
       /\ undisturbed' = [undisturbed EXCEPT ![t] = b]
       /\ LoaderAt(t, "off", IF b THEN "install" ELSE "hash")
  /\ \E i \in BOOLEAN : ignoreHashError' = [ignoreHashError EXCEPT ![t] = i]
  /\ UNCHANGED <<computed, files>>

\* post-build.sh in three steps: cp and mv; sha256sum opens kernel.bin when the
\* redirection has emptied the file of the hash; what it prints is written.
ScriptStep(t, from, to) ==
  /\ LoaderAt(t, from, to)
  /\ undisturbed' = [u \in Terminals |-> undisturbed[u] /\ u = t]
  /\ UNCHANGED <<flags, lunix>>

Install(t) ==
  /\ ScriptStep(t, "install", "sum")
  /\ kernelBin' = IF lunix = 0 THEN kernelBin ELSE lunix
  /\ UNCHANGED <<computed, storedHash>>

\* Mutant of Sum: the hash is taken of the binary in lunix-sys/build.
SumOfBuild(t) ==
  /\ ScriptStep(t, "sum", "write")
  /\ storedHash' = 0 /\ Computes(t, lunix)
  /\ UNCHANGED kernelBin

Sum(t) ==
  /\ ScriptStep(t, "sum", "write")
  /\ storedHash' = 0 /\ Computes(t, kernelBin)
  /\ UNCHANGED kernelBin

Write(t) ==
  /\ ScriptStep(t, "write", "hash")
  /\ storedHash' = computed[t] /\ Computes(t, 0)
  /\ UNCHANGED kernelBin

\* While system() waits the boot loader ignores an interrupt: it ends the
\* script only, and the boot loader goes on.
InterruptScript(t) ==
  /\ \E from \in {"install", "sum", "write"} : LoaderAt(t, from, "hash")
  /\ undisturbed' = [undisturbed EXCEPT ![t] = FALSE]
  /\ Computes(t, 0)
  /\ UNCHANGED <<flags, files>>

-----------------------------------------------------------------------------
ComputeSHA256(t) ==
  /\ IF kernelBin = 0 THEN LoaderAt(t, "hash", "rejected")
                      ELSE LoaderAt(t, "hash", "compare")
  /\ Computes(t, kernelBin)
  /\ UNCHANGED <<flags, files, undisturbed>>

\* readSHA256File() and the comparison.
Matching(t) ==
  /\ storedHash # NoFile
  /\ computed[t] = storedHash \/ ignoreHashError[t]

\* What the check was about is forgotten once it has succeeded.
Compare(t) ==
  /\ \/ /\ ~Matching(t)
        /\ LoaderAt(t, "compare", "rejected")
        /\ UNCHANGED <<flags, undisturbed>>
     \/ /\ Matching(t)
        /\ LoaderAt(t, "compare", "exec")
        /\ ignoreHashError' = [ignoreHashError EXCEPT ![t] = FALSE]
        /\ runPostBuild' = [runPostBuild EXCEPT ![t] = FALSE]
        /\ undisturbed' = [undisturbed EXCEPT ![t] = FALSE]
  /\ Computes(t, 0)
  /\ UNCHANGED files

\* The first execvp() fails; the child asks for another path.
ExecFails(t) ==
  /\ LoaderAt(t, "exec", "prompt")
  /\ UNCHANGED <<flags, computed, files, undisturbed>>

\* The boot loader ends: the check or fork() has failed, it is interrupted
\* outside its script, or it has reported what became of its child.
LoaderEnds(t) ==
  /\ loader[t] \notin {"off", "install", "sum", "write"}
  /\ loader' = [loader EXCEPT ![t] = "off"]
  /\ ignoreHashError' = [ignoreHashError EXCEPT ![t] = FALSE]
  /\ runPostBuild' = [runPostBuild EXCEPT ![t] = FALSE]
  /\ undisturbed' = [undisturbed EXCEPT ![t] = FALSE]
  /\ Computes(t, 0)
  /\ UNCHANGED files

LoaderAlone(t) ==
  \/ StartLoader(t) \/ Install(t) \/ Sum(t) \/ Write(t) \/ InterruptScript(t)
  \/ ComputeSHA256(t) \/ Compare(t) \/ ExecFails(t)

-----------------------------------------------------------------------------
\* A boot loader whose own post-build.sh ran to its end without another one at
\* work accepts the kernel, whatever earlier, overlapping or interrupted
\* scripts had left behind, unless nothing has ever been built
\* (lunix-bl/main.cpp 67-120, post-build.sh).
FreshImageBoots ==
  \A t \in Terminals :
    loader[t] = "rejected" /\ runPostBuild[t] /\ undisturbed[t] => kernelBin = 0

=============================================================================
