------------------------------ MODULE Runlevels -----------------------------
(***************************************************************************)
(* What the runlevels of kernel.h stand for: a Lunix that has been started *)
(* goes from 0 (halted) through 1 (starting), 2 (started, startup scripts) *)
(* and 3 (waiting for a shell) to 4 (the terminal has started), one after  *)
(* the other, and back to 0 from 4 only; there it stays until the process  *)
(* ends.  A crash may end the process at any level.                        *)
(***************************************************************************)
EXTENDS Integers

CONSTANT Terminals

VARIABLES
  phase,  \* "off", "on", or "halted": it is safe to turn off
  level

Init ==
  /\ phase = [t \in Terminals |-> "off"]
  /\ level = [t \in Terminals |-> 0]

Becomes(t, p, l) ==
  /\ phase' = [phase EXCEPT ![t] = p]
  /\ level' = [level EXCEPT ![t] = l]

PowerOn(t) == phase[t] = "off" /\ Becomes(t, "on", 0)
Raise(t)   == phase[t] = "on" /\ level[t] < 4 /\ Becomes(t, "on", level[t] + 1)
Halt(t)    == phase[t] = "on" /\ level[t] = 4 /\ Becomes(t, "halted", 0)
End(t)     == phase[t] # "off" /\ Becomes(t, "off", 0)

Next == \E t \in Terminals : PowerOn(t) \/ Raise(t) \/ Halt(t) \/ End(t)

Spec == Init /\ [][Next]_<<phase, level>>

=============================================================================
