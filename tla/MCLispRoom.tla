----------------------------- MODULE MCLispRoom -----------------------------
(* Values of the constants of LispRoom for TLC.                              *)
EXTENDS LispRoom, TLC

Symmetric == Permutations(Conns) \cup Permutations(FDs)

RoomCommands  == {"USER_SET", "CHAT", "DISS"}
NamedCommands == {"USER_SET"}

=============================================================================
