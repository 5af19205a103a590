----------------------------- MODULE MCLispChat -----------------------------
(* Values of the constants of LispChat for TLC.                              *)
EXTENDS LispChat, TLC

AllCommands == {"PING", "CONN_REQ", "USER_SET", "CHAT", "DISS"}

Symmetric == Permutations(Conns) \cup Permutations(FDs)

=============================================================================
