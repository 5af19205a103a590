---------------------------- MODULE MCLispServer ----------------------------
(* Values of the constants of LispServer for TLC.                            *)
EXTENDS LispServer, TLC

Symmetric == Permutations(Conns) \cup Permutations(FDs)

AllCommands   == {"PING", "CONN_REQ", "USER_SET", "CHAT", "DISS"}
NamedCommands == {"USER_SET"}

=============================================================================
