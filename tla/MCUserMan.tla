------------------------------ MODULE MCUserMan -----------------------------
(* Values of the constants of UserMan for TLC.                               *)
EXTENDS UserMan, TLC

root   == <<"root">>
bob    == <<"bob">>
dotted == <<"a", "b">>

Users    == {root, bob, dotted}
RootOnly == {root}

Sha256 == [p \in Passwords |-> "sha256 of " \o p]

=============================================================================
