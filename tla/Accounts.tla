----------------------------- MODULE Accounts ------------------------------
(***************************************************************************)
(* What the user manager keeps to, without files, prompts or crashes: a    *)
(* set of accepted (name, password) pairs and who is logged in where.      *)
(* Until the accounts are settled, that is, until the first kernels that   *)
(* found no password file have finished with it, the pairs may change      *)
(* freely; from then on only a user who is logged in changes them, by      *)
(* adding a pair or by losing them all.  It is what the code does and not  *)
(* all it is documented to do: a password, once accepted, is never         *)
(* replaced by another.                                                    *)
(***************************************************************************)
CONSTANTS Kernels, Names, NoName, Passwords

VARIABLES
  accepted,  \* the pairs a login succeeds with
  who,       \* the user of each kernel's shell
  settled    \* the accounts have been set up

vars == <<accepted, who, settled>>

Init ==
  /\ accepted = {}
  /\ who = [k \in Kernels |-> NoName]
  /\ settled = FALSE

SetUp ==
  /\ ~settled
  /\ accepted' \in SUBSET (Names \X Passwords)
  /\ settled' \in BOOLEAN
  /\ UNCHANGED who

LogIn(k, n, p) ==
  /\ who[k] = NoName
  /\ <<n, p>> \in accepted
  /\ who' = [who EXCEPT ![k] = n]
  /\ UNCHANGED <<accepted, settled>>

LogOut(k) ==
  /\ who' = [who EXCEPT ![k] = NoName]
  /\ UNCHANGED <<accepted, settled>>

\* By passwd, which is root's, or with the editor, which is everybody's.
AddPassword(k, n, p) ==
  /\ who[k] # NoName
  /\ accepted' = accepted \cup {<<n, p>>}
  /\ UNCHANGED <<who, settled>>

\* By rm; the next boot sets them up again.
LoseAll(k) ==
  /\ who[k] # NoName
  /\ accepted' = {} /\ settled' = FALSE
  /\ UNCHANGED who

Next ==
  \/ SetUp
  \/ \E k \in Kernels :
       \/ LogOut(k) \/ LoseAll(k)
       \/ \E n \in Names, p \in Passwords : LogIn(k, n, p) \/ AddPassword(k, n, p)

Spec == Init /\ [][Next]_vars

=============================================================================
