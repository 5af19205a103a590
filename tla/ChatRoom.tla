------------------------------ MODULE ChatRoom ------------------------------
(***************************************************************************)
(* What the chat promises those who are in it: there is one conversation,  *)
(* in which only members speak, each under the own name, from entering     *)
(* (again, if they like) to leaving; and a member is shown this            *)
(* conversation in its order and without a gap, from the own entrance at   *)
(* the latest.                                                             *)
(***************************************************************************)
EXTENDS Integers, Sequences

CONSTANT Conns

VARIABLES
  said,  \* the conversation
  shown  \* the places of the conversation each connection has been shown

Words(kind, name, speaker) == [kind |-> kind, from |-> name, by |-> speaker]

Init ==
  /\ said = <<>>
  /\ shown = [c \in Conns |-> {}]

Said(c, kind) == \E i \in 1..Len(said) : said[i] = Words(kind, c, c)
Member(c)     == Said(c, "joined") /\ ~Said(c, "left")

Says(c, kind) ==
  /\ said' = Append(said, Words(kind, c, c))
  /\ UNCHANGED shown

Enter(c) == ~Said(c, "left") /\ Says(c, "joined")
Talk(c)  == Member(c) /\ Says(c, "chat")
Leave(c) == Member(c) /\ Says(c, "left")

FirstShown(c, n) == \A i \in 1..Len(said) : said[i] = Words("joined", c, c) => n <= i

Show(c) ==
  /\ ~Said(c, "left")
  /\ \E n \in 1..Len(said) :
       /\ IF shown[c] = {} THEN FirstShown(c, n) ELSE n - 1 \in shown[c]
       /\ shown' = [shown EXCEPT ![c] = @ \cup {n}]
  /\ UNCHANGED said

Next == \E c \in Conns : Enter(c) \/ Talk(c) \/ Leave(c) \/ Show(c)

Spec == Init /\ [][Next]_<<said, shown>>

=============================================================================
