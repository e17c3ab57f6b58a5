--------------------------- MODULE TwoPersonRule ---------------------------
(***************************************************************************)
(* What a two-person procedure promises: an item is opened by one person   *)
(* and only ever carried out by others.                                    *)
(***************************************************************************)
CONSTANTS Items, People, Nobody

VARIABLES
  opener,  \* who opened an item
  doers    \* who has carried it out

Init ==
  /\ opener = [i \in Items |-> Nobody]
  /\ doers = [i \in Items |-> {}]

Open(i, p) ==
  /\ opener[i] = Nobody
  /\ opener' = [opener EXCEPT ![i] = p]
  /\ UNCHANGED doers

CarryOut(i, p) ==
  /\ opener[i] \notin {Nobody, p}
  /\ doers' = [doers EXCEPT ![i] = @ \cup {p}]
  /\ UNCHANGED opener

Next == \E i \in Items, p \in People: Open(i, p) \/ CarryOut(i, p)

Spec == Init /\ [][Next]_<<opener, doers>>
=============================================================================
