--------------------------- MODULE AgreedDocument ---------------------------
(***************************************************************************)
(* What a voting round promises to the mixes and the clients: at most one  *)
(* document is ever published for the epoch.  Authorities publish it one   *)
(* after the other, or never.                                              *)
(***************************************************************************)
CONSTANTS Authorities, Values, None

VARIABLE chosen     \* chosen[a]: the document authority a serves, or None

Init == chosen = [a \in Authorities |-> None]

Publish(a) ==
    /\ chosen[a] = None
    /\ chosen'[a] \in Values
    /\ \A b \in Authorities : chosen[b] \in {None, chosen'[a]}
    /\ chosen' = [chosen EXCEPT ![a] = chosen'[a]]

Next == \E a \in Authorities : Publish(a)

Spec == Init /\ [][Next]_chosen
=============================================================================
