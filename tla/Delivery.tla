------------------------------ MODULE Delivery ------------------------------
(***************************************************************************)
(* What a bridged chat promises its reader: the messages other people post *)
(* in a room appear in its portal in the order in which they were posted,  *)
(* and none appears twice.  When Lossless they appear without gaps.        *)
(***************************************************************************)
EXTENDS Naturals, Sequences

CONSTANTS Rooms, Lossless

VARIABLES
    posted,     \* how many messages each room holds
    shown       \* which of them, by number, each portal shows, in portal order

vars == <<posted, shown>>

Init ==
    /\ posted = [r \in Rooms |-> 0]
    /\ shown = [r \in Rooms |-> <<>>]

Post(r) ==
    /\ posted' = [posted EXCEPT ![r] = @ + 1]
    /\ UNCHANGED shown

Newer(r, n) == \A i \in 1 .. Len(shown[r]) : shown[r][i] < n

Show(r) ==
    /\ \E n \in 1 .. posted[r] :
         /\ Newer(r, n)
         /\ Lossless => n = Len(shown[r]) + 1
         /\ shown' = [shown EXCEPT ![r] = Append(@, n)]
    /\ UNCHANGED posted

Next == \E r \in Rooms : Post(r) \/ Show(r)

Spec == Init /\ [][Next]_vars
=============================================================================
