----------------------------- MODULE PriorityBag -----------------------------
(***************************************************************************)
(* What a priority queue promises its user, with no heap in sight: a set   *)
(* of elements, each with a key; the element handed out is one that no     *)
(* other sorts before.                                                     *)
(***************************************************************************)
EXTENDS Naturals

CONSTANTS Data, Keys

VARIABLES members, key, popped

vars == <<members, key, popped>>

NoData == "none"

First(d) == d \in members /\ \A e \in members : key[d] <= key[e]

Init ==
    /\ members = {}
    /\ key \in [Data -> Keys]
    /\ popped = NoData

Put(d) ==
    /\ members' = members \union {d}
    /\ popped' = NoData
    /\ UNCHANGED key

Remove(d) ==
    /\ members' = members \ {d}
    /\ popped' = NoData
    /\ UNCHANGED key

Pop ==
    \E d \in members :
        /\ First(d)
        /\ members' = members \ {d}
        /\ popped' = d
        /\ UNCHANGED key

Rekey(d) ==
    /\ \E k \in Keys : key' = [key EXCEPT ![d] = k]
    /\ popped' = NoData
    /\ UNCHANGED members

Next == Pop \/ \E d \in Data : Put(d) \/ Remove(d) \/ Rekey(d)

Spec == Init /\ [][Next]_vars
=============================================================================
