------------------------------ MODULE PrioqUser ------------------------------
(***************************************************************************)
(* A user of Prioq that keeps the one rule the queue relies on: whenever   *)
(* the key of a member changes, prioq_reshuffle follows before the queue   *)
(* is used again.  Elements are put, removed in any order, popped, and     *)
(* re-keyed while they are members.                                        *)
(***************************************************************************)
EXTENDS Prioq

CONSTANTS Data,  \* the elements
          Keys   \* a finite set of naturals, compared by <

ASSUME KeysAreNaturals == Keys \subseteq Nat

VARIABLES q, key, popped

vars == <<q, key, popped>>

NoData == "none"

(* The order the caller's compare_func reads off the elements.              *)
Before(k) == {p \in Data \X Data : k[p[1]] < k[p[2]]}

Init ==
    /\ q = EmptyQueue(Data)
    /\ key \in [Data -> Keys]
    /\ popped = NoData

(* prioq_put: the caller never puts an element twice.                      *)
UserPut(d) ==
    /\ d \notin Members(q)
    /\ q' = Put(q, d, Before(key))
    /\ popped' = NoData
    /\ UNCHANGED key

UserRemove(d) ==
    /\ q' = Remove(q, d, Before(key))
    /\ popped' = NoData
    /\ UNCHANGED key

UserPop ==
    /\ ~IsEmpty(q)
    /\ q' = Pop(q, Before(key))
    /\ popped' = Peek(q)
    /\ UNCHANGED key

UserRekey(d) ==
    \E k \in Keys \ {key[d]} :
        /\ key' = [key EXCEPT ![d] = k]
        /\ q' = Reshuffle(q, d, Before(key'))
        /\ popped' = NoData

Next == UserPop \/ \E d \in Data : UserPut(d) \/ UserRemove(d) \/ UserRekey(d)

Spec == Init /\ [][Next]_vars

-----------------------------------------------------------------------------
(* The array is a heap and the index variables point at their slots after  *)
(* every call: what prioq_remove and prioq_reshuffle rely on to find an    *)
(* element in constant time.                                               *)
HeapOk ==
    /\ HeapOrdered(q, Before(key))
    /\ IndexExact(q)

(* prioq_pop hands out an element that no member sorts before, whatever    *)
(* was put, removed and re-keyed before, and nothing is lost or duplicated *)
(* on the way: the heap implements the bag.                                *)
Bag == INSTANCE PriorityBag WITH members <- Members(q)
ImplementsPriorityBag == Bag!Spec
=============================================================================
