-------------------------------- MODULE Prioq --------------------------------
(***************************************************************************)
(* The priority queue of src/src/basic/prioq.c: a binary heap of pointers  *)
(* kept in an array, where every element may own an index variable that    *)
(* the queue keeps pointing at the element's slot.                         *)
(*                                                                         *)
(* A queue is a record: items, the array (slot k of the C array, counted   *)
(* from 0, is items[k + 1]), and idx, the index variable of every element, *)
(* 0 standing for PRIOQ_IDX_NULL.  The comparison function is passed as a  *)
(* relation: <<x, y>> \in before says "compare_func(x, y) < 0".            *)
(***************************************************************************)
EXTENDS Naturals, Sequences

NullIdx == 0

EmptyQueue(Data) == [items |-> <<>>, idx |-> [d \in Data |-> NullIdx]]

Size(q) == Len(q.items)

Swap(q, j, k) ==
    LET x == q.items[j]
        y == q.items[k]
    IN  [items |-> [q.items EXCEPT ![j] = y, ![k] = x],
         idx   |-> [q.idx EXCEPT ![x] = k, ![y] = j]]

(* The sift loops; they return the queue and the slot the element ended in. *)
RECURSIVE ShuffleUp(_, _, _)
ShuffleUp(q, k, before) ==
    LET p == k \div 2
    IN  IF k > 1 /\ <<q.items[k], q.items[p]>> \in before
        THEN ShuffleUp(Swap(q, k, p), p, before)
        ELSE [q |-> q, k |-> k]

RECURSIVE ShuffleDown(_, _, _)
ShuffleDown(q, k, before) ==
    LET l == 2 * k
        r == 2 * k + 1
        s == IF l <= Size(q) /\ <<q.items[l], q.items[k]>> \in before THEN l ELSE k
        t == IF r <= Size(q) /\ <<q.items[r], q.items[s]>> \in before THEN r ELSE s
    IN  IF t = k
        THEN [q |-> q, k |-> k]
        ELSE ShuffleDown(Swap(q, k, t), t, before)

(* Faulty: the entry that took a freed slot is only sifted down.           *)
SettleDownOnly(q, k, before) == ShuffleDown(q, k, before).q

(* Down, then up from where the element came to rest.                      *)
Settle(q, k, before) ==
    LET down == ShuffleDown(q, k, before)
    IN  ShuffleUp(down.q, down.k, before).q

(* find_item with an index pointer: the slot is valid only if the element  *)
(* it names is really the one asked for.                                   *)
Found(q, d) ==
    /\ q.idx[d] # NullIdx
    /\ q.idx[d] <= Size(q)
    /\ q.items[q.idx[d]] = d

Put(q, d, before) ==
    LET n == Size(q) + 1
    IN  ShuffleUp([items |-> Append(q.items, d), idx |-> [q.idx EXCEPT ![d] = n]],
                  n, before).q

(* remove_item: the last entry takes the freed slot and is sifted.         *)
RemoveItem(q, k, before) ==
    LET n    == Size(q)
        d    == q.items[k]
        last == q.items[n]
        cut  == [items |-> SubSeq(q.items, 1, n - 1), idx |-> [q.idx EXCEPT ![d] = NullIdx]]
    IN  IF k = n
        THEN cut
        ELSE Settle([items |-> [cut.items EXCEPT ![k] = last],
                     idx   |-> [cut.idx EXCEPT ![last] = k]], k, before)

Remove(q, d, before) ==
    IF Found(q, d) THEN RemoveItem(q, q.idx[d], before) ELSE q

Reshuffle(q, d, before) ==
    IF Found(q, d) THEN Settle(q, q.idx[d], before) ELSE q

Pop(q, before) == RemoveItem(q, 1, before)

IsEmpty(q) == q.items = <<>>
Peek(q)    == q.items[1]

Members(q) == {q.items[k] : k \in 1..Size(q)}

-----------------------------------------------------------------------------
(* What the queue promises.                                                *)

(* No element sorts before the one in the slot above it.                   *)
HeapOrdered(q, before) ==
    \A k \in 2..Size(q) : <<q.items[k], q.items[k \div 2]>> \notin before

(* Every index variable names its element's slot, and only members have one. *)
IndexExact(q) ==
    \A d \in DOMAIN q.idx :
        IF d \in Members(q) THEN Found(q, d) ELSE q.idx[d] = NullIdx
=============================================================================
