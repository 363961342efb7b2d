--------------------------- MODULE QueueContract ----------------------------
(* What the planners rely on in their priority queue: it knows the key of  *)
(* each element it holds, and shows one with the smallest key.             *)
EXTENDS Integers

CONSTANTS Elems, Keys, None

VARIABLES keyOf,  \* the key of each element, None for one that is not held
          top     \* the element that Top shows, None when there is none

Held(f) == {e \in Elems : f[e] # None}
Minimal(f) == {e \in Held(f) : \A d \in Held(f) : f[e] <= f[d]}

Show(f) == /\ keyOf' = f
           /\ IF Held(f) = {} THEN top' = None ELSE top' \in Minimal(f)

Init == keyOf = [e \in Elems |-> None] /\ top = None

Insert(e, k) == keyOf[e] = None /\ Show([keyOf EXCEPT ![e] = k])
Update(e, k) == keyOf[e] # None /\ Show([keyOf EXCEPT ![e] = k])
Remove(e) == keyOf[e] # None /\ Show([keyOf EXCEPT ![e] = None])
Clear == Show([e \in Elems |-> None])

Next == \/ \E e \in Elems, k \in Keys : Insert(e, k) \/ Update(e, k)
        \/ \E e \in Elems : Remove(e)
        \/ Clear

Spec == Init /\ [][Next]_<<keyOf, top>>
=============================================================================
