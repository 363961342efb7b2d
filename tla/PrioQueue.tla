----------------------------- MODULE PrioQueue ------------------------------
(* The priority queue of the planners (core/priority_queue.go): a binary   *)
(* heap beside a map from elements to their places. While an element rises *)
(* or sinks, only the places of those it passes are written; its own place *)
(* is written once, where it stops. Places count from 1, 0 is absence.     *)
EXTENDS Integers, Sequences

CONSTANTS
  Elems,   \* what the queue may hold
  Keys,    \* keys; Key_comparator orders pairs, which integers stand for
  None     \* no element, or no key

VARIABLES heap,  \* heapElem and heapKeys, as one sequence of entries
          pos    \* the place of each element

vars == <<heap, pos>>

Entry == [elem : Elems, key : Keys]

Init == heap = <<>> /\ pos = [e \in Elems |-> 0]

(* The operations on a queue q, a record of heap and pos.                  *)
Queue == [heap |-> heap, pos |-> pos]
Becomes(q) == heap' = q.heap /\ pos' = q.pos

Before(q, i, j) == q.heap[i].key < q.heap[j].key

(* swapAtFast: the place of what comes to j is left for later.             *)
SwapAtFast(q, i, j) ==
  LET h == [q.heap EXCEPT ![i] = q.heap[j], ![j] = q.heap[i]]
  IN [heap |-> h, pos |-> [q.pos EXCEPT ![h[i].elem] = i]]

(* What moved from first has come to rest at last.                         *)
Settle(q, first, last) ==
  IF first = last THEN q ELSE [q EXCEPT !.pos[q.heap[last].elem] = last]

RECURSIVE RiseFrom(_, _, _)
RiseFrom(q, first, i) ==
  IF i > 1 /\ Before(q, i, i \div 2)
  THEN RiseFrom(SwapAtFast(q, i, i \div 2), first, i \div 2)
  ELSE Settle(q, first, i)

BubbleUp(q, i) == RiseFrom(q, i, i)

(* The first with the smallest key of the entry at i and its children.     *)
Smallest(q, i) ==
  LET family == {j \in {i, 2 * i, 2 * i + 1} : j <= Len(q.heap)}
  IN CHOOSE j \in family : \A k \in family \ {j} :
       Before(q, j, k) \/ (j < k /\ ~Before(q, k, j))

RECURSIVE SinkFrom(_, _, _)
SinkFrom(q, first, i) ==
  IF Smallest(q, i) # i
  THEN SinkFrom(SwapAtFast(q, i, Smallest(q, i)), first, Smallest(q, i))
  ELSE Settle(q, first, i)

BubbleDown(q, i) == SinkFrom(q, i, i)

-----------------------------------------------------------------------------
(* Insert: D* Lite inserts only what Find does not find.                   *)
Insert(e, k) ==
  /\ pos[e] = 0
  /\ LET n == Len(heap) + 1
         q == [heap |-> Append(heap, [elem |-> e, key |-> k]), pos |-> [pos EXCEPT ![e] = n]]
     IN Becomes(BubbleUp(q, n))

(* Update at the place where Find has found e: it may rise or sink.        *)
Update(e, k) ==
  /\ pos[e] # 0
  /\ LET q == BubbleUp([Queue EXCEPT !.heap[pos[e]].key = k], pos[e])
     IN Becomes(BubbleDown(q, pos[e]))

(* The last entry takes the place of e.                                    *)
Without(e) ==
  LET q == SwapAtFast(Queue, pos[e], Len(heap))
  IN [heap |-> SubSeq(q.heap, 1, Len(heap) - 1), pos |-> [q.pos EXCEPT ![e] = 0]]

\* Mutant: the entry that took the place can only sink.
RemoveSinking(e) ==
  /\ pos[e] # 0
  /\ Becomes(IF pos[e] < Len(heap) THEN BubbleDown(Without(e), pos[e]) ELSE Without(e))

(* Remove at the place where Find has found e; the planners take the top   *)
(* out in the same way.                                                    *)
Remove(e) ==
  /\ pos[e] # 0
  /\ Becomes(IF pos[e] < Len(heap)
             THEN BubbleDown(BubbleUp(Without(e), pos[e]), pos[e]) ELSE Without(e))

Clear == heap' = <<>> /\ pos' = [e \in Elems |-> 0]

Next == \/ \E e \in Elems, k \in Keys : Insert(e, k) \/ Update(e, k)
        \/ \E e \in Elems : Remove(e)
        \/ Clear

Spec == Init /\ [][Next]_vars

-----------------------------------------------------------------------------
(* KeyOf and Top are those of a queue that forgets nothing and shows an    *)
(* element with the smallest key after every operation.                    *)
KeyOf == [e \in Elems |-> IF pos[e] = 0 THEN None ELSE heap[pos[e]].key]
Top == IF heap = <<>> THEN None ELSE heap[1].elem

Contract == INSTANCE QueueContract WITH keyOf <- KeyOf, top <- Top
ImplementsContract == Contract!Spec
=============================================================================
