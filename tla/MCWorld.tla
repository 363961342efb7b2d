------------------------------ MODULE MCWorld -------------------------------
(* The instances of World and PrioQueue for TLC. The two share nothing:    *)
(* both are small, and each behaviour is one of the world or of the queue. *)
EXTENDS World, TLC

CONSTANTS Elems, Alike, None

ASSUME MCAssumption == Alike \subseteq Elems

MCKeys == 1..3

(* Elements differ only in their key, so that they may be exchanged; some  *)
(* of them are, since normalising all of Elems costs more than it saves.   *)
Symmetry == Permutations(Alike)

VARIABLES part,       \* the one of the two that moves
          heap, pos   \* the queue

queueVars == <<heap, pos>>

Q == INSTANCE PrioQueue WITH Keys <- MCKeys

MCInit == part \in {"world", "queue"} /\ Init /\ Q!Init

MCNext == \/ part = "world" /\ Next /\ UNCHANGED <<part, queueVars>>
          \/ part = "queue" /\ Q!Next /\ UNCHANGED <<part, vars>>

MCSpec == MCInit /\ [][MCNext]_<<part, vars, queueVars>>

-----------------------------------------------------------------------------
(* The heap with its map of places is a queue that forgets no element and  *)
(* no key and shows an element with the smallest one (QueueContract).      *)
QueueImplementsContract == Q!ImplementsContract
=============================================================================
