-------------------------------- MODULE Costs --------------------------------
(* The costs that both planners compute with (internal/grid/grid.go,       *)
(* worldGrid.go): sums held at the mark of the unreachable, the edges      *)
(* between neighbours of a floor and along portals, and as a reference the *)
(* cheapest way to a goal.                                                 *)
EXTENDS Integers, FiniteSetsExt

CONSTANTS
  Cells,         \* the cells of the world, <<x, y, layer>>
  Base,          \* their costs on the map, 0 for a wall
  Portal,        \* the cost of each portal <<from, to>>
  Unreachable    \* UNREACHABLE_COST

ASSUME CostsAssumption ==
  /\ IsFiniteSet(Cells) /\ Cells \subseteq Int \X Int \X Int
  /\ Unreachable \in Nat \ {0}
  /\ Base \in [Cells -> 0..Unreachable - 1]
  /\ DOMAIN Portal \subseteq Cells \X Cells
  /\ \A p \in DOMAIN Portal : Portal[p] \in 1..Unreachable - 1

IsUnreachable(a) == a >= Unreachable
IsBlocked(a) == a <= 0 \/ IsUnreachable(a)

AddCost(a, b) == IF IsUnreachable(a) \/ IsUnreachable(b) \/ a > Unreachable - b
                 THEN Unreachable ELSE a + b
DiagonalCost(a) == IF IsUnreachable(a) THEN Unreachable ELSE (a * 1414 + 999) \div 1000

Abs(n) == IF n < 0 THEN -n ELSE n
Smaller(a, b) == IF a < b THEN a ELSE b
Dx(a, b) == Abs(a[1] - b[1])
Dy(a, b) == Abs(a[2] - b[2])

Adjacent(a, b) == a # b /\ a[3] = b[3] /\ Dx(a, b) <= 1 /\ Dy(a, b) <= 1

(* The cost of entering a cell that costs v from a neighbour.              *)
Enter(a, b, v) == IF IsBlocked(v) THEN Unreachable
                  ELSE IF Dx(a, b) + Dy(a, b) = 2 THEN DiagonalCost(v) ELSE v

Value(objs, c) == IF Base[c] = 0 THEN 0 ELSE AddCost(Base[c], objs[c])

(* The edge from a to b with the objects objs, and the same edge when b    *)
(* had the cost v (sameFloorTraversalCost, oldSameFloorTraversalCost).     *)
Edge(objs, a, b) ==
  IF <<a, b>> \in DOMAIN Portal THEN Portal[<<a, b>>]
  ELSE IF Adjacent(a, b) /\ ~IsBlocked(Value(objs, a)) THEN Enter(a, b, Value(objs, b))
  ELSE Unreachable

OldEdge(a, b, v) ==
  IF <<a, b>> \in DOMAIN Portal THEN Portal[<<a, b>>]
  ELSE IF Adjacent(a, b) THEN Enter(a, b, v)
  ELSE Unreachable

Preds(objs, c) == {s \in Cells : ~IsUnreachable(Edge(objs, s, c))}

(* minCostSucc: what the best successor of c promises.                     *)
LookAhead(objs, gs, c) ==
  Min({AddCost(Edge(objs, c, s), gs[s]) : s \in Cells} \cup {Unreachable})

-----------------------------------------------------------------------------
OpenCells(objs) == {c \in Cells : ~IsBlocked(Value(objs, c))}

Far == [c \in Cells |-> Unreachable]

(* The reference: the cost of the cheapest path to the goal on which every *)
(* cell but the goal is one of S, by its length.                           *)
DistanceWithin(objs, goal, S) ==
  LET d[n \in 0..Cardinality(Cells)] ==
        IF n = 0 THEN [Far EXCEPT ![goal] = 0]
        ELSE LET shorter == d[n - 1]
                 longer == [c \in Cells |-> IF c \in S \ {goal}
                                             THEN LookAhead(objs, shorter, c) ELSE shorter[c]]
             IN IF longer = shorter THEN shorter ELSE longer
  IN d[Cardinality(Cells)]
=============================================================================
