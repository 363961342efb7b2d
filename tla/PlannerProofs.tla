--------------------------- MODULE PlannerProofs ----------------------------
(***************************************************************************)
(* Proofs about Planner: what D* Lite keeps true of its estimates and its  *)
(* queue, on every map with every portal and through every repair.         *)
(***************************************************************************)
EXTENDS Planner, FiniteSetTheorems, WellFoundedInduction, TLAPS

-----------------------------------------------------------------------------
(* The invariant.                                                           *)

Modes == {"pooled", "starting", "planning", "waiting", "walking", "repairing", "replanning",
          "costing", "answered", "ended", "noPath"}

(* The planner has a plan, or repairs it, on the costs it has used.         *)
Settled == {"planning", "waiting", "replanning", "walking"}

(* The agent stands where the keys were made for.                           *)
Standing == {"starting", "planning", "repairing", "replanning", "costing"}

PlannerTypes ==
  /\ mode \in Modes /\ start \in Cells /\ prevPos \in Cells /\ km \in Int
  /\ objects \in [Cells -> Nat] /\ changed \in [Cells -> 0..Unreachable \cup {Unrecorded}]
  /\ g \in [Cells -> 0..Unreachable] /\ rhs \in [Cells -> 0..Unreachable]
  /\ queue \in [Cells -> (Int \X Int) \cup {Unqueued}]
  /\ used \in [Cells -> 0..Unreachable] /\ misled \in BOOLEAN

(* A planner of the pool is as new.                                         *)
PooledInv ==
  /\ mode = "pooled" => g = Far /\ rhs = Far /\ queue = EmptyQueue /\ km = 0
  /\ mode = "starting" => g = Far /\ \A c \in Cells \ {Goal} : rhs[c] = Unreachable

(* Exactly what is inconsistent is queued, with a key not above the one it  *)
(* would have got where the agent stood when km was last raised.            *)
KeyFrom(pos, k, gc, rc, c) == <<Smaller(gc, rc) + Heuristic(pos, c) + k, Smaller(gc, rc)>>

QueueInv ==
  /\ \A c \in Cells : queue[c] # Unqueued <=> g[c] # rhs[c]
  /\ \A c \in Cells : queue[c] # Unqueued => ~Less(KeyFrom(prevPos, km, g[c], rhs[c], c), queue[c])
  /\ mode \in Standing => prevPos = start

(* What each successor of c promises, if the cells cost what val says; and  *)
(* that r is the best of it.                                                *)
Row(val, gs, c) == [s \in Cells |-> AddCost(OldEdge(c, s, val[s]), gs[s])]

Best(r, row) == /\ \A s \in Cells : r <= row[s]
                /\ r = Unreachable \/ \E s \in Cells : r = row[s]

(* The costs of the cells, and those that c still assumes while changes are *)
(* replayed: the ones used before for the cells of N.                       *)
ValuesOf(objs) == [s \in Cells |-> Value(objs, s)]
Mixed(N, old, objs) == [s \in Cells |-> IF s \in N THEN old[s] ELSE Value(objs, s)]

Recorded(ch) == {s \in Cells : ch[s] # Unrecorded}

UsedInv ==
  /\ mode \in Settled => used = ValuesOf(objects)
  /\ mode = "repairing" => \A c \in Cells \ Recorded(changed) : used[c] = Value(objects, c)

FollowInv ==
  ~misled =>
    /\ mode \in Settled => \A c \in OpenCells(objects) \ {Goal} : Best(rhs[c], Row(ValuesOf(objects), g, c))
    /\ mode = "repairing" =>
         \A c \in OpenCells(objects) \ ({Goal} \cup Recorded(changed)) :
           \E N \in SUBSET Recorded(changed) : Best(rhs[c], Row(Mixed(N, used, objects), g, c))

PlannerInv == PlannerTypes /\ PooledInv /\ QueueInv /\ UsedInv /\ FollowInv

-----------------------------------------------------------------------------
(* Sums and edges.                                                          *)

LEMMA SumType ==
  ASSUME NEW a \in Nat, NEW b \in 0..Unreachable
  PROVE  /\ AddCost(a, b) \in 0..Unreachable
         /\ IsUnreachable(a) => AddCost(a, b) = Unreachable
  BY CostsAssumption DEF AddCost, IsUnreachable

LEMMA SumOfFar == ASSUME NEW a \in Nat PROVE AddCost(a, Unreachable) = Unreachable
  BY CostsAssumption DEF AddCost, IsUnreachable

LEMMA SumGrows ==
  ASSUME NEW a \in Nat, NEW b \in 0..Unreachable, NEW d \in Nat, NEW e \in 0..Unreachable, a <= d, b <= e
  PROVE  AddCost(a, b) <= AddCost(d, e)
  BY CostsAssumption DEF AddCost, IsUnreachable

LEMMA ValueType ==
  ASSUME NEW objs \in [Cells -> Nat], NEW c \in Cells PROVE Value(objs, c) \in 0..Unreachable
  BY CostsAssumption DEF Value, AddCost, IsUnreachable

LEMMA DiagonalType ==
  ASSUME NEW v \in 0..Unreachable PROVE DiagonalCost(v) \in Nat
  BY CostsAssumption DEF DiagonalCost, IsUnreachable

LEMMA EdgeType ==
  ASSUME NEW a \in Cells, NEW b \in Cells, NEW v \in 0..Unreachable PROVE OldEdge(a, b, v) \in Nat
<1>1. <<a, b>> \in DOMAIN Portal => Portal[<<a, b>>] \in Nat
  BY CostsAssumption
<1>2. Enter(a, b, v) \in Nat
  BY CostsAssumption, DiagonalType DEF Enter
<1> QED BY <1>1, <1>2, CostsAssumption DEF OldEdge

(* A cell that is open leaves by the edges that depend on their ends only;  *)
(* any other by portals.                                                    *)
LEMMA EdgeIs ==
  ASSUME NEW objs \in [Cells -> Nat], NEW a \in Cells, NEW b \in Cells
  PROVE  /\ Edge(objs, a, b) \in Nat
         /\ a \in OpenCells(objs) => Edge(objs, a, b) = OldEdge(a, b, Value(objs, b))
<1>1. Value(objs, b) \in 0..Unreachable
  BY ValueType
<1>2. OldEdge(a, b, Value(objs, b)) \in Nat
  BY <1>1, EdgeType
<1>3. Edge(objs, a, b) = OldEdge(a, b, Value(objs, b)) \/ Edge(objs, a, b) = Unreachable
  BY DEF Edge, OldEdge
<1>4. a \in OpenCells(objs) => Edge(objs, a, b) = OldEdge(a, b, Value(objs, b))
  BY DEF Edge, OldEdge, OpenCells
<1> QED BY <1>2, <1>3, <1>4, CostsAssumption

-----------------------------------------------------------------------------
(* The best of a row.                                                       *)

Rows == [Cells -> 0..Unreachable]

LEMMA RowType ==
  ASSUME NEW val \in [Cells -> 0..Unreachable], NEW gs \in [Cells -> 0..Unreachable], NEW c \in Cells
  PROVE  Row(val, gs, c) \in Rows
<1>1. \A s \in Cells : OldEdge(c, s, val[s]) \in Nat
  BY EdgeType
<1>2. \A s \in Cells : AddCost(OldEdge(c, s, val[s]), gs[s]) \in 0..Unreachable
  BY <1>1, SumType
<1> QED BY <1>2 DEF Row, Rows

LEMMA LeastOf ==
  ASSUME NEW S, S \subseteq Nat, S # {}
  PROVE  /\ Min(S) \in S /\ \A n \in S : Min(S) <= n
<1> DEFINE R == {p \in Nat \X Nat : p[1] < p[2]}
<1>1. IsWellFoundedOn(R, Nat)
  BY NatLessThanWellFounded DEF OpToRel
<1>2. PICK m \in S : \A n \in S : ~(<<n, m>> \in R)
  <2> HIDE DEF R
  <2> QED BY <1>1, WFMin
<1>3. \A n \in S : ~(n < m)
  BY <1>2
<1> HIDE DEF R
<1>4. \E x \in S : \A n \in S : x <= n
  BY <1>3
<1> QED BY <1>4, Zenon DEF Min

(* What LookAhead computes: the least that a successor promises; for a cell *)
(* that is open, the best of its row.                                       *)
LEMMA LookAheadLeast ==
  ASSUME NEW objs \in [Cells -> Nat], NEW gs \in [Cells -> 0..Unreachable], NEW c \in Cells
  PROVE  /\ LookAhead(objs, gs, c) \in 0..Unreachable
         /\ \A s \in Cells : LookAhead(objs, gs, c) <= AddCost(Edge(objs, c, s), gs[s])
         /\ \/ LookAhead(objs, gs, c) = Unreachable
            \/ \E s \in Cells : LookAhead(objs, gs, c) = AddCost(Edge(objs, c, s), gs[s])
<1> DEFINE S == {AddCost(Edge(objs, c, s), gs[s]) : s \in Cells} \cup {Unreachable}
<1>1. \A s \in Cells : Edge(objs, c, s) \in Nat
  BY EdgeIs
<1>2. \A s \in Cells : AddCost(Edge(objs, c, s), gs[s]) \in 0..Unreachable
  BY <1>1, SumType
<1>3. S \subseteq 0..Unreachable /\ S # {}
  BY <1>2, CostsAssumption
<1>4. LookAhead(objs, gs, c) \in S /\ \A n \in S : LookAhead(objs, gs, c) <= n
  <2>1. LookAhead(objs, gs, c) = Min(S)
    BY DEF LookAhead
  <2>2. S \subseteq Nat
    BY <1>3, CostsAssumption
  <2> HIDE DEF S
  <2>3. Min(S) \in S /\ \A n \in S : Min(S) <= n
    BY <1>3, <2>2, LeastOf
  <2> QED BY <2>1, <2>3
<1> QED BY <1>3, <1>4

LEMMA LookAheadIs ==
  ASSUME NEW objs \in [Cells -> Nat], NEW gs \in [Cells -> 0..Unreachable], NEW c \in Cells
  PROVE  /\ LookAhead(objs, gs, c) \in 0..Unreachable
         /\ c \in OpenCells(objs) => Best(LookAhead(objs, gs, c), Row(ValuesOf(objs), gs, c))
<1>1. ASSUME c \in OpenCells(objs) PROVE Best(LookAhead(objs, gs, c), Row(ValuesOf(objs), gs, c))
  <2>1. \A s \in Cells : Row(ValuesOf(objs), gs, c)[s] = AddCost(Edge(objs, c, s), gs[s])
    <3>1. \A s \in Cells : OldEdge(c, s, ValuesOf(objs)[s]) = Edge(objs, c, s)
      BY <1>1, EdgeIs DEF ValuesOf
    <3> QED BY <3>1 DEF Row
  <2> QED BY <2>1, LookAheadLeast DEF Best
<1> QED BY <1>1, LookAheadLeast

LEMMA BestIsUnique ==
  ASSUME NEW row \in Rows, NEW r \in 0..Unreachable, NEW q \in 0..Unreachable, Best(r, row), Best(q, row)
  PROVE  r = q
  BY CostsAssumption DEF Best, Rows

(* A successor promises less, or more.                                      *)
LEMMA BestLower ==
  ASSUME NEW row \in Rows, NEW r \in 0..Unreachable, Best(r, row), NEW u \in Cells, NEW x \in 0..row[u]
  PROVE  Best(Smaller(r, x), [row EXCEPT ![u] = x])
<1> row[u] \in 0..Unreachable
  BY DEF Rows
<1>1. CASE r <= x
  BY <1>1, CostsAssumption DEF Best, Rows, Smaller
<1>2. CASE x < r
  BY <1>2, CostsAssumption DEF Best, Rows, Smaller
<1> QED BY <1>1, <1>2, CostsAssumption

LEMMA BestRaise ==
  ASSUME NEW row \in Rows, NEW r \in 0..Unreachable, Best(r, row), NEW u \in Cells, NEW x \in 0..Unreachable,
         row[u] <= x, r # row[u] \/ row[u] = x
  PROVE  Best(r, [row EXCEPT ![u] = x])
  BY CostsAssumption DEF Best, Rows

-----------------------------------------------------------------------------
(* The heuristic obeys the triangle inequality.                             *)

(* The cost of n diagonal steps, and what each step along a diagonal saves. *)
Diagonals(n) == (n * 1414 + 999) \div 1000
Saved(n) == Diagonals(n) - 2 * n

LEMMA DiagonalsGrow ==
  ASSUME NEW m \in Nat, NEW n \in Nat
  PROVE  /\ Diagonals(n) \in Nat /\ Saved(n) \in Int
         /\ m <= n => Saved(n) <= Saved(m) /\ Diagonals(m) - m <= Diagonals(n) - n
         /\ Saved(m + n) <= Saved(m) + Saved(n)
  BY DEF Saved, Diagonals

Octile(x, y) == Saved(Smaller(x, y)) + x + y

LEMMA OctileTriangle ==
  ASSUME NEW x \in Nat, NEW y \in Nat, NEW x1 \in Nat, NEW y1 \in Nat, NEW x2 \in Nat, NEW y2 \in Nat,
         x <= x1 + x2, y <= y1 + y2
  PROVE  Octile(x, y) <= Octile(x1, y1) + Octile(x2, y2)
<1> DEFINE m == Smaller(x, y)
           n == Smaller(x1 + x2, y1 + y2)
           m1 == Smaller(x1, y1)
           m2 == Smaller(x2, y2)
<1>1. m \in Nat /\ n \in Nat /\ m1 \in Nat /\ m2 \in Nat /\ m <= n /\ m1 + m2 <= n
  BY DEF Smaller
<1>2. x + y - m <= x1 + x2 + y1 + y2 - n
  BY DEF Smaller
<1> HIDE DEF m, n, m1, m2
<1>0. m1 + m2 \in Nat
  BY <1>1
<1>3. /\ Saved(n) \in Int /\ Saved(m1 + m2) \in Int /\ Saved(m1) \in Int /\ Saved(m2) \in Int
      /\ Diagonals(m) \in Nat /\ Diagonals(n) \in Nat
  BY <1>0, <1>1, DiagonalsGrow
<1>4. Diagonals(m) - m <= Diagonals(n) - n
  BY <1>1, DiagonalsGrow
<1>5. Saved(n) <= Saved(m1 + m2) /\ Saved(m1 + m2) <= Saved(m1) + Saved(m2)
  BY <1>0, <1>1, DiagonalsGrow
<1>6. Saved(m) = Diagonals(m) - 2 * m /\ Saved(n) = Diagonals(n) - 2 * n
  BY DEF Saved
<1>7. Saved(m) + x + y <= Saved(m1) + x1 + y1 + Saved(m2) + x2 + y2
  BY <1>1, <1>2, <1>3, <1>4, <1>5, <1>6
<1> QED BY <1>3, <1>7 DEF Octile, m, m1, m2

LEMMA HeuristicTriangle ==
  ASSUME NEW a \in Cells, NEW b \in Cells, NEW c \in Cells
  PROVE  /\ Heuristic(a, b) \in Int
         /\ Heuristic(a, c) <= Heuristic(a, b) + Heuristic(b, c)
<1>1. /\ a[1] \in Int /\ a[2] \in Int /\ a[3] \in Int
      /\ b[1] \in Int /\ b[2] \in Int /\ b[3] \in Int
      /\ c[1] \in Int /\ c[2] \in Int /\ c[3] \in Int
  BY CostsAssumption
<1>2. /\ \A p, q \in Cells : Dx(p, q) \in Nat /\ Dy(p, q) \in Nat /\ Abs(p[3] - q[3]) \in Int
      /\ Dx(a, c) <= Dx(a, b) + Dx(b, c) /\ Dy(a, c) <= Dy(a, b) + Dy(b, c)
      /\ Abs(a[3] - c[3]) <= Abs(a[3] - b[3]) + Abs(b[3] - c[3])
  BY <1>1, CostsAssumption DEF Dx, Dy, Abs
<1>3. \A p, q \in Cells : /\ Heuristic(p, q) = Octile(Dx(p, q), Dy(p, q)) + Abs(p[3] - q[3])
                          /\ Octile(Dx(p, q), Dy(p, q)) \in Int
  <2> SUFFICES ASSUME NEW p \in Cells, NEW q \in Cells
               PROVE  /\ Heuristic(p, q) = Octile(Dx(p, q), Dy(p, q)) + Abs(p[3] - q[3])
                      /\ Octile(Dx(p, q), Dy(p, q)) \in Int
    OBVIOUS
  <2> DEFINE m == Smaller(Dx(p, q), Dy(p, q))
  <2>1. Dx(p, q) \in Nat /\ Dy(p, q) \in Nat /\ Abs(p[3] - q[3]) \in Int
    BY <1>2
  <2>2. m \in Nat /\ m < Unreachable
    <3>1. Dx(p, q) < Unreachable /\ Dy(p, q) < Unreachable
      BY PlannerAssumption
    <3> QED BY <2>1, <3>1, CostsAssumption DEF Smaller
  <2>3. DiagonalCost(m) = Diagonals(m) /\ Diagonals(m) \in Nat
    BY <2>2, CostsAssumption DEF DiagonalCost, Diagonals, IsUnreachable
  <2>4. Heuristic(p, q) = DiagonalCost(m) + (Dx(p, q) + Dy(p, q) - m) - m + Abs(p[3] - q[3])
    BY DEF Heuristic
  <2>5. Octile(Dx(p, q), Dy(p, q)) = Diagonals(m) - 2 * m + Dx(p, q) + Dy(p, q)
    BY DEF Octile, Saved
  <2> HIDE DEF m
  <2> QED BY <2>1, <2>2, <2>3, <2>4, <2>5
<1>4. Octile(Dx(a, c), Dy(a, c)) <= Octile(Dx(a, b), Dy(a, b)) + Octile(Dx(b, c), Dy(b, c))
  BY <1>2, OctileTriangle
<1> QED BY <1>2, <1>3, <1>4

-----------------------------------------------------------------------------
(* Types.                                                                   *)

EstimateTypes ==
  /\ g \in [Cells -> 0..Unreachable] /\ rhs \in [Cells -> 0..Unreachable]
  /\ queue \in [Cells -> (Int \X Int) \cup {Unqueued}]

LEMMA KeyType ==
  ASSUME NEW pos \in Cells, NEW c \in Cells, NEW k \in Int, NEW a \in 0..Unreachable, NEW b \in 0..Unreachable
  PROVE  KeyFrom(pos, k, a, b, c) \in Int \X Int
  BY HeuristicTriangle, CostsAssumption DEF KeyFrom, Smaller

LEMMA KeyIs == ASSUME NEW c, NEW a, NEW b PROVE Key(c, a, b) = KeyFrom(start, km, a, b, c)
  BY DEF Key, KeyFrom

LEMMA UpdateTypes ==
  ASSUME PlannerTypes, NEW S, NEW gs \in [Cells -> 0..Unreachable], NEW rs \in [Cells -> 0..Unreachable],
         Update(S, gs, rs)
  PROVE  EstimateTypes'
<1>1. \A c \in Cells : Requeued(gs, rs, c) \in (Int \X Int) \cup {Unqueued}
  BY KeyType, KeyIs DEF Requeued, PlannerTypes
<1>2. queue' \in [Cells -> (Int \X Int) \cup {Unqueued}]
  BY <1>1 DEF Update, PlannerTypes
<1> QED BY <1>2 DEF Update, EstimateTypes

LEMMA LowerTypes == ASSUME PlannerTypes, NEW u \in Cells, Lower(u) PROVE EstimateTypes'
<1> DEFINE rs == [c \in Cells |-> IF c \in Preds(objects, u)
                                  THEN Smaller(rhs[c], AddCost(Edge(objects, c, u), rhs[u])) ELSE rhs[c]]
<1>1. [g EXCEPT ![u] = rhs[u]] \in [Cells -> 0..Unreachable]
  BY DEF PlannerTypes
<1>2. \A c \in Cells : AddCost(Edge(objects, c, u), rhs[u]) \in 0..Unreachable
  <2>1. \A c \in Cells : Edge(objects, c, u) \in Nat
    BY EdgeIs DEF PlannerTypes
  <2> QED BY <2>1, SumType DEF PlannerTypes
<1>3. rs \in [Cells -> 0..Unreachable]
  BY <1>2 DEF PlannerTypes, Smaller
<1>4. Update(Preds(objects, u) \cup {u}, [g EXCEPT ![u] = rhs[u]], rs)
  BY DEF Lower
<1> HIDE DEF rs
<1> QED BY <1>1, <1>3, <1>4, UpdateTypes

LEMMA RaiseTypes == ASSUME PlannerTypes, NEW u \in Cells, Raise(u) PROVE EstimateTypes'
<1> DEFINE gs == [g EXCEPT ![u] = Unreachable]
           rs == [c \in Cells |-> IF c \in (Dependent(u, g[u]) \cup {u}) \ {Goal}
                                  THEN LookAhead(objects, gs, c) ELSE rhs[c]]
<1>1. gs \in [Cells -> 0..Unreachable] /\ objects \in [Cells -> Nat]
  BY CostsAssumption DEF PlannerTypes
<1>2. Update(Preds(objects, u) \cup {u}, gs, rs)
  BY DEF Raise
<1>3. rs \in [Cells -> 0..Unreachable]
  <2> HIDE DEF gs
  <2>1. \A c \in Cells : LookAhead(objects, gs, c) \in 0..Unreachable
    BY <1>1, LookAheadIs
  <2> QED BY <2>1 DEF PlannerTypes
<1> HIDE DEF gs, rs
<1> QED BY <1>1, <1>2, <1>3, UpdateTypes

(* What applyChanges leaves of g and rhs.                                   *)
ClearedG(v) == IF IsBlocked(Value(objects, v)) THEN [g EXCEPT ![v] = Unreachable] ELSE g
RepairedRhs(v) == [c \in Cells |-> IF c \in Affected(v)
                                   THEN Repaired(c, v, ClearedG(v), LookAgain(v), g[v]) ELSE LookAgain(v)[c]]

LEMMA ApplyTypes ==
  ASSUME PlannerTypes, NEW v \in Cells, ApplyChange(v)
  PROVE  /\ ClearedG(v) \in [Cells -> 0..Unreachable] /\ LookAgain(v) \in [Cells -> 0..Unreachable]
         /\ RepairedRhs(v) \in [Cells -> 0..Unreachable]
         /\ Update(Affected(v) \cup {v}, ClearedG(v), RepairedRhs(v))
         /\ EstimateTypes'
<1>0. objects \in [Cells -> Nat] /\ g \in [Cells -> 0..Unreachable] /\ rhs \in [Cells -> 0..Unreachable]
  BY DEF PlannerTypes
<1>1. ClearedG(v) \in [Cells -> 0..Unreachable]
  BY <1>0, CostsAssumption DEF ClearedG
<1>2. LookAgain(v) \in [Cells -> 0..Unreachable]
  <2>1. LookAhead(objects, g, v) \in 0..Unreachable
    BY <1>0, LookAheadIs
  <2> QED BY <1>0, <2>1, CostsAssumption DEF LookAgain
<1>3. \A c \in Cells : Repaired(c, v, ClearedG(v), LookAgain(v), g[v]) \in 0..Unreachable
  <2> SUFFICES ASSUME NEW c \in Cells PROVE Repaired(c, v, ClearedG(v), LookAgain(v), g[v]) \in 0..Unreachable
    OBVIOUS
  <2>1. Edge(objects, c, v) \in Nat
    BY <1>0, EdgeIs
  <2>2. AddCost(Edge(objects, c, v), ClearedG(v)[v]) \in 0..Unreachable
    BY <1>1, <2>1, SumType
  <2>3. LookAhead(objects, ClearedG(v), c) \in 0..Unreachable
    BY <1>0, <1>1, LookAheadIs
  <2> QED BY <1>2, <2>2, <2>3 DEF Repaired, Smaller
<1>4. RepairedRhs(v) \in [Cells -> 0..Unreachable]
  BY <1>2, <1>3 DEF RepairedRhs
<1>5. Update(Affected(v) \cup {v}, ClearedG(v), RepairedRhs(v))
  BY DEF ApplyChange, ClearedG, RepairedRhs
<1> QED BY <1>1, <1>2, <1>4, <1>5, UpdateTypes

-----------------------------------------------------------------------------
(* The steps.                                                               *)

(* The goroutine goes on to another part of its loop.                       *)
Onwards ==
  {<<"starting", "costing">>, <<"planning", "waiting">>, <<"replanning", "walking">>,
   <<"costing", "answered">>, <<"repairing", "replanning">>, <<"waiting", "ended">>,
   <<"waiting", "walking">>, <<"walking", "noPath">>, <<"walking", "waiting">>}

GoOn == /\ <<mode, mode'>> \in Onwards
        /\ mode = "repairing" => changed = NoRecord
        /\ UNCHANGED <<km, prevPos, objects, changed, g, rhs, queue, used, misled>>
        /\ start' = start \/ (mode = "walking" /\ mode' = "waiting" /\ start' \in Cells)

PlannerStep ==
  \/ \E s \in Starts : Acquire(s)
  \/ \E o \in Visions : FirstVision(o) \/ LookAround(o)
  \/ \E u \in Cells : Expand(u) \/ ApplyChange(u)
  \/ GoOn \/ Release

LEMMA NextIs == ASSUME Next PROVE PlannerStep
<1> USE DEF position, estimates, history, Onwards
<1>1. ASSUME NEW u \in Cells, TakeStep(u) PROVE GoOn
  BY <1>1 DEF TakeStep, GoOn
<1>2. ASSUME PlanDone PROVE GoOn
  <2>1. /\ \/ (mode = "planning" /\ mode' = "waiting") \/ (mode = "replanning" /\ mode' = "walking")
           \/ (mode = "costing" /\ mode' = "answered")
        /\ UNCHANGED <<position, objects, changed, estimates, history>>
    BY <1>2 DEF PlanDone, Planning
  <2> QED BY <2>1 DEF GoOn
<1>3. ASSUME AskCost \/ ChangesApplied PROVE GoOn
  <2>1. /\ \/ (mode = "starting" /\ mode' = "costing")
           \/ (mode = "repairing" /\ mode' = "replanning" /\ changed = NoRecord)
        /\ UNCHANGED <<position, objects, changed, estimates, history>>
    BY <1>3 DEF AskCost, ChangesApplied
  <2> QED BY <2>1 DEF GoOn
<1>4. ASSUME Arrive \/ Cancelled \/ WalkOn PROVE GoOn
  <2>1. /\ mode = "waiting" /\ mode' \in {"ended", "walking"}
        /\ UNCHANGED <<position, objects, changed, estimates, history>>
    BY <1>4 DEF Arrive, Cancelled, WalkOn
  <2> QED BY <2>1 DEF GoOn
<1>5. ASSUME NoPath \/ StayHere PROVE GoOn
  <2>1. /\ mode = "walking" /\ mode' \in {"noPath", "waiting"}
        /\ UNCHANGED <<position, objects, changed, estimates, history>>
    BY <1>5 DEF NoPath, StayHere
  <2> QED BY <2>1 DEF GoOn
<1> QED BY <1>1, <1>2, <1>3, <1>4, <1>5 DEF Next, PlannerStep

(* What a vision changes: a cell that is still not recorded costs the same. *)
LEMMA LookIs ==
  ASSUME PlannerTypes, NEW o \in Visions, Look(o)
  PROVE  /\ objects' \in [Cells -> Nat] /\ changed' \in [Cells -> 0..Unreachable \cup {Unrecorded}]
         /\ \A c \in Cells : changed'[c] = Unrecorded =>
              changed[c] = Unrecorded /\ Value(objects', c) = Value(objects, c)
         /\ changed' = NoRecord => objects' = objects
<1> DEFINE S == {c \in DOMAIN o : o[c] # objects[c]}
<1>1. S \subseteq Cells /\ \A c \in S : o[c] \in Nat
  BY PlannerAssumption DEF Visions, Visible
<1>2. /\ objects' = [c \in Cells |-> IF c \in S THEN o[c] ELSE objects[c]]
      /\ changed' = [c \in Cells |-> IF c \in S /\ changed[c] = Unrecorded
                                     THEN Value(objects, c) ELSE changed[c]]
  BY DEF Look
<1> HIDE DEF S
<1>3. objects' \in [Cells -> Nat]
  BY <1>1, <1>2 DEF PlannerTypes
<1>4. \A c \in Cells : Value(objects, c) \in 0..Unreachable
  BY ValueType DEF PlannerTypes
<1>5. changed' \in [Cells -> 0..Unreachable \cup {Unrecorded}]
  BY <1>2, <1>4 DEF PlannerTypes
<1>6. ASSUME NEW c \in Cells, changed'[c] = Unrecorded PROVE changed[c] = Unrecorded /\ c \notin S
  BY <1>2, <1>4, <1>6, PlannerAssumption, CostsAssumption
<1>7. \A c \in Cells : changed'[c] = Unrecorded =>
              changed[c] = Unrecorded /\ Value(objects', c) = Value(objects, c)
  BY <1>2, <1>6 DEF Value
<1>8. ASSUME changed' = NoRecord PROVE objects' = objects
  <2>1. \A c \in Cells : c \notin S
    BY <1>6, <1>8 DEF NoRecord
  <2> QED BY <1>2, <2>1 DEF PlannerTypes
<1> QED BY <1>3, <1>5, <1>7, <1>8

LEMMA NewTypes ==
  /\ Clean \in [Cells -> Nat] /\ NoRecord \in [Cells -> 0..Unreachable \cup {Unrecorded}]
  /\ EmptyQueue \in [Cells -> (Int \X Int) \cup {Unqueued}]
  /\ Far \in [Cells -> 0..Unreachable] /\ Base \in [Cells -> 0..Unreachable]
<1>1. Base \in [Cells -> 0..Unreachable] /\ Unreachable \in 0..Unreachable
  BY CostsAssumption
<1> QED BY <1>1 DEF Clean, NoRecord, EmptyQueue, Far

LEMMA InitTypes == ASSUME Init PROVE PlannerTypes
<1>1. mode \in Modes /\ start \in Cells /\ prevPos \in Cells /\ km \in Int
  BY PlannerAssumption DEF Init, Modes
<1>2. misled \in BOOLEAN
  BY DEF Init
<1> QED BY <1>1, <1>2, NewTypes DEF Init, PlannerTypes

LEMMA TypesStep == ASSUME PlannerTypes, PlannerStep PROVE PlannerTypes'
<1> USE DEF position, estimates, history
<1>1. ASSUME NEW s \in Starts, Acquire(s) PROVE PlannerTypes'
  <2>1. s \in Cells /\ Heuristic(s, Goal) \in Int
    BY HeuristicTriangle, PlannerAssumption
  <2>2. rhs' \in [Cells -> 0..Unreachable]
    BY <1>1, CostsAssumption, PlannerAssumption DEF Acquire, PlannerTypes
  <2>3. queue' \in [Cells -> (Int \X Int) \cup {Unqueued}]
    BY <1>1, <2>1, PlannerAssumption DEF Acquire, PlannerTypes
  <2> QED BY <1>1, <2>1, <2>2, <2>3 DEF Acquire, PlannerTypes, Modes
<1>2. ASSUME NEW o \in Visions, FirstVision(o) PROVE PlannerTypes'
  <2>1. objects' \in [Cells -> Nat] /\ changed' \in [Cells -> 0..Unreachable \cup {Unrecorded}]
    BY <1>2, LookIs DEF FirstVision
  <2>2. used' \in [Cells -> 0..Unreachable]
    <3>1. \A c \in Cells : Value(objects', c) \in 0..Unreachable
      BY <2>1, ValueType
    <3> QED BY <1>2, <3>1 DEF FirstVision
  <2> QED BY <1>2, <2>1, <2>2 DEF FirstVision, PlannerTypes, Modes
<1>3. ASSUME NEW o \in Visions, LookAround(o) PROVE PlannerTypes'
  <2>1. objects' \in [Cells -> Nat] /\ changed' \in [Cells -> 0..Unreachable \cup {Unrecorded}]
    BY <1>3, LookIs DEF LookAround
  <2>2. mode' \in {"walking", "repairing"} /\ prevPos' \in Cells /\ km' \in Int
    <3>1. Heuristic(prevPos, start) \in Int
      BY HeuristicTriangle DEF PlannerTypes
    <3> QED BY <1>3, <3>1 DEF LookAround, PlannerTypes
  <2>3. UNCHANGED <<start, g, rhs, queue, used, misled>>
    BY <1>3 DEF LookAround
  <2> QED BY <2>1, <2>2, <2>3 DEF PlannerTypes, Modes
<1>4. ASSUME NEW u \in Cells, Expand(u) PROVE PlannerTypes'
  <2>1. EstimateTypes'
    <3>1. CASE Refresh(u)
      <4>1. Key(u, g[u], rhs[u]) \in Int \X Int
        BY KeyType, KeyIs DEF PlannerTypes
      <4> QED BY <3>1, <4>1 DEF Refresh, PlannerTypes, EstimateTypes
    <3> QED BY <1>4, <3>1, LowerTypes, RaiseTypes DEF Expand
  <2> QED BY <1>4, <2>1 DEF Expand, PlannerTypes, EstimateTypes
<1>5. ASSUME NEW v \in Cells, ApplyChange(v) PROVE PlannerTypes'
  <2>1. EstimateTypes'
    BY <1>5, ApplyTypes
  <2>2. Value(objects, v) \in 0..Unreachable
    BY ValueType DEF PlannerTypes
  <2>3. used' \in [Cells -> 0..Unreachable] /\ changed' \in [Cells -> 0..Unreachable \cup {Unrecorded}]
    BY <1>5, <2>2 DEF ApplyChange, PlannerTypes
  <2>4. misled' \in BOOLEAN
    BY <1>5 DEF ApplyChange
  <2> QED BY <1>5, <2>1, <2>3, <2>4 DEF ApplyChange, PlannerTypes, EstimateTypes
<1>6. ASSUME GoOn PROVE PlannerTypes'
  <2>1. mode' \in Modes /\ start' \in Cells
    BY <1>6 DEF GoOn, Onwards, Modes, PlannerTypes
  <2> QED BY <1>6, <2>1 DEF GoOn, PlannerTypes
<1>7. ASSUME Release PROVE PlannerTypes'
  <2>1. mode' \in Modes /\ start' \in Cells /\ prevPos' \in Cells /\ km' \in Int
    BY <1>7, PlannerAssumption DEF Release, Modes
  <2>2. misled' \in BOOLEAN
    BY <1>7 DEF Release
  <2> QED BY <1>7, <2>1, <2>2, NewTypes DEF Release, PlannerTypes
<1> QED BY <1>1, <1>2, <1>3, <1>4, <1>5, <1>6, <1>7 DEF PlannerStep

-----------------------------------------------------------------------------
(* The planners of the pool.                                                *)

LEMMA PooledStep == ASSUME PlannerTypes, PooledInv, PlannerStep PROVE PooledInv'
<1> USE DEF position, estimates, history
<1>1. ASSUME NEW s \in Starts, Acquire(s) PROVE PooledInv'
  BY <1>1, CostsAssumption DEF Acquire, PooledInv, PlannerTypes, Far
<1>2. ASSUME NEW o \in Visions, FirstVision(o) \/ LookAround(o) PROVE PooledInv'
  <2>1. mode' # "pooled" /\ mode' # "starting"
    BY <1>2 DEF FirstVision, LookAround
  <2> QED BY <2>1 DEF PooledInv
<1>3. ASSUME NEW u \in Cells, Expand(u) \/ ApplyChange(u) PROVE PooledInv'
  <2>1. mode' # "pooled" /\ mode' # "starting"
    BY <1>3 DEF Expand, ApplyChange, Planning
  <2> QED BY <2>1 DEF PooledInv
<1>4. ASSUME GoOn PROVE PooledInv'
  <2>1. mode' # "pooled" /\ mode' # "starting"
    BY <1>4 DEF GoOn, Onwards
  <2> QED BY <2>1 DEF PooledInv
<1>5. ASSUME Release PROVE PooledInv'
  BY <1>5 DEF Release, PooledInv
<1> QED BY <1>1, <1>2, <1>3, <1>4, <1>5 DEF PlannerStep

-----------------------------------------------------------------------------
(* The queue.                                                               *)

LEMMA KeysCompare ==
  ASSUME NEW k \in Int \X Int, NEW l \in Int \X Int, NEW q \in Int \X Int,
         k[1] <= l[1], k[2] = l[2], ~Less(k, q)
  PROVE  ~Less(l, q) /\ ~Less(k, k)
  BY DEF Less

(* updateVertex leaves the cells that it updates queued as they should be,  *)
(* with the keys of now; the others have not changed.                       *)
LEMMA UpdateQueue ==
  ASSUME PlannerTypes, QueueInv, prevPos = start, prevPos' = start', UNCHANGED <<prevPos, km>>,
         NEW S, NEW gs \in [Cells -> 0..Unreachable], NEW rs \in [Cells -> 0..Unreachable],
         \A c \in Cells \ S : gs[c] = g[c] /\ rs[c] = rhs[c], Update(S, gs, rs)
  PROVE  QueueInv'
<1>1. g' = gs /\ rhs' = rs /\ \A c \in Cells : queue'[c] = IF c \in S THEN Requeued(gs, rs, c) ELSE queue[c]
  BY DEF Update
<1>2. \A c \in Cells : KeyFrom(prevPos, km, gs[c], rs[c], c) \in Int \X Int
  BY KeyType DEF PlannerTypes
<1>3. ASSUME NEW c \in Cells
      PROVE  /\ queue'[c] # Unqueued <=> g'[c] # rhs'[c]
             /\ queue'[c] # Unqueued => ~Less(KeyFrom(prevPos, km, g'[c], rhs'[c], c), queue'[c])
  <2>1. CASE c \in S
    <3>1. queue'[c] = IF gs[c] # rs[c] THEN KeyFrom(prevPos, km, gs[c], rs[c], c) ELSE Unqueued
      BY <1>1, <2>1, KeyIs DEF Requeued
    <3>2. KeyFrom(prevPos, km, gs[c], rs[c], c) # Unqueued
      BY <1>2, PlannerAssumption
    <3>3. ~Less(KeyFrom(prevPos, km, gs[c], rs[c], c), KeyFrom(prevPos, km, gs[c], rs[c], c))
      <4> DEFINE k == KeyFrom(prevPos, km, gs[c], rs[c], c)
      <4>1. k \in Int \X Int
        BY <1>2
      <4> HIDE DEF k
      <4>2. ~Less(k, k)
        BY <4>1 DEF Less
      <4> QED BY <4>2 DEF k
    <3> QED BY <1>1, <3>1, <3>2, <3>3
  <2>2. CASE c \notin S
    BY <1>1, <2>2 DEF QueueInv
  <2> QED BY <2>1, <2>2
<1> QED BY <1>3 DEF QueueInv

LEMMA LowerQueue ==
  ASSUME PlannerTypes, QueueInv, prevPos = start, prevPos' = start', UNCHANGED <<prevPos, km>>,
         NEW u \in Cells, Lower(u)
  PROVE  QueueInv'
<1> DEFINE rs == [c \in Cells |-> IF c \in Preds(objects, u)
                                  THEN Smaller(rhs[c], AddCost(Edge(objects, c, u), rhs[u])) ELSE rhs[c]]
           gs == [g EXCEPT ![u] = rhs[u]]
           S == Preds(objects, u) \cup {u}
<1>1. Update(S, gs, rs)
  BY DEF Lower
<1>2. \A c \in Cells \ S : gs[c] = g[c] /\ rs[c] = rhs[c]
  BY DEF PlannerTypes
<1>3. g' = gs /\ rhs' = rs
  BY <1>1 DEF Update
<1>4. gs \in [Cells -> 0..Unreachable] /\ rs \in [Cells -> 0..Unreachable]
  <2> HIDE DEF gs, rs
  <2> QED BY <1>3, LowerTypes DEF EstimateTypes
<1> HIDE DEF gs, rs, S
<1> QED BY <1>1, <1>2, <1>4, UpdateQueue

LEMMA RaiseQueue ==
  ASSUME PlannerTypes, QueueInv, prevPos = start, prevPos' = start', UNCHANGED <<prevPos, km>>,
         NEW u \in Cells, Raise(u)
  PROVE  QueueInv'
<1> DEFINE gs == [g EXCEPT ![u] = Unreachable]
           rs == [c \in Cells |-> IF c \in (Dependent(u, g[u]) \cup {u}) \ {Goal}
                                  THEN LookAhead(objects, gs, c) ELSE rhs[c]]
           S == Preds(objects, u) \cup {u}
<1>1. Update(S, gs, rs)
  BY DEF Raise
<1>2. \A c \in Cells \ S : gs[c] = g[c] /\ rs[c] = rhs[c]
  <2>1. \A c \in Cells \ S : c # u /\ c \notin Dependent(u, g[u])
    BY DEF Dependent
  <2> QED BY <2>1 DEF PlannerTypes
<1>3. g' = gs /\ rhs' = rs
  BY <1>1 DEF Update
<1>4. gs \in [Cells -> 0..Unreachable] /\ rs \in [Cells -> 0..Unreachable]
  <2> HIDE DEF gs, rs
  <2> QED BY <1>3, RaiseTypes DEF EstimateTypes
<1> HIDE DEF gs, rs, S
<1> QED BY <1>1, <1>2, <1>4, UpdateQueue

(* The keys of a repair are raised by at least what the agent's way took    *)
(* off the heuristics.                                                      *)
LEMMA LookQueue == ASSUME PlannerTypes, QueueInv, NEW o \in Visions, LookAround(o) PROVE QueueInv'
<1>1. UNCHANGED <<start, g, rhs, queue>>
  BY DEF LookAround, estimates
<1>2. CASE changed' = NoRecord
  <2>1. mode' \notin Standing /\ UNCHANGED <<km, prevPos>>
    BY <1>2 DEF LookAround, Standing
  <2> QED BY <1>1, <2>1 DEF QueueInv
<1>3. CASE changed' # NoRecord
  <2>1. km' = km + Heuristic(prevPos, start) /\ prevPos' = start
    BY <1>3 DEF LookAround
  <2>2. ASSUME NEW c \in Cells, queue[c] # Unqueued
        PROVE  ~Less(KeyFrom(prevPos', km', g[c], rhs[c], c), queue[c])
    <3> DEFINE k == KeyFrom(prevPos, km, g[c], rhs[c], c)
               l == KeyFrom(prevPos', km', g[c], rhs[c], c)
    <3>1. /\ Heuristic(prevPos, start) \in Int /\ Heuristic(start, c) \in Int /\ Heuristic(prevPos, c) \in Int
          /\ Heuristic(prevPos, c) <= Heuristic(prevPos, start) + Heuristic(start, c)
      BY HeuristicTriangle DEF PlannerTypes
    <3>2. km' \in Int /\ prevPos' \in Cells /\ km \in Int
      BY <2>1, <3>1 DEF PlannerTypes
    <3>3. k \in Int \X Int /\ l \in Int \X Int
      BY <3>2, KeyType DEF PlannerTypes
    <3>4. queue[c] \in Int \X Int /\ ~Less(k, queue[c])
      BY <2>2 DEF QueueInv, PlannerTypes
    <3>5. Smaller(g[c], rhs[c]) \in Int
      BY CostsAssumption DEF Smaller, PlannerTypes
    <3>6. k[1] <= l[1] /\ k[2] = l[2]
      BY <2>1, <3>1, <3>2, <3>5 DEF KeyFrom
    <3> HIDE DEF k, l
    <3>7. ~Less(l, queue[c])
      BY <3>3, <3>4, <3>6, KeysCompare
    <3> QED BY <3>7 DEF l
  <2> QED BY <1>1, <2>1, <2>2 DEF QueueInv
<1> QED BY <1>2, <1>3

LEMMA QueueStep == ASSUME PlannerTypes, PooledInv, QueueInv, PlannerStep PROVE QueueInv'
<1> USE DEF position, estimates, history
<1>1. ASSUME NEW s \in Starts, Acquire(s) PROVE QueueInv'
  <2>1. s \in Cells /\ Goal \in Cells /\ Heuristic(s, Goal) \in Int
    BY HeuristicTriangle, PlannerAssumption
  <2>2. /\ g = Far /\ rhs = Far /\ queue = EmptyQueue /\ km = 0
        /\ prevPos' = s /\ start' = s /\ km' = km /\ g' = g
        /\ rhs' = [rhs EXCEPT ![Goal] = 0] /\ queue' = [queue EXCEPT ![Goal] = <<Heuristic(s, Goal), 0>>]
    BY <1>1 DEF Acquire, PooledInv
  <2>3. /\ g'[Goal] = Unreachable /\ rhs'[Goal] = 0 /\ queue'[Goal] = <<Heuristic(s, Goal), 0>>
        /\ \A c \in Cells \ {Goal} : g'[c] = Unreachable /\ rhs'[c] = Unreachable /\ queue'[c] = Unqueued
    BY <2>1, <2>2 DEF Far, EmptyQueue
  <2>4. <<Heuristic(s, Goal), 0>> # Unqueued /\ Unreachable # 0 /\ Unreachable \in Nat
    BY <2>1, PlannerAssumption, CostsAssumption
  <2>5. ~Less(KeyFrom(s, 0, Unreachable, 0, Goal), <<Heuristic(s, Goal), 0>>)
    BY <2>1, <2>4 DEF KeyFrom, Smaller, Less
  <2> QED BY <2>2, <2>3, <2>4, <2>5 DEF QueueInv
<1>2. ASSUME NEW o \in Visions, FirstVision(o) PROVE QueueInv'
  BY <1>2 DEF FirstVision, QueueInv, Standing
<1>3. ASSUME NEW o \in Visions, LookAround(o) PROVE QueueInv'
  BY <1>3, LookQueue
<1>4. ASSUME NEW u \in Cells, Expand(u) PROVE QueueInv'
  <2>1. prevPos = start /\ prevPos' = start' /\ UNCHANGED <<prevPos, km, mode, start>>
    BY <1>4 DEF Expand, Planning, QueueInv, Standing
  <2>2. CASE Refresh(u)
    <3>1. /\ g' = g /\ rhs' = rhs /\ queue' = [queue EXCEPT ![u] = Key(u, g[u], rhs[u])] /\ queue[u] # Unqueued
          /\ Key(u, g[u], rhs[u]) = KeyFrom(prevPos, km, g[u], rhs[u], u)
      BY <1>4, <2>1, <2>2, KeyIs DEF Refresh, Expand, Top, Queued
    <3> DEFINE k == KeyFrom(prevPos, km, g[u], rhs[u], u)
    <3>2. k \in Int \X Int
      BY KeyType DEF PlannerTypes
    <3>3. queue' = [queue EXCEPT ![u] = k]
      BY <3>1
    <3> HIDE DEF k
    <3>4. k # Unqueued /\ ~Less(k, k)
      BY <3>2, PlannerAssumption DEF Less
    <3>5. \A c \in Cells : queue'[c] = IF c = u THEN k ELSE queue[c]
      BY <3>3 DEF PlannerTypes
    <3>6. ASSUME NEW c \in Cells
          PROVE  /\ queue'[c] # Unqueued <=> g'[c] # rhs'[c]
                 /\ queue'[c] # Unqueued => ~Less(KeyFrom(prevPos, km, g[c], rhs[c], c), queue'[c])
      <4>1. CASE c = u
        BY <3>1, <3>4, <3>5, <4>1 DEF QueueInv, k
      <4>2. CASE c # u
        BY <3>1, <3>5, <4>2 DEF QueueInv
      <4> QED BY <4>1, <4>2
    <3> QED BY <2>1, <3>1, <3>6 DEF QueueInv
  <2> QED BY <1>4, <2>1, <2>2, LowerQueue, RaiseQueue DEF Expand
<1>5. ASSUME NEW v \in Cells, ApplyChange(v) PROVE QueueInv'
  <2>1. prevPos = start /\ prevPos' = start' /\ UNCHANGED <<prevPos, km, mode, start>>
    BY <1>5 DEF ApplyChange, QueueInv, Standing
  <2>2. /\ ClearedG(v) \in [Cells -> 0..Unreachable] /\ RepairedRhs(v) \in [Cells -> 0..Unreachable]
        /\ Update(Affected(v) \cup {v}, ClearedG(v), RepairedRhs(v))
    BY <1>5, ApplyTypes
  <2>3. \A c \in Cells \ (Affected(v) \cup {v}) : ClearedG(v)[c] = g[c] /\ RepairedRhs(v)[c] = rhs[c]
    BY DEF ClearedG, RepairedRhs, LookAgain, PlannerTypes
  <2> QED BY <2>1, <2>2, <2>3, UpdateQueue
<1>6. ASSUME GoOn PROVE QueueInv'
  <2>1. mode' \in Standing => mode \in Standing /\ start' = start
    BY <1>6 DEF GoOn, Onwards, Standing
  <2> QED BY <1>6, <2>1 DEF GoOn, QueueInv
<1>7. ASSUME Release PROVE QueueInv'
  BY <1>7 DEF Release, QueueInv, Far, EmptyQueue, Standing
<1> QED BY <1>1, <1>2, <1>3, <1>4, <1>5, <1>6, <1>7 DEF PlannerStep

-----------------------------------------------------------------------------
(* The costs the planner has used.                                          *)

LEMMA UsedStep == ASSUME PlannerTypes, UsedInv, PlannerStep PROVE UsedInv'
<1> USE DEF position, estimates, history
<1>1. ASSUME NEW s \in Starts, Acquire(s) PROVE UsedInv'
  BY <1>1 DEF Acquire, UsedInv, Settled
<1>2. ASSUME NEW o \in Visions, FirstVision(o) PROVE UsedInv'
  BY <1>2 DEF FirstVision, UsedInv, ValuesOf
<1>3. ASSUME NEW o \in Visions, LookAround(o) PROVE UsedInv'
  <2>1. /\ \A c \in Cells : changed'[c] = Unrecorded => Value(objects', c) = Value(objects, c)
        /\ changed' = NoRecord => objects' = objects
    BY <1>3, LookIs DEF LookAround
  <2>2. used' = used /\ used = ValuesOf(objects)
    BY <1>3 DEF LookAround, UsedInv, Settled
  <2>3. CASE changed' = NoRecord
    <3>1. mode' # "repairing" /\ objects' = objects
      BY <1>3, <2>1, <2>3 DEF LookAround
    <3> QED BY <2>2, <3>1 DEF UsedInv
  <2>4. CASE changed' # NoRecord
    <3>1. mode' \notin Settled
      BY <1>3, <2>4 DEF LookAround, Settled
    <3>2. \A c \in Cells \ Recorded(changed') : used'[c] = Value(objects', c)
      BY <2>1, <2>2 DEF Recorded, ValuesOf
    <3> QED BY <3>1, <3>2 DEF UsedInv
  <2> QED BY <2>3, <2>4
<1>4. ASSUME NEW u \in Cells, Expand(u) PROVE UsedInv'
  BY <1>4 DEF Expand, UsedInv
<1>5. ASSUME NEW v \in Cells, ApplyChange(v) PROVE UsedInv'
  <2>1. mode = "repairing" /\ mode' = "repairing" /\ objects' = objects
    BY <1>5 DEF ApplyChange
  <2>2. /\ \A c \in Cells \ {v} : used'[c] = used[c] /\ changed'[c] = changed[c]
        /\ used'[v] = Value(objects, v)
    BY <1>5 DEF ApplyChange, PlannerTypes
  <2>3. \A c \in Cells \ Recorded(changed') : used'[c] = Value(objects, c)
    BY <2>1, <2>2 DEF UsedInv, Recorded
  <2> QED BY <2>1, <2>3 DEF UsedInv, Settled
<1>6. ASSUME GoOn PROVE UsedInv'
  <2>1. mode' # "repairing" /\ objects' = objects /\ used' = used /\ changed' = changed
    BY <1>6 DEF GoOn, Onwards
  <2>2. CASE mode = "repairing"
    <3>1. Recorded(changed) = {}
      BY <1>6, <2>2 DEF GoOn, Recorded, NoRecord
    <3>2. used = ValuesOf(objects)
      BY <2>2, <3>1 DEF UsedInv, ValuesOf, PlannerTypes
    <3> QED BY <2>1, <3>2 DEF UsedInv
  <2>3. CASE mode # "repairing"
    <3>1. mode' \in Settled => mode \in Settled
      BY <1>6, <2>3 DEF GoOn, Onwards, Settled
    <3> QED BY <2>1, <3>1 DEF UsedInv
  <2> QED BY <2>2, <2>3
<1>7. ASSUME Release PROVE UsedInv'
  BY <1>7 DEF Release, UsedInv, Settled
<1> QED BY <1>1, <1>2, <1>3, <1>4, <1>5, <1>6, <1>7 DEF PlannerStep

-----------------------------------------------------------------------------
(* The look-aheads.                                                         *)

LEMMA ValuesType == ASSUME NEW objs \in [Cells -> Nat] PROVE ValuesOf(objs) \in [Cells -> 0..Unreachable]
  BY ValueType DEF ValuesOf

LEMMA LowerFollow ==
  ASSUME PlannerTypes, NEW u \in Cells, Lower(u), NEW c \in OpenCells(objects) \ {Goal},
         Best(rhs[c], Row(ValuesOf(objects), g, c))
  PROVE  Best(rhs'[c], Row(ValuesOf(objects), g', c))
<1> DEFINE row == Row(ValuesOf(objects), g, c)
           x == AddCost(Edge(objects, c, u), rhs[u])
<1>0. /\ c \in Cells /\ objects \in [Cells -> Nat] /\ g \in [Cells -> 0..Unreachable]
      /\ rhs \in [Cells -> 0..Unreachable] /\ ValuesOf(objects)[u] = Value(objects, u)
  BY DEF OpenCells, PlannerTypes, ValuesOf
<1>1. /\ g' = [g EXCEPT ![u] = rhs[u]] /\ g[u] > rhs[u]
      /\ rhs'[c] = IF c \in Preds(objects, u) THEN Smaller(rhs[c], x) ELSE rhs[c]
  BY <1>0 DEF Lower, Update
<1>2. /\ Edge(objects, c, u) \in Nat
      /\ Edge(objects, c, u) = OldEdge(c, u, ValuesOf(objects)[u])
  BY <1>0, EdgeIs
<1>3. row \in Rows /\ row[u] = AddCost(Edge(objects, c, u), g[u])
  <2>1. row \in Rows
    BY <1>0, RowType, ValuesType
  <2> QED BY <1>2, <2>1 DEF Row
<1>4. Row(ValuesOf(objects), g', c) = [row EXCEPT ![u] = x]
  <2>1. Row(ValuesOf(objects), [g EXCEPT ![u] = rhs[u]], c)
          = [row EXCEPT ![u] = AddCost(OldEdge(c, u, ValuesOf(objects)[u]), rhs[u])]
    BY <1>0 DEF Row
  <2> HIDE DEF row
  <2> QED BY <1>1, <1>2, <2>1
<1>5. x \in 0..row[u]
  <2>1. g[u] \in 0..Unreachable /\ rhs[u] \in 0..Unreachable /\ rhs[u] <= g[u]
    BY <1>0, <1>1, CostsAssumption
  <2>2. x \in 0..Unreachable /\ AddCost(Edge(objects, c, u), g[u]) \in 0..Unreachable
    BY <1>2, <2>1, SumType
  <2>3. x <= AddCost(Edge(objects, c, u), g[u])
    BY <1>2, <2>1, SumGrows
  <2> HIDE DEF x, row
  <2> QED BY <1>3, <2>2, <2>3, CostsAssumption
<1>6. Best(rhs[c], row) /\ rhs[c] \in 0..Unreachable
  BY <1>0
<1>7. CASE c \in Preds(objects, u)
  <2> HIDE DEF row, x
  <2>1. Best(Smaller(rhs[c], x), [row EXCEPT ![u] = x])
    BY <1>3, <1>5, <1>6, BestLower
  <2> QED BY <1>1, <1>4, <1>7, <2>1
<1>8. CASE c \notin Preds(objects, u)
  <2>1. IsUnreachable(Edge(objects, c, u))
    BY <1>0, <1>8 DEF Preds
  <2>2. x = row[u]
    <3>1. g[u] \in 0..Unreachable /\ rhs[u] \in 0..Unreachable
      BY <1>0
    <3>2. x = Unreachable /\ AddCost(Edge(objects, c, u), g[u]) = Unreachable
      BY <1>2, <2>1, <3>1, SumType
    <3> QED BY <1>3, <3>2
  <2> HIDE DEF row, x
  <2>3. [row EXCEPT ![u] = x] = row
    BY <1>3, <2>2 DEF Rows
  <2> QED BY <1>1, <1>4, <1>6, <1>8, <2>3
<1> QED BY <1>7, <1>8

LEMMA RaiseFollow ==
  ASSUME PlannerTypes, NEW u \in Cells, Raise(u), NEW c \in OpenCells(objects) \ {Goal},
         Best(rhs[c], Row(ValuesOf(objects), g, c))
  PROVE  Best(rhs'[c], Row(ValuesOf(objects), g', c))
<1> DEFINE row == Row(ValuesOf(objects), g, c)
           gs == [g EXCEPT ![u] = Unreachable]
<1>0. /\ c \in Cells /\ objects \in [Cells -> Nat] /\ g \in [Cells -> 0..Unreachable]
      /\ rhs \in [Cells -> 0..Unreachable] /\ ValuesOf(objects)[u] = Value(objects, u)
      /\ Unreachable \in 0..Unreachable
  BY CostsAssumption DEF OpenCells, PlannerTypes, ValuesOf
<1>1. /\ g' = gs /\ gs \in [Cells -> 0..Unreachable]
      /\ rhs'[c] = IF c \in Dependent(u, g[u]) \cup {u} THEN LookAhead(objects, gs, c) ELSE rhs[c]
  BY <1>0 DEF Raise, Update
<1>2. /\ Edge(objects, c, u) \in Nat
      /\ Edge(objects, c, u) = OldEdge(c, u, ValuesOf(objects)[u])
  BY <1>0, EdgeIs
<1>3. row \in Rows /\ row[u] = AddCost(Edge(objects, c, u), g[u])
  <2>1. row \in Rows
    BY <1>0, RowType, ValuesType
  <2> QED BY <1>2, <2>1 DEF Row
<1>4. Row(ValuesOf(objects), g', c) = [row EXCEPT ![u] = Unreachable]
  <2>1. AddCost(Edge(objects, c, u), Unreachable) = Unreachable
    BY <1>2, SumOfFar
  <2>2. Row(ValuesOf(objects), gs, c)
          = [row EXCEPT ![u] = AddCost(OldEdge(c, u, ValuesOf(objects)[u]), Unreachable)]
    BY <1>0 DEF Row
  <2> HIDE DEF row, gs
  <2> QED BY <1>1, <1>2, <2>1, <2>2
<1>5. CASE c \in Dependent(u, g[u]) \cup {u}
  <2> HIDE DEF gs
  <2>1. Best(LookAhead(objects, gs, c), Row(ValuesOf(objects), gs, c))
    BY <1>0, <1>1, LookAheadIs
  <2> QED BY <1>1, <1>5, <2>1
<1>6. CASE c \notin Dependent(u, g[u]) \cup {u}
  <2>1. rhs[c] # row[u] \/ row[u] = Unreachable
    <3>1. CASE c \in Preds(objects, u)
      BY <1>3, <1>6, <3>1 DEF Dependent
    <3>2. CASE c \notin Preds(objects, u)
      <4>1. IsUnreachable(Edge(objects, c, u)) /\ g[u] \in 0..Unreachable
        BY <1>0, <3>2 DEF Preds
      <4> QED BY <1>2, <1>3, <4>1, SumType
    <3> QED BY <3>1, <3>2
  <2>2. Best(rhs[c], row) /\ rhs[c] \in 0..Unreachable
    BY <1>0
  <2> HIDE DEF row
  <2>3. row[u] <= Unreachable
    BY <1>3, CostsAssumption DEF Rows
  <2>4. Best(rhs[c], [row EXCEPT ![u] = Unreachable])
    BY <1>0, <1>3, <2>1, <2>2, <2>3, BestRaise
  <2> QED BY <1>1, <1>4, <1>6, <2>4
<1> QED BY <1>5, <1>6

(* A cell whose neighbour v is replayed: whatever the cell assumed of v, it *)
(* now assumes v's present cost.                                            *)
LEMMA NeighbourFollow ==
  ASSUME PlannerTypes, NEW v \in Cells, ApplyChange(v), changed[v] = used[v],
         NEW c \in OpenCells(objects) \ {Goal}, c # v,
         NEW val \in [Cells -> 0..Unreachable], Best(rhs[c], Row(val, g, c)),
         val[v] = used[v] \/ val[v] = Value(objects, v)
  PROVE  \/ Best(rhs'[c], Row([val EXCEPT ![v] = Value(objects, v)], g', c))
         \/ Best(rhs'[c], Row(ValuesOf(objects), g', c))
<1> DEFINE row == Row(val, g, c)
           old == OldEdge(c, v, used[v])
           new == Edge(objects, c, v)
           gs == ClearedG(v)
           x == AddCost(new, gs[v])
<1>0. /\ c \in Cells /\ objects \in [Cells -> Nat] /\ g \in [Cells -> 0..Unreachable]
      /\ rhs \in [Cells -> 0..Unreachable] /\ used \in [Cells -> 0..Unreachable]
      /\ Unreachable \in 0..Unreachable /\ Value(objects, v) \in 0..Unreachable
  BY CostsAssumption, ValueType DEF OpenCells, PlannerTypes
<1>1. old \in Nat /\ new \in Nat /\ new = OldEdge(c, v, Value(objects, v))
  BY <1>0, EdgeType, EdgeIs
<1>2. /\ g' = gs /\ gs \in [Cells -> 0..Unreachable]
      /\ rhs'[c] = IF c \in Affected(v) THEN Repaired(c, v, gs, LookAgain(v), g[v]) ELSE rhs[c]
  <2>1. g' = gs /\ gs \in [Cells -> 0..Unreachable] /\ rhs' = RepairedRhs(v)
    BY ApplyTypes DEF Update
  <2>2. LookAgain(v)[c] = rhs[c]
    BY <1>0 DEF LookAgain
  <2> QED BY <1>0, <2>1, <2>2 DEF RepairedRhs
<1>3. /\ row \in Rows /\ row[v] \in 0..Unreachable
      /\ \/ row[v] = AddCost(old, g[v])
         \/ row[v] = AddCost(new, g[v])
  <2>1. row \in Rows
    BY <1>0, RowType
  <2>2. row[v] = AddCost(OldEdge(c, v, val[v]), g[v])
    BY DEF Row
  <2> QED BY <1>1, <2>1, <2>2 DEF Rows
<1>4. Row([val EXCEPT ![v] = Value(objects, v)], gs, c) = [row EXCEPT ![v] = x]
  <2>1. \A s \in Cells \ {v} : gs[s] = g[s]
    BY <1>0 DEF ClearedG
  <2> HIDE DEF gs
  <2> QED BY <1>0, <1>1, <2>1 DEF Row
<1>5. /\ g[v] \in 0..Unreachable /\ gs[v] \in 0..Unreachable /\ g[v] <= gs[v]
      /\ gs[v] = g[v] \/ (gs[v] = Unreachable /\ (new = old \/ new = Unreachable))
  <2>1. CASE IsBlocked(Value(objects, v))
    <3>1. gs[v] = Unreachable
      BY <1>0, <2>1 DEF ClearedG
    <3>2. new = old \/ new = Unreachable
      BY <2>1 DEF Edge, OldEdge, Enter
    <3> QED BY <1>0, <3>1, <3>2
  <2>2. CASE ~IsBlocked(Value(objects, v))
    BY <1>0, <2>2 DEF ClearedG
  <2> QED BY <2>1, <2>2
<1>6. /\ AddCost(old, g[v]) \in 0..Unreachable /\ AddCost(new, g[v]) \in 0..Unreachable
      /\ x \in 0..Unreachable /\ AddCost(new, g[v]) <= x
      /\ old <= new => AddCost(old, g[v]) <= AddCost(new, g[v])
      /\ new <= old => AddCost(new, g[v]) <= AddCost(old, g[v])
      /\ IsUnreachable(old) => AddCost(old, g[v]) = Unreachable
      /\ IsUnreachable(new) => AddCost(new, g[v]) = Unreachable /\ x = Unreachable
  <2> HIDE DEF old, new, gs
  <2>1. AddCost(new, g[v]) <= x
    BY <1>1, <1>5, SumGrows
  <2>2. old <= new => AddCost(old, g[v]) <= AddCost(new, g[v])
    BY <1>1, <1>5, SumGrows
  <2>3. new <= old => AddCost(new, g[v]) <= AddCost(old, g[v])
    BY <1>1, <1>5, SumGrows
  <2> QED BY <1>1, <1>5, <2>1, <2>2, <2>3, SumType
<1>7. c \in Affected(v) <=> ~IsUnreachable(old) \/ ~IsUnreachable(new)
  BY <1>0 DEF Affected
<1>8. Repaired(c, v, gs, LookAgain(v), g[v]) =
        IF old > new THEN Smaller(rhs[c], x)
        ELSE IF rhs[c] = AddCost(old, g[v]) THEN LookAhead(objects, gs, c) ELSE rhs[c]
  <2>1. LookAgain(v)[c] = rhs[c]
    BY <1>0 DEF LookAgain
  <2> QED BY <2>1 DEF Repaired
<1>9. Best(rhs[c], row) /\ rhs[c] \in 0..Unreachable
  BY <1>0
<1>10. CASE c \notin Affected(v)
  <2>1. x = row[v]
    BY <1>3, <1>6, <1>7, <1>10
  <2>2. [row EXCEPT ![v] = x] = row
    <3> HIDE DEF row, x
    <3> QED BY <1>3, <2>1 DEF Rows
  <2> HIDE DEF row, x, gs
  <2> QED BY <1>2, <1>4, <1>9, <1>10, <2>2
<1>11. CASE c \in Affected(v) /\ old > new
  <2> HIDE DEF row, x, gs, old, new
  <2>1. x <= row[v]
    <3>1. CASE gs[v] = g[v]
      BY <1>1, <1>3, <1>6, <1>11, <3>1 DEF x
    <3>2. CASE gs[v] = Unreachable /\ new = Unreachable
      <4>1. IsUnreachable(old) /\ IsUnreachable(new)
        BY <1>1, <1>11, <3>2, CostsAssumption DEF IsUnreachable
      <4> QED BY <1>3, <1>6, <4>1, CostsAssumption
    <3> QED BY <1>1, <1>5, <1>11, <3>1, <3>2
  <2>2. x \in 0..row[v]
    BY <1>3, <1>6, <2>1, CostsAssumption
  <2>3. Best(Smaller(rhs[c], x), [row EXCEPT ![v] = x])
    BY <1>3, <1>9, <2>2, BestLower
  <2> QED BY <1>2, <1>4, <1>8, <1>11, <2>3
<1>12. CASE c \in Affected(v) /\ ~(old > new) /\ rhs[c] = AddCost(old, g[v])
  <2> HIDE DEF row, x, gs, old, new
  <2>1. Best(LookAhead(objects, gs, c), Row(ValuesOf(objects), gs, c))
    BY <1>0, <1>2, LookAheadIs
  <2> QED BY <1>2, <1>8, <1>12, <2>1
<1>13. CASE c \in Affected(v) /\ ~(old > new) /\ rhs[c] # AddCost(old, g[v])
  <2> HIDE DEF row, x, gs, old, new
  <2>0. old <= new
    BY <1>1, <1>13
  <2>1. row[v] <= x
    BY <1>3, <1>6, <2>0, CostsAssumption
  <2>2. rhs[c] # row[v] \/ row[v] = x
    <3>1. CASE row[v] = AddCost(old, g[v])
      BY <1>13, <3>1
    <3>2. CASE row[v] = AddCost(new, g[v]) /\ gs[v] = g[v]
      BY <3>2 DEF x
    <3>3. CASE row[v] = AddCost(new, g[v]) /\ new = old
      BY <1>13, <3>3
    <3>4. CASE row[v] = AddCost(new, g[v]) /\ new = Unreachable
      <4>1. IsUnreachable(new)
        BY <3>4, CostsAssumption DEF IsUnreachable
      <4> QED BY <1>6, <3>4, <4>1
    <3> QED BY <1>3, <1>5, <3>1, <3>2, <3>3, <3>4
  <2>3. Best(rhs[c], [row EXCEPT ![v] = x])
    BY <1>3, <1>6, <1>9, <2>1, <2>2, BestRaise
  <2> QED BY <1>2, <1>4, <1>8, <1>13, <2>3
<1> HIDE DEF row, x, gs, old, new
<1> QED BY <1>2, <1>10, <1>11, <1>12, <1>13

LEMMA ApplyFollow ==
  ASSUME PlannerTypes, FollowInv, NEW v \in Cells, ApplyChange(v), ~misled'
  PROVE  \A c \in OpenCells(objects) \ ({Goal} \cup Recorded(changed')) :
           \E N \in SUBSET Recorded(changed') : Best(rhs'[c], Row(Mixed(N, used', objects), g', c))
<1>0. /\ mode = "repairing" /\ ~misled /\ changed[v] = used[v] /\ Recorded(changed') = Recorded(changed) \ {v}
      /\ \A s \in Cells \ {v} : used'[s] = used[s]
  BY DEF ApplyChange, PlannerTypes, Recorded
<1>1. Mixed({}, used', objects) = ValuesOf(objects)
  BY DEF Mixed, ValuesOf
<1>2. /\ objects \in [Cells -> Nat] /\ g \in [Cells -> 0..Unreachable] /\ rhs \in [Cells -> 0..Unreachable]
      /\ used \in [Cells -> 0..Unreachable] /\ \A s \in Cells : Value(objects, s) \in 0..Unreachable
  BY ValueType DEF PlannerTypes
<1> SUFFICES ASSUME NEW c \in OpenCells(objects) \ ({Goal} \cup Recorded(changed'))
             PROVE  \E N \in SUBSET Recorded(changed') : Best(rhs'[c], Row(Mixed(N, used', objects), g', c))
  OBVIOUS
<1>3. c \in Cells /\ c \in OpenCells(objects) \ {Goal}
  BY DEF OpenCells
<1>4. CASE c = v
  <2>1. rhs' = RepairedRhs(v) /\ g' = ClearedG(v)
    BY ApplyTypes DEF Update
  <2>2. ClearedG(v) = g /\ LookAgain(v)[v] = LookAhead(objects, g, v)
    BY <1>2, <1>3, <1>4 DEF ClearedG, LookAgain, OpenCells
  <2>3. OldEdge(v, v, changed[v]) = Edge(objects, v, v)
    BY DEF OldEdge, Edge, Adjacent
  <2>4. Edge(objects, v, v) \in Nat
    BY <1>2, EdgeIs
  <2>5. Repaired(v, v, g, LookAgain(v), g[v]) = LookAhead(objects, g, v)
    BY <2>2, <2>3, <2>4 DEF Repaired
  <2>6. rhs'[c] = LookAhead(objects, g', c)
    BY <1>4, <2>1, <2>2, <2>5 DEF RepairedRhs
  <2>7. Best(LookAhead(objects, g, c), Row(ValuesOf(objects), g, c))
    BY <1>2, <1>3, LookAheadIs
  <2> QED BY <1>1, <2>1, <2>2, <2>6, <2>7
<1>5. CASE c # v
  <2>1. PICK N \in SUBSET Recorded(changed) : Best(rhs[c], Row(Mixed(N, used, objects), g, c))
    BY <1>0, <1>3, <1>5 DEF FollowInv
  <2> DEFINE val == Mixed(N, used, objects)
  <2>2. val \in [Cells -> 0..Unreachable] /\ (val[v] = used[v] \/ val[v] = Value(objects, v))
    BY <1>2 DEF Mixed
  <2>3. Mixed(N \ {v}, used', objects) = [val EXCEPT ![v] = Value(objects, v)]
    BY <1>0 DEF Mixed
  <2> HIDE DEF val
  <2>4. Best(rhs[c], Row(val, g, c))
    BY <2>1 DEF val
  <2>5. \/ Best(rhs'[c], Row([val EXCEPT ![v] = Value(objects, v)], g', c))
        \/ Best(rhs'[c], Row(ValuesOf(objects), g', c))
    BY <1>0, <1>3, <1>5, <2>2, <2>4, NeighbourFollow
  <2>6. N \ {v} \in SUBSET Recorded(changed')
    BY <1>0
  <2> QED BY <1>1, <2>3, <2>5, <2>6
<1> QED BY <1>4, <1>5

LEMMA FollowStep == ASSUME PlannerTypes, PooledInv, UsedInv, FollowInv, PlannerStep PROVE FollowInv'
<1> USE DEF position, estimates, history
<1>1. ASSUME NEW s \in Starts, Acquire(s) PROVE FollowInv'
  <2>1. mode' = "starting"
    BY <1>1 DEF Acquire
  <2> QED BY <2>1 DEF FollowInv, Settled
<1>2. ASSUME NEW o \in Visions, FirstVision(o) PROVE FollowInv'
  <2>1. /\ mode' = "planning" /\ g' = Far /\ rhs' = rhs /\ \A c \in Cells \ {Goal} : rhs[c] = Unreachable
        /\ objects' \in [Cells -> Nat]
    BY <1>2, LookIs DEF FirstVision, PooledInv
  <2>2. ASSUME NEW c \in OpenCells(objects') \ {Goal}
        PROVE  Best(rhs'[c], Row(ValuesOf(objects'), g', c))
    <3>1. c \in Cells /\ rhs'[c] = Unreachable /\ Unreachable \in Nat
      BY <2>1, CostsAssumption DEF OpenCells
    <3>2. \A s \in Cells : Row(ValuesOf(objects'), Far, c)[s] = Unreachable
      <4>1. \A s \in Cells : OldEdge(c, s, ValuesOf(objects')[s]) \in Nat
        BY <2>1, <3>1, ValuesType, EdgeType
      <4>2. \A s \in Cells : AddCost(OldEdge(c, s, ValuesOf(objects')[s]), Unreachable) = Unreachable
        BY <4>1, SumOfFar
      <4> QED BY <4>2 DEF Row, Far
    <3> QED BY <2>1, <3>1, <3>2 DEF Best
  <2> QED BY <2>1, <2>2 DEF FollowInv
<1>3. ASSUME NEW o \in Visions, LookAround(o) PROVE FollowInv'
  <2>1. /\ \A c \in Cells : changed'[c] = Unrecorded => Value(objects', c) = Value(objects, c)
        /\ changed' = NoRecord => objects' = objects
    BY <1>3, LookIs DEF LookAround
  <2>2. /\ UNCHANGED <<g, rhs, used, misled>> /\ used = ValuesOf(objects)
        /\ ~misled => \A c \in OpenCells(objects) \ {Goal} : Best(rhs[c], Row(ValuesOf(objects), g, c))
    BY <1>3 DEF LookAround, UsedInv, FollowInv, Settled
  <2>3. CASE changed' = NoRecord
    <3>1. mode' # "repairing" /\ objects' = objects
      BY <1>3, <2>1, <2>3 DEF LookAround
    <3> QED BY <2>2, <3>1 DEF FollowInv
  <2>4. CASE changed' # NoRecord
    <3>1. mode' = "repairing" /\ mode' \notin Settled
      BY <1>3, <2>4 DEF LookAround, Settled
    <3>2. Mixed(Recorded(changed'), used', objects') = ValuesOf(objects)
      BY <2>1, <2>2 DEF Mixed, ValuesOf, Recorded
    <3>3. ASSUME NEW c \in OpenCells(objects') \ ({Goal} \cup Recorded(changed'))
          PROVE  c \in OpenCells(objects) \ {Goal}
      BY <2>1 DEF OpenCells, Recorded
    <3> QED BY <2>2, <3>1, <3>2, <3>3 DEF FollowInv
  <2> QED BY <2>3, <2>4
<1>4. ASSUME NEW u \in Cells, Expand(u) PROVE FollowInv'
  <2>1. UNCHANGED <<mode, objects, misled>> /\ mode # "repairing"
    BY <1>4 DEF Expand, Planning
  <2>2. ASSUME mode \in Settled, ~misled, NEW c \in OpenCells(objects) \ {Goal}
        PROVE  Best(rhs'[c], Row(ValuesOf(objects), g', c))
    <3>1. Best(rhs[c], Row(ValuesOf(objects), g, c))
      BY <2>2 DEF FollowInv
    <3>2. CASE Refresh(u)
      BY <3>1, <3>2 DEF Refresh
    <3> QED BY <1>4, <2>2, <3>1, <3>2, LowerFollow, RaiseFollow DEF Expand
  <2> QED BY <2>1, <2>2 DEF FollowInv
<1>5. ASSUME NEW v \in Cells, ApplyChange(v) PROVE FollowInv'
  <2>1. mode' = "repairing" /\ objects' = objects
    BY <1>5 DEF ApplyChange
  <2>2. mode' \notin Settled
    BY <2>1 DEF Settled
  <2> QED BY <1>5, <2>1, <2>2, ApplyFollow DEF FollowInv
<1>6. ASSUME GoOn PROVE FollowInv'
  <2>1. mode' # "repairing" /\ UNCHANGED <<objects, used, changed, g, rhs, misled>>
    BY <1>6 DEF GoOn, Onwards
  <2>2. CASE mode = "repairing"
    <3>1. Recorded(changed) = {}
      BY <1>6, <2>2 DEF GoOn, Recorded, NoRecord
    <3>2. Mixed({}, used, objects) = ValuesOf(objects)
      BY DEF Mixed, ValuesOf
    <3>3. ~misled => \A c \in OpenCells(objects) \ {Goal} : Best(rhs[c], Row(ValuesOf(objects), g, c))
      BY <2>2, <3>1, <3>2 DEF FollowInv
    <3> QED BY <2>1, <3>3 DEF FollowInv
  <2>3. CASE mode # "repairing"
    <3>1. mode' \in Settled => mode \in Settled
      BY <1>6, <2>3 DEF GoOn, Onwards, Settled
    <3> QED BY <2>1, <3>1 DEF FollowInv
  <2> QED BY <2>2, <2>3
<1>7. ASSUME Release PROVE FollowInv'
  <2>1. mode' = "pooled"
    BY <1>7 DEF Release
  <2> QED BY <2>1 DEF FollowInv, Settled
<1> QED BY <1>1, <1>2, <1>3, <1>4, <1>5, <1>6, <1>7 DEF PlannerStep

-----------------------------------------------------------------------------
(* The theorems about the estimates.                                        *)

LEMMA InvInit == ASSUME Init PROVE PlannerInv
<1>1. PooledInv
  BY DEF Init, PooledInv
<1>2. QueueInv
  BY DEF Init, QueueInv, Far, EmptyQueue, Standing
<1>3. UsedInv /\ FollowInv
  BY DEF Init, UsedInv, FollowInv, Settled
<1> QED BY <1>1, <1>2, <1>3, InitTypes DEF PlannerInv

LEMMA InvUnchanged == ASSUME PlannerInv, UNCHANGED vars PROVE PlannerInv'
  BY DEF PlannerInv, PlannerTypes, PooledInv, QueueInv, UsedInv, FollowInv, vars, position, estimates, history

(* On every map, with every portal: the types, the pooled planner that is   *)
(* as new, the queue and the look-aheads, in every state of every run.      *)
THEOREM Invariance == Spec => []PlannerInv
<1>1. Init => PlannerInv
  BY InvInit
<1>2. PlannerInv /\ [Next]_vars => PlannerInv'
  <2>1. ASSUME PlannerInv, Next PROVE PlannerInv'
    BY <2>1, NextIs, TypesStep, PooledStep, QueueStep, UsedStep, FollowStep DEF PlannerInv
  <2> QED BY <2>1, InvUnchanged
<1> QED BY <1>1, <1>2, PTL DEF Spec

(* The estimates, keys and recorded costs of a planner keep their types.    *)
THEOREM TypeCorrect == Spec => []PlannerTypes
<1>1. PlannerInv => PlannerTypes
  BY DEF PlannerInv
<1> QED BY <1>1, Invariance, PTL

(* What is passed over by computeShortestPath was never forgotten, and no   *)
(* repair leaves a look-ahead that the successors do not promise: the queue *)
(* and rhs are current on every map, through any number of visions.         *)
THEOREM EstimatesStayCurrent == Spec => []EstimatesAreCurrent
<1>1. PlannerInv => QueueIsCurrent
  <2> SUFFICES ASSUME PlannerInv PROVE QueueIsCurrent
    OBVIOUS
  <2>1. \A c \in Cells : queue[c] # Unqueued <=> g[c] # rhs[c]
    BY DEF PlannerInv, QueueInv
  <2>2. ASSUME Planning, NEW c \in Queued PROVE ~Less(Key(c, g[c], rhs[c]), queue[c])
    <3>1. prevPos = start /\ c \in Cells /\ queue[c] # Unqueued
      BY <2>2 DEF PlannerInv, QueueInv, Planning, Standing, Queued
    <3>2. ~Less(KeyFrom(start, km, g[c], rhs[c], c), queue[c])
      BY <3>1 DEF PlannerInv, QueueInv
    <3>3. Key(c, g[c], rhs[c]) = KeyFrom(start, km, g[c], rhs[c], c)
      BY KeyIs
    <3> QED BY <3>2, <3>3
  <2> QED BY <2>1, <2>2 DEF QueueIsCurrent
<1>2. PlannerInv => RhsFollowsSuccessors
  <2> SUFFICES ASSUME PlannerInv, mode \in Settled, ~misled, NEW c \in OpenCells(objects) \ {Goal}
               PROVE  rhs[c] = LookAhead(objects, g, c)
    BY DEF RhsFollowsSuccessors, Settled
  <2>1. /\ objects \in [Cells -> Nat] /\ g \in [Cells -> 0..Unreachable] /\ rhs[c] \in 0..Unreachable
        /\ c \in Cells
    BY DEF PlannerInv, PlannerTypes, OpenCells
  <2>2. Best(rhs[c], Row(ValuesOf(objects), g, c))
    BY DEF PlannerInv, FollowInv
  <2>3. /\ Best(LookAhead(objects, g, c), Row(ValuesOf(objects), g, c))
        /\ LookAhead(objects, g, c) \in 0..Unreachable
    BY <2>1, LookAheadIs
  <2>4. Row(ValuesOf(objects), g, c) \in Rows
    BY <2>1, RowType, ValuesType
  <2> QED BY <2>1, <2>2, <2>3, <2>4, BestIsUnique
<1>3. PlannerInv => EstimatesAreCurrent
  BY <1>1, <1>2 DEF EstimatesAreCurrent
<1> QED BY <1>3, Invariance, PTL

-----------------------------------------------------------------------------
(* What an early end of computeShortestPath leaves right. The queue still   *)
(* holds cells then, but none whose key is less than the start's.           *)

LEMMA FarIs == Unreachable \in Nat \ {0} /\ Unreachable \in 0..Unreachable
  BY CostsAssumption

(* A sum within reach is the sum.                                           *)
LEMMA SumWithin ==
  ASSUME NEW a \in Nat, NEW b \in 0..Unreachable
  PROVE  /\ AddCost(a, b) < Unreachable => AddCost(a, b) = a + b /\ a < Unreachable /\ b < Unreachable
         /\ AddCost(a, b) <= a + b
  BY CostsAssumption DEF AddCost, IsUnreachable

LEMMA HeuristicHere == ASSUME NEW a \in Cells PROVE Heuristic(a, a) = 0
<1>1. Dx(a, a) = 0 /\ Dy(a, a) = 0 /\ Abs(a[3] - a[3]) = 0
  BY CostsAssumption DEF Dx, Dy, Abs
<1>2. Smaller(0, 0) = 0 /\ DiagonalCost(0) = 0
  BY CostsAssumption DEF Smaller, DiagonalCost, IsUnreachable
<1> QED BY <1>1, <1>2 DEF Heuristic

(* A step between neighbours costs no less than the heuristic thinks.       *)
LEMMA StepFair ==
  ASSUME NEW a \in Cells, NEW b \in Cells, Adjacent(a, b), NEW v \in 0..Unreachable, ~IsBlocked(v)
  PROVE  Enter(a, b, v) \in Nat \ {0} /\ Heuristic(a, b) <= Enter(a, b, v)
<1>1. v \in Nat \ {0} /\ v < Unreachable
  BY CostsAssumption DEF IsBlocked, IsUnreachable
<1>2. /\ a[1] \in Int /\ a[2] \in Int /\ a[3] \in Int /\ b[1] \in Int /\ b[2] \in Int /\ b[3] \in Int
      /\ a[1] # b[1] \/ a[2] # b[2]
  <2>1. a = <<a[1], a[2], a[3]>> /\ b = <<b[1], b[2], b[3]>>
    BY CostsAssumption
  <2> QED BY <2>1, CostsAssumption DEF Adjacent
<1>3. /\ Dx(a, b) \in 0..1 /\ Dy(a, b) \in 0..1 /\ Dx(a, b) + Dy(a, b) # 0 /\ Abs(a[3] - b[3]) = 0
  BY <1>2 DEF Adjacent, Dx, Dy, Abs
<1>4. Dx(a, b) < Unreachable /\ Dy(a, b) < Unreachable
  BY PlannerAssumption
<1>5. CASE Dx(a, b) + Dy(a, b) = 2
  <2>1. Dx(a, b) = 1 /\ Dy(a, b) = 1 /\ Smaller(1, 1) = 1
    BY <1>3, <1>5 DEF Smaller
  <2>2. DiagonalCost(1) = 2
    BY <1>4, <2>1, CostsAssumption DEF DiagonalCost, IsUnreachable
  <2>3. Heuristic(a, b) = 2
    BY <1>3, <2>1, <2>2 DEF Heuristic
  <2>4. DiagonalCost(v) \in Nat /\ DiagonalCost(v) >= 2
    BY <1>1, CostsAssumption DEF DiagonalCost, IsUnreachable
  <2> QED BY <1>5, <2>3, <2>4 DEF Enter
<1>6. CASE Dx(a, b) + Dy(a, b) # 2
  <2>1. Dx(a, b) + Dy(a, b) = 1 /\ Smaller(Dx(a, b), Dy(a, b)) = 0
    BY <1>3, <1>6 DEF Smaller
  <2>2. DiagonalCost(0) = 0
    BY CostsAssumption DEF DiagonalCost, IsUnreachable
  <2>3. Heuristic(a, b) = 1
    BY <1>3, <2>1, <2>2 DEF Heuristic
  <2> QED BY <1>1, <1>6, <2>3 DEF Enter
<1> QED BY <1>5, <1>6

LEMMA EdgeFair ==
  ASSUME PortalsFair, NEW objs \in [Cells -> Nat], NEW a \in Cells, NEW b \in Cells,
         Edge(objs, a, b) < Unreachable
  PROVE  Edge(objs, a, b) \in Nat \ {0} /\ Heuristic(a, b) <= Edge(objs, a, b)
<1>1. CASE <<a, b>> \in DOMAIN Portal
  <2>1. Edge(objs, a, b) = Portal[<<a, b>>] /\ Portal[<<a, b>>] \in 1..Unreachable - 1
    BY <1>1, CostsAssumption DEF Edge
  <2> QED BY <1>1, <2>1, CostsAssumption DEF PortalsFair
<1>2. CASE <<a, b>> \notin DOMAIN Portal
  <2>1. Adjacent(a, b) /\ Edge(objs, a, b) = Enter(a, b, Value(objs, b))
    BY <1>2, CostsAssumption DEF Edge
  <2>2. ~IsBlocked(Value(objs, b)) /\ Value(objs, b) \in 0..Unreachable
    BY <2>1, ValueType, CostsAssumption DEF Enter
  <2> QED BY <2>1, <2>2, StepFair
<1> QED BY <1>1, <1>2

(* What a cell has to expect is within its reach only by some successor.    *)
Promised(c) == rhs[c] = Unreachable \/ \E s \in Cells : rhs[c] = AddCost(Edge(objects, c, s), g[s])

(* The key of a cell x at the distance d is less than <<k, n>>; is not more.*)
Ahead(x, d, k, n) == d + Heuristic(start, x) < k \/ (d + Heuristic(start, x) = k /\ d < n)
Within(x, d, k, n) == d + Heuristic(start, x) < k \/ (d + Heuristic(start, x) = k /\ d <= n)

(* What is inconsistent has no key less than <<k, n>>.                      *)
Beyond(k, n) == \A u \in Cells : g[u] # rhs[u] => ~Ahead(u, Smaller(g[u], rhs[u]), k, n)

(* c expects no less than a step to s and g[s].                             *)
Leads(c, s) == /\ Edge(objects, c, s) \in Nat \ {0} /\ Edge(objects, c, s) < Unreachable
               /\ rhs[c] >= Edge(objects, c, s) + g[s]
               /\ Heuristic(c, s) <= Edge(objects, c, s)

LEMMA SomethingLeads ==
  ASSUME PlannerTypes, PortalsFair, NEW c \in Cells, Promised(c), rhs[c] # Unreachable
  PROVE  \E s \in Cells : Leads(c, s)
<1>0. objects \in [Cells -> Nat] /\ rhs[c] \in 0..Unreachable /\ \A s \in Cells : g[s] \in 0..Unreachable
  BY DEF PlannerTypes
<1>1. PICK s \in Cells : rhs[c] = AddCost(Edge(objects, c, s), g[s])
  BY DEF Promised
<1>2. Edge(objects, c, s) \in Nat /\ AddCost(Edge(objects, c, s), g[s]) < Unreachable
  BY <1>0, <1>1, EdgeIs, FarIs
<1>3. AddCost(Edge(objects, c, s), g[s]) = Edge(objects, c, s) + g[s] /\ Edge(objects, c, s) < Unreachable
  BY <1>0, <1>2, SumWithin
<1>4. Edge(objects, c, s) \in Nat \ {0} /\ Heuristic(c, s) <= Edge(objects, c, s)
  BY <1>0, <1>3, EdgeFair
<1> QED BY <1>0, <1>1, <1>3, <1>4 DEF Leads

(* That successor has a lesser key, so that it is consistent if all keys    *)
(* up to that of c were served.                                             *)
LEMMA LedIsSettled ==
  ASSUME PlannerTypes, NEW c \in Cells, NEW s \in Cells, Leads(c, s),
         NEW k \in Int, NEW n \in Int, Beyond(k, n), Within(c, rhs[c], k, n)
  PROVE  g[s] = rhs[s] /\ g[s] < rhs[c] /\ Within(s, g[s], k, n)
<1> DEFINE e == Edge(objects, c, s)
           a == Heuristic(start, c)
           b == Heuristic(c, s)
           h == Heuristic(start, s)
           m == Smaller(g[s], rhs[s])
<1>1. g[s] \in Nat /\ rhs[s] \in Nat /\ rhs[c] \in Nat /\ start \in Cells
  BY CostsAssumption DEF PlannerTypes
<1>2. a \in Int /\ b \in Int /\ h \in Int /\ h <= a + b
  BY <1>1, HeuristicTriangle
<1>3. e \in Nat \ {0} /\ rhs[c] >= e + g[s] /\ b <= e
  BY DEF Leads
<1>4. rhs[c] + a < k \/ (rhs[c] + a = k /\ rhs[c] <= n)
  BY DEF Within
<1>5. m \in Nat /\ m <= g[s]
  BY <1>1 DEF Smaller
<1>6. g[s] # rhs[s] => ~(m + h < k \/ (m + h = k /\ m < n))
  BY DEF Beyond, Ahead
<1> HIDE DEF e, a, b, h, m
<1>7. g[s] < rhs[c] /\ g[s] + h <= rhs[c] + a /\ m + h <= g[s] + h
  <2> DEFINE x == g[s]
             y == rhs[c]
  <2>1. x \in Nat /\ y \in Nat /\ y >= e + x /\ m <= x
    BY <1>1, <1>3, <1>5
  <2> HIDE DEF x, y
  <2>2. x < y
    BY <1>3, <2>1
  <2>3. x + h <= y + a
    BY <1>2, <1>3, <2>1
  <2>4. m + h <= x + h
    BY <1>2, <1>5, <2>1
  <2> QED BY <2>2, <2>3, <2>4 DEF x, y
<1>8. g[s] = rhs[s]
  BY <1>1, <1>2, <1>4, <1>5, <1>6, <1>7
<1>9. g[s] + h < k \/ (g[s] + h = k /\ g[s] <= n)
  BY <1>1, <1>2, <1>4, <1>7
<1> QED BY <1>7, <1>8, <1>9 DEF Within, h

(* Without the goal there is nothing that successors could promise.         *)
LEMMA NothingLeads ==
  ASSUME PlannerTypes, PortalsFair, \A c \in Cells \ {Goal} : Promised(c),
         g[Goal] = Unreachable, rhs[Goal] = Unreachable,
         NEW k \in Int, NEW n \in Int, Beyond(k, n)
  PROVE  \A c \in Cells : Within(c, rhs[c], k, n) => rhs[c] = Unreachable
<1> DEFINE Bad == {c \in Cells : Within(c, rhs[c], k, n) /\ rhs[c] # Unreachable}
           S == {rhs[c] : c \in Bad}
<1> SUFFICES ASSUME Bad # {} PROVE FALSE
  OBVIOUS
<1>1. S \subseteq Nat /\ S # {}
  <2>1. \A c \in Cells : rhs[c] \in Nat
    BY CostsAssumption DEF PlannerTypes
  <2> QED BY <2>1
<1>2. Min(S) \in S /\ \A m \in S : Min(S) <= m
  <2> HIDE DEF S
  <2> QED BY <1>1, LeastOf
<1>3. PICK c \in Bad : \A b \in Bad : rhs[c] <= rhs[b]
  <2> DEFINE m == Min(S)
  <2>1. m \in S /\ \A b \in Bad : m <= rhs[b]
    BY <1>2
  <2> HIDE DEF m
  <2>2. PICK c \in Bad : rhs[c] = m
    BY <2>1
  <2> QED BY <2>1, <2>2
<1>4. PICK s \in Cells : Leads(c, s)
  BY <1>3, SomethingLeads
<1>5. g[s] = rhs[s] /\ g[s] < rhs[c] /\ Within(s, g[s], k, n)
  BY <1>3, <1>4, LedIsSettled
<1>6. rhs[c] \in 0..Unreachable /\ rhs[s] \in 0..Unreachable
  BY <1>3 DEF PlannerTypes
<1>7. s \in Bad
  BY <1>5, <1>6, FarIs
<1> QED BY <1>3, <1>5, <1>6, <1>7, FarIs

-----------------------------------------------------------------------------
(* The distance, step by step.                                              *)

(* A set that holds 0 and all successors of its members has every number.   *)
LEMMA Induction ==
  ASSUME NEW T, T \subseteq Nat, 0 \in T, \A n \in T : n + 1 \in T
  PROVE  Nat \subseteq T
<1> SUFFICES ASSUME Nat \ T # {} PROVE FALSE
  OBVIOUS
<1>1. Min(Nat \ T) \in Nat \ T /\ \A n \in Nat \ T : Min(Nat \ T) <= n
  BY LeastOf
<1> DEFINE m == Min(Nat \ T)
<1> HIDE DEF m
<1>2. m \in Nat \ T /\ \A n \in Nat \ T : m <= n
  BY <1>1 DEF m
<1>3. m - 1 \in T
  BY <1>2
<1> QED BY <1>2, <1>3

(* One step more.                                                           *)
Longer(objs, ds) == [c \in Cells |-> IF c \in OpenCells(objs) \ {Goal} THEN LookAhead(objs, ds, c) ELSE ds[c]]

Nearest == [Far EXCEPT ![Goal] = 0]

(* f holds the distances by paths of up to n steps.                         *)
Unfolds(objs, n, f) ==
  f = [m \in 0..n |-> IF m = 0 THEN Nearest ELSE Longer(objs, f[m - 1])]

LEMMA UnfoldsExists == ASSUME NEW objs PROVE \A n \in Nat : \E f : Unfolds(objs, n, f)
<1> DEFINE T == {n \in Nat : \E f : Unfolds(objs, n, f)}
<1>1. 0 \in T
  <2> DEFINE f == [m \in 0..0 |-> Nearest]
  <2>1. f = [m \in 0..0 |-> IF m = 0 THEN Nearest ELSE Longer(objs, f[m - 1])]
    OBVIOUS
  <2>2. Unfolds(objs, 0, f)
    BY <2>1 DEF Unfolds
  <2> QED BY <2>2
<1>2. ASSUME NEW n \in T PROVE n + 1 \in T
  <2>1. n \in Nat /\ \E f : Unfolds(objs, n, f)
    BY <1>2
  <2>2. PICK f : Unfolds(objs, n, f)
    BY <2>1
  <2>3. \A m \in 0..n : f[m] = IF m = 0 THEN Nearest ELSE Longer(objs, f[m - 1])
    BY <2>2 DEF Unfolds
  <2> DEFINE h == [m \in 0..n + 1 |-> IF m = n + 1 THEN Longer(objs, f[n]) ELSE f[m]]
  <2>4. \A m \in 0..n + 1 : h[m] = IF m = 0 THEN Nearest ELSE Longer(objs, h[m - 1])
    <3> SUFFICES ASSUME NEW m \in 0..n + 1 PROVE h[m] = IF m = 0 THEN Nearest ELSE Longer(objs, h[m - 1])
      OBVIOUS
    <3>1. CASE m = n + 1
      <4>1. h[m] = Longer(objs, f[n]) /\ h[m - 1] = f[n] /\ m # 0
        BY <2>1, <3>1
      <4> QED BY <4>1
    <3>2. CASE m # n + 1 /\ m # 0
      <4>1. m \in 0..n /\ m - 1 \in 0..n + 1 /\ m - 1 # n + 1
        BY <2>1, <3>2
      <4>2. h[m] = f[m] /\ h[m - 1] = f[m - 1] /\ f[m] = Longer(objs, f[m - 1])
        BY <2>3, <3>2, <4>1
      <4> QED BY <3>2, <4>2
    <3>3. CASE m # n + 1 /\ m = 0
      BY <2>1, <2>3, <3>3
    <3> QED BY <3>1, <3>2, <3>3
  <2>5. h = [m \in 0..n + 1 |-> IF m = 0 THEN Nearest ELSE Longer(objs, h[m - 1])]
    <3>1. h = [m \in 0..n + 1 |-> h[m]]
      OBVIOUS
    <3> HIDE DEF h
    <3> QED BY <2>4, <3>1
  <2>6. Unfolds(objs, n + 1, h)
    BY <2>5 DEF Unfolds
  <2> HIDE DEF h
  <2> QED BY <2>1, <2>6
<1> HIDE DEF T
<1>3. Nat \subseteq T
  <2>1. T \subseteq Nat
    BY DEF T
  <2> QED BY <1>1, <1>2, <2>1, Induction
<1> QED BY <1>3 DEF T

(* The recursion has a solution, and its last value is the distance.        *)
LEMMA DistanceIs ==
  ASSUME NEW objs, Goal \in OpenCells(objs)
  PROVE  \E f : /\ f[0] = Nearest
                /\ \A m \in 1..Cardinality(Cells) : f[m] = Longer(objs, f[m - 1])
                /\ Distance(objs) = f[Cardinality(Cells)]
<1> DEFINE N == Cardinality(Cells)
           Body(f) == [n \in 0..N |->
             IF n = 0 THEN Nearest
             ELSE IF [c \in Cells |-> IF c \in OpenCells(objs) \ {Goal}
                                      THEN LookAhead(objs, f[n - 1], c) ELSE f[n - 1][c]] = f[n - 1]
                  THEN f[n - 1]
                  ELSE [c \in Cells |-> IF c \in OpenCells(objs) \ {Goal}
                                        THEN LookAhead(objs, f[n - 1], c) ELSE f[n - 1][c]]]
           d == CHOOSE f : f = Body(f)
<1>1. Distance(objs) = d[N]
  BY DEF Distance, DistanceWithin, Nearest
<1>2. N \in Nat
  BY CostsAssumption, FS_CardinalityType
<1>3. ASSUME NEW ds
      PROVE  [c \in Cells |-> IF c \in OpenCells(objs) \ {Goal} THEN LookAhead(objs, ds, c) ELSE ds[c]] = Longer(objs, ds)
  BY DEF Longer
<1>4. ASSUME NEW f PROVE Body(f) = [m \in 0..N |-> IF m = 0 THEN Nearest ELSE Longer(objs, f[m - 1])]
  BY <1>3
<1> HIDE DEF N, Body
<1>5. \E f : f = Body(f)
  <2>1. PICK f : Unfolds(objs, N, f)
    BY <1>2, UnfoldsExists
  <2>2. f = Body(f)
    BY <1>4, <2>1 DEF Unfolds
  <2> QED BY <2>2
<1>6. d = Body(d)
  BY <1>5
<1> HIDE DEF d
<1>7. d = [m \in 0..N |-> IF m = 0 THEN Nearest ELSE Longer(objs, d[m - 1])]
  BY <1>4, <1>6
<1>8. d[0] = Nearest /\ \A m \in 1..N : d[m] = Longer(objs, d[m - 1])
  BY <1>2, <1>7
<1> QED BY <1>1, <1>8 DEF N

(* The cells that are nearer than c; their number bounds the length of the  *)
(* cheapest path from c.                                                    *)
Nearer(c) == {s \in Cells : g[s] < g[c]}
Rank(c) == Cardinality(Nearer(c))

LEMMA RankIs ==
  ASSUME PlannerTypes, NEW c \in Cells
  PROVE  /\ Rank(c) \in Nat /\ Rank(c) <= Cardinality(Cells)
         /\ \A s \in Nearer(c) : Rank(s) < Rank(c)
<1>1. IsFiniteSet(Cells) /\ Nearer(c) \in SUBSET Cells
  BY CostsAssumption DEF Nearer
<1>2. /\ IsFiniteSet(Nearer(c)) /\ Rank(c) \in Nat /\ Cardinality(Cells) \in Nat
      /\ Rank(c) <= Cardinality(Cells)
  BY <1>1, FS_Subset, FS_CardinalityType DEF Rank
<1>3. ASSUME NEW s \in Nearer(c) PROVE Rank(s) < Rank(c)
  <2>1. Nearer(s) \in SUBSET Nearer(c) /\ Nearer(s) # Nearer(c)
    BY FarIs DEF Nearer, PlannerTypes
  <2>2. /\ Rank(s) \in Nat /\ Rank(s) <= Rank(c)
        /\ Rank(s) # Rank(c)
    BY <1>2, <2>1, FS_Subset, FS_CardinalityType DEF Rank
  <2> QED BY <1>2, <2>2
<1> QED BY <1>2, <1>3

LEMMA LongerType ==
  ASSUME NEW objs \in [Cells -> Nat], NEW ds \in Rows
  PROVE  Longer(objs, ds) \in Rows
<1>1. \A c \in Cells : LookAhead(objs, ds, c) \in 0..Unreachable
  BY LookAheadLeast DEF Rows
<1> QED BY <1>1 DEF Longer, Rows

LEMMA LookAheadGrows ==
  ASSUME NEW objs \in [Cells -> Nat], NEW ds \in Rows, NEW es \in Rows, NEW c \in Cells,
         \A s \in Cells : ds[s] <= es[s]
  PROVE  LookAhead(objs, ds, c) <= LookAhead(objs, es, c)
<1>1. /\ LookAhead(objs, ds, c) \in 0..Unreachable
      /\ \A s \in Cells : LookAhead(objs, ds, c) <= AddCost(Edge(objs, c, s), ds[s])
  BY LookAheadLeast DEF Rows
<1>2. \/ LookAhead(objs, es, c) = Unreachable
      \/ \E s \in Cells : LookAhead(objs, es, c) = AddCost(Edge(objs, c, s), es[s])
  BY LookAheadLeast DEF Rows
<1>3. ASSUME NEW s \in Cells
      PROVE  /\ AddCost(Edge(objs, c, s), ds[s]) <= AddCost(Edge(objs, c, s), es[s])
             /\ AddCost(Edge(objs, c, s), ds[s]) \in Nat /\ AddCost(Edge(objs, c, s), es[s]) \in Nat
  <2>1. Edge(objs, c, s) \in Nat /\ ds[s] \in 0..Unreachable /\ es[s] \in 0..Unreachable
    BY EdgeIs DEF Rows
  <2>2. AddCost(Edge(objs, c, s), ds[s]) \in 0..Unreachable /\ AddCost(Edge(objs, c, s), es[s]) \in 0..Unreachable
    BY <2>1, SumType
  <2>3. AddCost(Edge(objs, c, s), ds[s]) <= AddCost(Edge(objs, c, s), es[s])
    BY <2>1, SumGrows
  <2> QED BY <2>2, <2>3, FarIs
<1> QED BY <1>1, <1>2, <1>3, FarIs

-----------------------------------------------------------------------------
(* No path is shorter than what is consistent, or than what is queued says. *)

(* Every open cell expects no more than its successors promise.             *)
Hopeful == \A c \in OpenCells(objects) \ {Goal} : \A s \in Cells : rhs[c] <= AddCost(Edge(objects, c, s), g[s])

(* A path of the cost d from x is known, or meets a cell that is queued.    *)
Known(x, d) == \/ g[x] <= d
               \/ \E u \in Cells : g[u] # rhs[u] /\ Smaller(g[u], rhs[u]) + Heuristic(x, u) <= d

LEMMA InconsistentKnown ==
  ASSUME PlannerTypes, NEW x \in Cells, NEW d \in Nat, rhs[x] <= d
  PROVE  Known(x, d)
<1>1. CASE g[x] = rhs[x]
  BY <1>1 DEF Known
<1>2. CASE g[x] # rhs[x]
  <2>1. Heuristic(x, x) = 0
    BY HeuristicHere
  <2>2. Smaller(g[x], rhs[x]) \in Nat /\ Smaller(g[x], rhs[x]) <= rhs[x] /\ rhs[x] \in Nat
    BY CostsAssumption DEF PlannerTypes, Smaller
  <2>3. Smaller(g[x], rhs[x]) + Heuristic(x, x) <= d
    BY <2>1, <2>2
  <2> QED BY <1>2, <2>3 DEF Known
<1> QED BY <1>1, <1>2

(* One step more at the front of a known path.                              *)
LEMMA LongerKnown ==
  ASSUME PlannerTypes, PortalsFair, Hopeful, NEW x \in OpenCells(objects) \ {Goal}, NEW s \in Cells,
         NEW d \in 0..Unreachable, Known(s, d), AddCost(Edge(objects, x, s), d) < Unreachable
  PROVE  Known(x, AddCost(Edge(objects, x, s), d))
<1> DEFINE e == Edge(objects, x, s)
<1>0. x \in Cells /\ objects \in [Cells -> Nat] /\ rhs[x] \in 0..Unreachable /\ g[s] \in 0..Unreachable
  BY DEF OpenCells, PlannerTypes
<1>1. e \in Nat /\ AddCost(e, d) = e + d /\ e < Unreachable /\ d < Unreachable
  <2>1. e \in Nat
    BY <1>0, EdgeIs
  <2> HIDE DEF e
  <2>2. AddCost(e, d) < Unreachable
    BY DEF e
  <2> QED BY <2>1, <2>2, SumWithin
<1>2. Heuristic(x, s) <= e
  BY <1>0, <1>1, EdgeFair
<1>3. rhs[x] <= AddCost(e, g[s])
  BY DEF Hopeful
<1> HIDE DEF e
<1>4. CASE g[s] <= d
  <2>1. AddCost(e, g[s]) <= e + g[s] /\ AddCost(e, g[s]) \in 0..Unreachable
    BY <1>0, <1>1, SumWithin, SumType
  <2>2. rhs[x] <= e + d /\ e + d \in Nat
    BY <1>0, <1>1, <1>3, <1>4, <2>1, FarIs
  <2>3. Known(x, e + d)
    BY <1>0, <2>2, InconsistentKnown
  <2> QED BY <1>1, <2>3 DEF e
<1>5. ASSUME NEW u \in Cells, g[u] # rhs[u], Smaller(g[u], rhs[u]) + Heuristic(s, u) <= d
      PROVE  Known(x, e + d)
  <2>1. Smaller(g[u], rhs[u]) \in Nat
    BY CostsAssumption DEF PlannerTypes, Smaller
  <2>2. /\ Heuristic(x, u) \in Int /\ Heuristic(x, s) \in Int /\ Heuristic(s, u) \in Int
        /\ Heuristic(x, u) <= Heuristic(x, s) + Heuristic(s, u)
    BY <1>0, HeuristicTriangle
  <2>3. Smaller(g[u], rhs[u]) + Heuristic(x, u) <= e + d
    BY <1>1, <1>2, <1>5, <2>1, <2>2
  <2> QED BY <1>5, <2>3 DEF Known
<1>6. CASE ~(g[s] <= d)
  <2>1. PICK u \in Cells : g[u] # rhs[u] /\ Smaller(g[u], rhs[u]) + Heuristic(s, u) <= d
    BY <1>6 DEF Known
  <2>2. Known(x, e + d)
    BY <1>5, <2>1
  <2> QED BY <1>1, <2>2 DEF e
<1> QED BY <1>4, <1>6

LEMMA NoShorterPath ==
  ASSUME PlannerTypes, PortalsFair, Hopeful, rhs[Goal] = 0,
         NEW N \in Nat, NEW f, f[0] = Nearest, \A m \in 1..N : f[m] = Longer(objects, f[m - 1])
  PROVE  \A n \in 0..N : f[n] \in Rows /\ \A x \in Cells : Known(x, f[n][x])
<1> DEFINE Good(ds) == ds \in Rows /\ \A x \in Cells : Known(x, ds[x])
           T == {n \in Nat : n <= N => Good(f[n])}
<1>0. objects \in [Cells -> Nat] /\ \A x \in Cells : g[x] \in 0..Unreachable
  BY DEF PlannerTypes
<1>f. ASSUME NEW x \in Cells PROVE Known(x, Unreachable)
  BY <1>0, FarIs DEF Known
<1>1. Good(Nearest)
  <2>1. Nearest \in Rows
    BY FarIs, PlannerAssumption DEF Nearest, Far, Rows
  <2>2. ASSUME NEW x \in Cells PROVE Known(x, Nearest[x])
    <3>1. CASE x = Goal
      <4>1. Nearest[x] = 0
        BY <3>1, PlannerAssumption DEF Nearest, Far
      <4> QED BY <3>1, <4>1, InconsistentKnown
    <3>2. CASE x # Goal
      <4>1. Nearest[x] = Unreachable
        BY <3>2 DEF Nearest, Far
      <4> QED BY <1>f, <4>1
    <3> QED BY <3>1, <3>2
  <2> QED BY <2>1, <2>2
<1>2. ASSUME NEW ds, Good(ds) PROVE Good(Longer(objects, ds))
  <2>1. Longer(objects, ds) \in Rows
    BY <1>0, <1>2, LongerType
  <2>2. ASSUME NEW x \in Cells PROVE Known(x, Longer(objects, ds)[x])
    <3>1. CASE x \notin OpenCells(objects) \ {Goal}
      BY <1>2, <3>1 DEF Longer
    <3>2. CASE x \in OpenCells(objects) \ {Goal}
      <4>1. Longer(objects, ds)[x] = LookAhead(objects, ds, x)
        BY <3>2 DEF Longer
      <4>2. /\ LookAhead(objects, ds, x) \in 0..Unreachable
            /\ \/ LookAhead(objects, ds, x) = Unreachable
               \/ \E s \in Cells : LookAhead(objects, ds, x) = AddCost(Edge(objects, x, s), ds[s])
        BY <1>0, <1>2, LookAheadLeast DEF Rows
      <4>3. CASE LookAhead(objects, ds, x) = Unreachable
        BY <1>f, <4>1, <4>3
      <4>4. CASE LookAhead(objects, ds, x) # Unreachable
        <5>1. PICK s \in Cells : LookAhead(objects, ds, x) = AddCost(Edge(objects, x, s), ds[s])
          BY <4>2, <4>4
        <5>2. Known(s, ds[s]) /\ ds[s] \in 0..Unreachable
          BY <1>2 DEF Rows
        <5>3. AddCost(Edge(objects, x, s), ds[s]) < Unreachable
          BY <4>2, <4>4, <5>1, FarIs
        <5>4. Known(x, AddCost(Edge(objects, x, s), ds[s]))
          BY <3>2, <5>2, <5>3, LongerKnown
        <5> QED BY <4>1, <5>1, <5>4
      <4> QED BY <4>3, <4>4
    <3> QED BY <3>1, <3>2
  <2> QED BY <2>1, <2>2
<1> HIDE DEF Good
<1>3. 0 \in T
  BY <1>1
<1>4. ASSUME NEW n \in T PROVE n + 1 \in T
  <2>1. CASE n + 1 <= N
    <3>1. Good(f[n]) /\ f[n + 1] = Longer(objects, f[n])
      BY <1>4, <2>1
    <3> QED BY <1>2, <3>1
  <2>2. CASE ~(n + 1 <= N)
    BY <2>2
  <2> QED BY <2>1, <2>2
<1>5. Nat \subseteq T
  <2>1. T \subseteq Nat
    OBVIOUS
  <2> HIDE DEF T
  <2> QED BY <1>3, <1>4, <2>1, Induction
<1>6. \A n \in 0..N : Good(f[n])
  BY <1>5
<1> QED BY <1>6 DEF Good

-----------------------------------------------------------------------------
(* What is consistent with a key that was served has a path of its cost.    *)

(* The path does not lead through a cell that is blocked, whose only way    *)
(* out is a portal back.                                                    *)
LEMMA LedIsOpen ==
  ASSUME PlannerTypes, PortalsFair, PortalsReturn, NEW c \in Cells, NEW s \in Cells \ {Goal}, Leads(c, s),
         Promised(s), g[c] = rhs[c], g[s] = rhs[s]
  PROVE  s \in OpenCells(objects)
<1> SUFFICES ASSUME s \notin OpenCells(objects) PROVE FALSE
  OBVIOUS
<1>0. /\ \A x \in Cells : g[x] \in Nat /\ rhs[x] \in 0..Unreachable
      /\ IsBlocked(Value(objects, s)) /\ s \in Cells
  BY CostsAssumption DEF PlannerTypes, OpenCells
<1>1. /\ Edge(objects, c, s) \in Nat \ {0} /\ Edge(objects, c, s) < Unreachable
      /\ rhs[c] >= Edge(objects, c, s) + g[s]
  BY DEF Leads
<1>2. <<c, s>> \in DOMAIN Portal
  BY <1>0, <1>1 DEF Edge, Enter
<1>3. rhs[s] # Unreachable
  BY <1>0, <1>1, FarIs
<1>4. PICK t \in Cells : Leads(s, t)
  BY <1>0, <1>3, SomethingLeads
<1>5. /\ Edge(objects, s, t) \in Nat \ {0} /\ Edge(objects, s, t) < Unreachable
      /\ rhs[s] >= Edge(objects, s, t) + g[t]
  BY <1>4 DEF Leads
<1>6. <<s, t>> \in DOMAIN Portal
  BY <1>0, <1>5 DEF Edge
<1>7. t = c
  BY <1>2, <1>6 DEF PortalsReturn
<1> HIDE <1>4
<1> QED BY <1>0, <1>1, <1>5, <1>7

LEMMA PathIsThere ==
  ASSUME PlannerTypes, PortalsFair, PortalsReturn, \A c \in Cells \ {Goal} : Promised(c),
         NEW k \in Int, NEW l \in Int, Beyond(k, l),
         NEW N \in Nat, NEW f, f[0] = Nearest, \A m \in 1..N : f[m] = Longer(objects, f[m - 1]),
         \A n \in 0..N : f[n] \in Rows
  PROVE  \A n \in 0..N : \A c \in OpenCells(objects) \cup {Goal} :
           g[c] = rhs[c] /\ Within(c, g[c], k, l) /\ Rank(c) <= n => f[n][c] <= g[c]
<1> DEFINE Reached(n) == \A c \in OpenCells(objects) \cup {Goal} :
                           g[c] = rhs[c] /\ Within(c, g[c], k, l) /\ Rank(c) <= n => f[n][c] <= g[c]
           Zero(n) == f[n][Goal] = 0
           T == {n \in Nat : n <= N => Reached(n) /\ Zero(n)}
<1>0. /\ OpenCells(objects) \cup {Goal} \subseteq Cells /\ objects \in [Cells -> Nat]
      /\ \A c \in Cells : g[c] \in 0..Unreachable /\ rhs[c] \in 0..Unreachable /\ Rank(c) \in Nat
  <2>1. \A c \in Cells : Rank(c) \in Nat
    BY RankIs
  <2> QED BY <2>1, PlannerAssumption DEF PlannerTypes, OpenCells
<1>1. ASSUME NEW c \in OpenCells(objects) \ {Goal}, rhs[c] # Unreachable,
             g[c] = rhs[c], Within(c, g[c], k, l)
      PROVE  \E s \in OpenCells(objects) \cup {Goal} :
               /\ g[s] = rhs[s] /\ Within(s, g[s], k, l) /\ s \in Nearer(c)
               /\ AddCost(Edge(objects, c, s), g[s]) <= g[c]
  <2>1. c \in Cells /\ Promised(c)
    BY <1>0
  <2>2. PICK s \in Cells : Leads(c, s)
    BY <1>1, <2>1, SomethingLeads
  <2>3. g[s] = rhs[s] /\ g[s] < rhs[c] /\ Within(s, g[s], k, l)
    BY <1>1, <2>1, <2>2, LedIsSettled
  <2>4. s \in OpenCells(objects) \cup {Goal}
    BY <1>1, <2>1, <2>2, <2>3, LedIsOpen
  <2>5. AddCost(Edge(objects, c, s), g[s]) <= g[c]
    <3>1. /\ Edge(objects, c, s) \in Nat /\ Edge(objects, c, s) < Unreachable
          /\ rhs[c] >= Edge(objects, c, s) + g[s] /\ rhs[c] < Unreachable
      BY <1>0, <1>1, <2>1, <2>2, FarIs DEF Leads
    <3> QED BY <1>0, <1>1, <2>1, <3>1, FarIs DEF AddCost, IsUnreachable
  <2> QED BY <1>1, <2>3, <2>4, <2>5 DEF Nearer
<1>2. ASSUME NEW n \in 0..N, NEW c \in OpenCells(objects) \cup {Goal}, g[c] = rhs[c], Within(c, g[c], k, l),
             Rank(c) <= n, n # 0 => Reached(n - 1), Zero(n)
      PROVE  f[n][c] <= g[c]
  <2>0. c \in Cells /\ f[n] \in Rows
    BY <1>0
  <2>1. CASE c = Goal
    BY <1>0, <1>2, <2>0, <2>1
  <2>2. CASE g[c] = Unreachable
    BY <2>0, <2>2, FarIs DEF Rows
  <2>3. CASE c # Goal /\ g[c] # Unreachable
    <3>1. PICK s \in OpenCells(objects) \cup {Goal} :
             /\ g[s] = rhs[s] /\ Within(s, g[s], k, l) /\ s \in Nearer(c)
             /\ AddCost(Edge(objects, c, s), g[s]) <= g[c]
      BY <1>1, <1>2, <2>3
    <3>2. Rank(s) < Rank(c) /\ s \in Cells
      BY <1>0, <2>0, <3>1, RankIs
    <3>3. n \in 1..N /\ n - 1 \in 0..N /\ Rank(s) <= n - 1
      BY <1>0, <1>2, <2>0, <3>2
    <3>4. f[n - 1][s] <= g[s] /\ f[n - 1] \in Rows
      BY <1>2, <3>1, <3>2, <3>3
    <3>5. f[n][c] = LookAhead(objects, f[n - 1], c)
      <4>1. f[n] = Longer(objects, f[n - 1])
        BY <3>3
      <4> QED BY <1>0, <1>2, <2>0, <2>3, <4>1 DEF Longer
    <3>6. /\ LookAhead(objects, f[n - 1], c) <= AddCost(Edge(objects, c, s), f[n - 1][s])
          /\ LookAhead(objects, f[n - 1], c) \in 0..Unreachable
      BY <1>0, <2>0, <3>2, <3>4, LookAheadLeast DEF Rows
    <3>7. /\ AddCost(Edge(objects, c, s), f[n - 1][s]) <= AddCost(Edge(objects, c, s), g[s])
          /\ AddCost(Edge(objects, c, s), f[n - 1][s]) \in 0..Unreachable
      <4>1. Edge(objects, c, s) \in Nat /\ f[n - 1][s] \in 0..Unreachable /\ g[s] \in 0..Unreachable
        BY <1>0, <2>0, <3>2, <3>4, EdgeIs DEF Rows
      <4>2. AddCost(Edge(objects, c, s), f[n - 1][s]) \in 0..Unreachable
        BY <4>1, SumType
      <4>3. AddCost(Edge(objects, c, s), f[n - 1][s]) <= AddCost(Edge(objects, c, s), g[s])
        BY <3>4, <4>1, SumGrows
      <4> QED BY <4>2, <4>3
    <3>8. AddCost(Edge(objects, c, s), g[s]) \in 0..Unreachable
      BY <1>0, <2>0, <3>2, EdgeIs, SumType
    <3> QED BY <1>0, <2>0, <3>1, <3>5, <3>6, <3>7, <3>8, FarIs
  <2> QED BY <2>1, <2>2, <2>3
<1>3. 0 \in T
  <2>1. 0 \in 0..N
    OBVIOUS
  <2>2. Zero(0)
    BY PlannerAssumption DEF Nearest, Far
  <2>3. Reached(0)
    BY <1>2, <2>1, <2>2
  <2> QED BY <2>2, <2>3
<1>4. ASSUME NEW n \in T PROVE n + 1 \in T
  <2>1. CASE n + 1 <= N
    <3>1. n + 1 \in 0..N /\ n + 1 \in 1..N /\ Reached((n + 1) - 1) /\ Zero(n)
      BY <1>4, <2>1
    <3>2. f[n + 1] = Longer(objects, f[n])
      BY <3>1
    <3>3. Zero(n + 1)
      BY <3>1, <3>2, PlannerAssumption DEF Longer
    <3> QED BY <1>2, <3>1, <3>3
  <2>2. CASE ~(n + 1 <= N)
    BY <2>2
  <2> QED BY <2>1, <2>2
<1>5. Nat \subseteq T
  <2>1. T \subseteq Nat
    OBVIOUS
  <2> HIDE DEF T
  <2> QED BY <1>3, <1>4, <2>1, Induction
<1>6. \A n \in 0..N : Reached(n)
  BY <1>5
<1> QED BY <1>6

-----------------------------------------------------------------------------
(* What holds when a computation of the shortest path has ended.            *)

Served == g[start] = rhs[start] /\ Beyond(g[start], g[start])

(* A cell from which the way to the start costs no more than it saves is    *)
(* not farther than its distance.                                           *)
LEMMA ServedIsBelow ==
  ASSUME PlannerTypes, PortalsFair, Hopeful, rhs[Goal] = 0, Goal \in OpenCells(objects), Served,
         NEW c \in Cells, g[c] + Heuristic(start, c) <= g[start]
  PROVE  Distance(objects)[c] \in 0..Unreachable /\ g[c] <= Distance(objects)[c]
<1> DEFINE N == Cardinality(Cells)
           d == Distance(objects)[c]
<1>1. PICK f : /\ f[0] = Nearest /\ \A m \in 1..N : f[m] = Longer(objects, f[m - 1])
               /\ Distance(objects) = f[N]
  BY DistanceIs
<1>2. N \in Nat /\ N \in 0..N
  BY CostsAssumption, FS_CardinalityType
<1> HIDE DEF N
<1>3. d \in 0..Unreachable /\ Known(c, d)
  <2>1. \A n \in 0..N : f[n] \in Rows /\ \A x \in Cells : Known(x, f[n][x])
    BY <1>1, <1>2, NoShorterPath
  <2> QED BY <1>1, <1>2, <2>1 DEF Rows
<1> HIDE DEF d
<1>4. start \in Cells /\ g[start] \in Nat /\ g[c] \in Nat /\ d \in Nat
  BY <1>3, CostsAssumption DEF PlannerTypes
<1>5. ASSUME NEW u \in Cells, g[u] # rhs[u], Smaller(g[u], rhs[u]) + Heuristic(c, u) <= d
      PROVE  g[c] <= d
  <2>1. Smaller(g[u], rhs[u]) \in Nat
    BY CostsAssumption DEF PlannerTypes, Smaller
  <2>2. /\ Heuristic(start, u) \in Int /\ Heuristic(start, c) \in Int /\ Heuristic(c, u) \in Int
        /\ Heuristic(start, u) <= Heuristic(start, c) + Heuristic(c, u)
    BY <1>4, HeuristicTriangle
  <2>3. ~Ahead(u, Smaller(g[u], rhs[u]), g[start], g[start])
    BY <1>5 DEF Served, Beyond
  <2>4. Smaller(g[u], rhs[u]) + Heuristic(start, u) >= g[start]
    BY <1>4, <2>1, <2>2, <2>3 DEF Ahead
  <2> QED BY <1>4, <1>5, <2>1, <2>2, <2>4
<1>6. g[c] <= d
  BY <1>3, <1>5 DEF Known
<1> QED BY <1>3, <1>6 DEF d

LEMMA ServedIsDistance ==
  ASSUME PlannerTypes, PortalsFair, PortalsReturn, Hopeful, \A c \in Cells \ {Goal} : Promised(c),
         rhs[Goal] = 0, Goal \in OpenCells(objects), Served,
         NEW c \in OpenCells(objects) \cup {Goal}, g[c] = rhs[c], Within(c, g[c], g[start], g[start])
  PROVE  g[c] = Distance(objects)[c]
<1> DEFINE N == Cardinality(Cells)
<1>0. c \in Cells /\ start \in Cells /\ g[c] \in Nat /\ g[start] \in Nat
  BY CostsAssumption, PlannerAssumption DEF PlannerTypes, OpenCells
<1>1. PICK f : /\ f[0] = Nearest /\ \A m \in 1..N : f[m] = Longer(objects, f[m - 1])
               /\ Distance(objects) = f[N]
  BY DistanceIs
<1>2. N \in Nat /\ N \in 0..N /\ Rank(c) <= N
  BY <1>0, CostsAssumption, FS_CardinalityType, RankIs
<1> HIDE DEF N
<1>3. \A n \in 0..N : f[n] \in Rows
  BY <1>1, <1>2, NoShorterPath
<1>4. f[N][c] <= g[c]
  <2>1. Beyond(g[start], g[start]) /\ g[start] \in Int
    BY <1>0 DEF Served
  <2>2. \A n \in 0..N : \A x \in OpenCells(objects) \cup {Goal} :
           g[x] = rhs[x] /\ Within(x, g[x], g[start], g[start]) /\ Rank(x) <= n => f[n][x] <= g[x]
    BY <1>1, <1>2, <1>3, <2>1, PathIsThere
  <2> QED BY <1>2, <2>2
<1>5. Heuristic(start, c) \in Int
  BY <1>0, HeuristicTriangle
<1>6. g[c] + Heuristic(start, c) <= g[start]
  BY <1>0, <1>5 DEF Within
<1>7. Distance(objects)[c] \in 0..Unreachable /\ g[c] <= Distance(objects)[c]
  BY <1>0, <1>6, ServedIsBelow
<1> QED BY <1>0, <1>1, <1>4, <1>7, FarIs

LEMMA StartIsWithin ==
  ASSUME PlannerTypes
  PROVE  Within(start, g[start], g[start], g[start]) /\ g[start] + Heuristic(start, start) <= g[start]
<1>1. Heuristic(start, start) = 0 /\ g[start] \in Nat
  BY HeuristicHere, CostsAssumption DEF PlannerTypes
<1> QED BY <1>1 DEF Within

(* A step to where the look-ahead comes from is one of a shortest path.     *)
LEMMA StepIsOptimal ==
  ASSUME PlannerTypes, PortalsFair, PortalsReturn, Hopeful, \A c \in Cells \ {Goal} : Promised(c),
         rhs[Goal] = 0, Goal \in OpenCells(objects), Served,
         start \in OpenCells(objects), NEW s \in Cells, Leads(start, s),
         rhs[start] = AddCost(Edge(objects, start, s), g[s])
  PROVE  Distance(objects)[start] = AddCost(Edge(objects, start, s), Distance(objects)[s])
<1>1. g[start] = Distance(objects)[start]
  BY StartIsWithin, ServedIsDistance DEF Served
<1>2. start \in Cells /\ g[start] = rhs[start] /\ g[start] \in Int /\ Beyond(g[start], g[start])
  BY CostsAssumption DEF PlannerTypes, Served
<1>3. g[s] = rhs[s] /\ Within(s, g[s], g[start], g[start])
  BY <1>2, StartIsWithin, LedIsSettled
<1>4. s \in OpenCells(objects) \cup {Goal}
  BY <1>2, <1>3, LedIsOpen
<1>5. g[s] = Distance(objects)[s]
  BY <1>3, <1>4, ServedIsDistance
<1> QED BY <1>1, <1>2, <1>5

(* If nothing leads on from the start, no path does.                        *)
LEMMA NothingIsThere ==
  ASSUME PlannerTypes, PortalsFair, Hopeful, Goal \in OpenCells(objects) => rhs[Goal] = 0, Served,
         start # Goal,
         start \in OpenCells(objects) => IsUnreachable(rhs[start])
  PROVE  IsUnreachable(Distance(objects)[start])
<1>0. start \in Cells /\ rhs[start] \in Nat /\ g[start] = rhs[start]
  BY CostsAssumption DEF PlannerTypes, Served
<1>1. CASE Goal \notin OpenCells(objects)
  BY <1>0, <1>1, FarIs DEF Distance, Far, IsUnreachable
<1>2. CASE Goal \in OpenCells(objects) /\ start \in OpenCells(objects)
  <2>1. Distance(objects)[start] \in 0..Unreachable /\ g[start] <= Distance(objects)[start]
    BY <1>0, <1>2, StartIsWithin, ServedIsBelow
  <2> QED BY <1>0, <1>2, <2>1, FarIs DEF IsUnreachable
<1>3. CASE Goal \in OpenCells(objects) /\ start \notin OpenCells(objects)
  <2> DEFINE N == Cardinality(Cells)
  <2>1. PICK f : /\ f[0] = Nearest /\ \A m \in 1..N : f[m] = Longer(objects, f[m - 1])
                 /\ Distance(objects) = f[N]
    BY <1>3, DistanceIs
  <2>2. N \in Nat
    BY CostsAssumption, FS_CardinalityType
  <2> HIDE DEF N
  <2> DEFINE T == {n \in Nat : n <= N => f[n][start] = Unreachable}
  <2>3. 0 \in T
    BY <1>0, <2>1 DEF Nearest, Far
  <2>4. ASSUME NEW n \in T PROVE n + 1 \in T
    <3>1. CASE n + 1 <= N
      <4>1. f[n + 1] = Longer(objects, f[n]) /\ f[n][start] = Unreachable
        <5>1. n + 1 \in 1..N /\ (n + 1) - 1 = n /\ n <= N
          BY <2>2, <2>4, <3>1
        <5>2. f[n + 1] = Longer(objects, f[(n + 1) - 1])
          BY <2>1, <5>1
        <5> QED BY <2>4, <5>1, <5>2
      <4> QED BY <1>0, <1>3, <2>4, <4>1 DEF Longer
    <3>2. CASE ~(n + 1 <= N)
      BY <2>4, <3>2
    <3> QED BY <3>1, <3>2
  <2>5. Nat \subseteq T
    <3>1. T \subseteq Nat
      OBVIOUS
    <3> HIDE DEF T
    <3> QED BY <2>3, <2>4, <3>1, Induction
  <2>6. f[N][start] = Unreachable
    BY <2>2, <2>5
  <2> QED BY <2>1, <2>6, FarIs DEF IsUnreachable
<1> QED BY <1>1, <1>2, <1>3

-----------------------------------------------------------------------------
(* When a computation ends, and while the agent walks.                      *)

LEMMA KeysOrder ==
  ASSUME NEW k \in Int \X Int, NEW l \in Int \X Int, NEW q \in Int \X Int
  PROVE  /\ ~Less(k, k)
         /\ ~Less(k, l) /\ ~Less(l, q) => ~Less(k, q)
         /\ ~Less(k, l) /\ Less(q, l) => ~Less(k, q)
  BY DEF Less

(* A queue that is not empty has a top.                                     *)
LEMMA TopExists == ASSUME PlannerTypes, Queued # {} PROVE \E t \in Cells : Top(t)
<1> DEFINE Least(t, S) == t \in S /\ \A c \in S : ~Less(queue[c], queue[t])
           T == {n \in Nat : \A S \in SUBSET Queued : S # {} /\ Cardinality(S) = n => \E t \in S : Least(t, S)}
<1>0. IsFiniteSet(Queued) /\ \A c \in Queued : queue[c] \in Int \X Int
  <2>1. Queued \subseteq Cells /\ \A c \in Queued : queue[c] \in Int \X Int
    BY DEF PlannerTypes, Queued
  <2> QED BY <2>1, CostsAssumption, FS_Subset
<1>1. 0 \in T
  <2>1. \A S \in SUBSET Queued : Cardinality(S) = 0 => S = {}
    BY <1>0, FS_Subset, FS_EmptySet
  <2> QED BY <2>1
<1>2. ASSUME NEW n \in T PROVE n + 1 \in T
  <2>1. ASSUME NEW S \in SUBSET Queued, S # {}, Cardinality(S) = n + 1 PROVE \E t \in S : Least(t, S)
    <3>1. PICK x \in S : TRUE
      BY <2>1
    <3> DEFINE R == S \ {x}
    <3>2. R \in SUBSET Queued /\ Cardinality(R) = n
      <4>1. IsFiniteSet(S)
        BY <1>0, FS_Subset
      <4>2. Cardinality(S \ {x}) = Cardinality(S) - 1
        BY <4>1, FS_RemoveElement
      <4> QED BY <1>2, <2>1, <4>2
    <3>3. S = R \cup {x} /\ x \in Queued
      BY <3>1
    <3> HIDE DEF R
    <3>4. CASE R = {}
      <4>1. Least(x, S)
        BY <1>0, <3>3, <3>4, KeysOrder
      <4> QED BY <4>1
    <3>5. CASE R # {}
      <4>1. PICK t \in R : Least(t, R)
        BY <1>2, <3>2, <3>5
      <4>2. t \in Queued /\ queue[t] \in Int \X Int /\ queue[x] \in Int \X Int
        BY <1>0, <3>2, <3>3
      <4>3. CASE Less(queue[x], queue[t])
        <5>1. \A c \in R : ~Less(queue[c], queue[x])
          BY <1>0, <3>2, <4>1, <4>2, <4>3, KeysOrder
        <5>2. Least(x, S)
          BY <3>3, <4>2, <5>1, KeysOrder
        <5> QED BY <5>2
      <4>4. CASE ~Less(queue[x], queue[t])
        <5>1. Least(t, S)
          BY <3>3, <4>1, <4>4
        <5> QED BY <5>1
      <4> QED BY <4>3, <4>4
    <3> QED BY <3>4, <3>5
  <2> HIDE DEF Least
  <2> QED BY <2>1
<1>3. Nat \subseteq T
  <2>1. T \subseteq Nat
    OBVIOUS
  <2> HIDE DEF T
  <2> QED BY <1>1, <1>2, <2>1, Induction
<1>4. PICK t \in Queued : Least(t, Queued)
  <2>1. Cardinality(Queued) \in T
    BY <1>0, <1>3, FS_CardinalityType
  <2> HIDE DEF Least
  <2> QED BY <2>1
<1>5. t \in Cells
  BY DEF Queued
<1> QED BY <1>4, <1>5 DEF Top

LEMMA DoneIsServed ==
  ASSUME PlannerTypes, QueueInv, prevPos = start, ~\E u \in Cells : Top(u) /\ Unfinished(u)
  PROVE  Served
<1> DEFINE ks == Key(start, g[start], rhs[start])
<1>0. /\ start \in Cells /\ km \in Int
      /\ \A c \in Cells : g[c] \in 0..Unreachable /\ rhs[c] \in 0..Unreachable
      /\ \A c \in Cells : queue[c] # Unqueued <=> g[c] # rhs[c]
  BY DEF PlannerTypes, QueueInv
<1>1. CASE Queued = {}
  <2>1. \A c \in Cells : g[c] = rhs[c]
    BY <1>0, <1>1 DEF Queued
  <2> QED BY <1>0, <2>1 DEF Served, Beyond
<1>2. CASE Queued # {}
  <2>1. PICK t \in Cells : Top(t)
    BY <1>2, TopExists
  <2>2. g[start] = rhs[start] /\ ~Less(queue[t], ks)
    BY <2>1 DEF Unfinished
  <2>3. ASSUME NEW u \in Cells, g[u] # rhs[u] PROVE ~Ahead(u, Smaller(g[u], rhs[u]), g[start], g[start])
    <3> DEFINE ku == KeyFrom(start, km, g[u], rhs[u], u)
    <3>1. u \in Queued /\ queue[u] # Unqueued
      BY <1>0, <2>3 DEF Queued
    <3>2. ~Less(queue[u], queue[t]) /\ ~Less(ku, queue[u])
      BY <2>1, <3>1 DEF Top, QueueInv
    <3>3. queue[u] \in Int \X Int /\ queue[t] \in Int \X Int /\ ku \in Int \X Int /\ ks \in Int \X Int
      <4>1. t \in Queued
        BY <2>1 DEF Top
      <4>2. ku \in Int \X Int /\ ks \in Int \X Int
        BY <1>0, KeyType, KeyIs
      <4> QED BY <3>1, <4>1, <4>2 DEF PlannerTypes, Queued
    <3>4. ~Less(ku, ks)
      <4> HIDE DEF ku, ks
      <4>1. ~Less(ku, queue[t])
        BY <3>2, <3>3, KeysOrder
      <4> QED BY <2>2, <3>3, <4>1, KeysOrder
    <3>5. ku[1] = Smaller(g[u], rhs[u]) + Heuristic(start, u) + km /\ ku[2] = Smaller(g[u], rhs[u])
      BY DEF KeyFrom
    <3>6. ks[1] = g[start] + km /\ ks[2] = g[start]
      <4>1. Heuristic(start, start) = 0 /\ Smaller(g[start], g[start]) = g[start]
        BY <1>0, HeuristicHere DEF Smaller
      <4> QED BY <1>0, <2>2, <4>1, FarIs DEF Key
    <3>7. Smaller(g[u], rhs[u]) \in Int /\ Heuristic(start, u) \in Int /\ g[start] \in Int
      BY <1>0, HeuristicTriangle, FarIs DEF Smaller
    <3> HIDE DEF ku, ks
    <3> QED BY <1>0, <3>4, <3>5, <3>6, <3>7 DEF Less, Ahead
  <2> QED BY <2>2, <2>3 DEF Served, Beyond
<1> QED BY <1>1, <1>2

(* What was served for a step's start is so for its end.                    *)
LEMMA StepIsServed ==
  ASSUME PlannerTypes, PortalsFair, Served, NEW s \in Cells, Leads(start, s), start' = s, UNCHANGED <<g, rhs>>
  PROVE  Served'
<1> DEFINE e == Edge(objects, start, s)
<1>0. /\ start \in Cells /\ g[start] = rhs[start] /\ g[start] \in Nat /\ g[s] \in Nat
      /\ Beyond(g[start], g[start]) /\ g[start] \in Int
  BY CostsAssumption DEF PlannerTypes, Served
<1>1. g[s] = rhs[s]
  BY <1>0, StartIsWithin, LedIsSettled
<1>2. e \in Nat \ {0} /\ g[start] >= e + g[s] /\ Heuristic(start, s) <= e
  BY <1>0 DEF Leads
<1>3. ASSUME NEW u \in Cells, g[u] # rhs[u]
      PROVE  LET m == Smaller(g[u], rhs[u]) IN
             ~(m + Heuristic(s, u) < g[s] \/ (m + Heuristic(s, u) = g[s] /\ m < g[s]))
  <2> DEFINE m == Smaller(g[u], rhs[u])
             a == Heuristic(start, u)
             b == Heuristic(start, s)
             h == Heuristic(s, u)
  <2>1. m \in Nat
    BY CostsAssumption DEF PlannerTypes, Smaller
  <2>2. a \in Int /\ b \in Int /\ h \in Int /\ a <= b + h
    BY <1>0, HeuristicTriangle
  <2>3. ~(m + a < g[start] \/ (m + a = g[start] /\ m < g[start]))
    BY <1>0, <1>3 DEF Beyond, Ahead
  <2>4. b <= e
    BY <1>2
  <2> HIDE DEF m, a, b, h, e
  <2>5. ~(m + h < g[s] \/ (m + h = g[s] /\ m < g[s]))
    BY <1>0, <1>2, <2>1, <2>2, <2>3, <2>4
  <2> QED BY <2>5 DEF m, h
<1>4. Beyond(g[s], g[s])'
  BY <1>3 DEF Beyond, Ahead, Heuristic
<1> QED BY <1>1, <1>4 DEF Served

-----------------------------------------------------------------------------
(* What the answers and the steps rest on.                                  *)

(* The planner's estimates are those of a world it has looked at, or of the *)
(* map for an answer without a walk.                                        *)
Looked == Settled \cup {"costing", "answered"}

(* A request for the cost is answered on the map, between open cells.       *)
CostInv ==
  /\ mode \in {"pooled", "starting", "costing", "answered"} => objects = Clean /\ ~misled
  /\ mode \in {"starting", "costing", "answered"} => start \in OpenCells(objects) /\ Goal \in OpenCells(objects)
  /\ mode \in {"costing", "answered"} =>
       \A c \in OpenCells(objects) \ {Goal} : Best(rhs[c], Row(ValuesOf(objects), g, c))

(* What a cell expects on which an object stands is promised by a portal's  *)
(* other end.                                                               *)
PromisedInv ==
  /\ mode \in Looked => \A c \in Cells \ (OpenCells(objects) \cup {Goal}) : Promised(c)
  /\ mode = "repairing" =>
       \A c \in Cells \ (OpenCells(objects) \cup {Goal} \cup Recorded(changed)) : Promised(c)

(* The goal is at no distance from itself, unless an object came to stand   *)
(* on it: then it is lost for the rest of the run.                          *)
GoalLost == Goal \notin OpenCells(objects) /\ g[Goal] = Unreachable /\ rhs[Goal] = Unreachable

GoalInv ==
  /\ mode \in {"starting", "planning", "costing", "answered"} => rhs[Goal] = 0
  /\ mode \in {"repairing", "replanning", "walking"} => start # Goal
  /\ ~misled =>
       /\ mode = "waiting" => rhs[Goal] = 0
       /\ mode \in {"repairing", "replanning", "walking"} => rhs[Goal] = 0 \/ GoalLost
       /\ mode = "repairing" /\ Goal \in Recorded(changed) => rhs[Goal] = 0

(* From the end of a computation until something changes, all keys up to    *)
(* the start's have been served.                                            *)
DoneInv == ~misled /\ mode \in {"waiting", "walking", "answered"} => Served

NoPathInv == mode = "noPath" /\ ~misled => IsUnreachable(Distance(objects)[start])

OptimalInv == CostInv /\ PromisedInv /\ GoalInv /\ DoneInv /\ NoPathInv

-----------------------------------------------------------------------------
(* The world without objects, and a planner without estimates.              *)

LEMMA CleanIs ==
  /\ Clean \in [Cells -> Nat]
  /\ \A c \in Cells : ~IsBlocked(Base[c]) => c \in OpenCells(Clean)
<1>1. Clean \in [Cells -> Nat]
  BY DEF Clean
<1>2. ASSUME NEW c \in Cells, ~IsBlocked(Base[c]) PROVE c \in OpenCells(Clean)
  <2>1. Base[c] \in 1..Unreachable - 1 /\ Clean[c] = 0
    BY <1>2, CostsAssumption DEF IsBlocked, IsUnreachable, Clean
  <2>2. AddCost(Base[c], 0) = Base[c]
    BY <2>1, CostsAssumption DEF AddCost, IsUnreachable
  <2>3. Value(Clean, c) = Base[c]
    BY <2>1, <2>2 DEF Value
  <2> QED BY <1>2, <2>3 DEF OpenCells
<1> QED BY <1>1, <1>2

LEMMA FarFollow ==
  ASSUME NEW objs \in [Cells -> Nat], NEW c \in Cells
  PROVE  Best(Unreachable, Row(ValuesOf(objs), Far, c))
<1>1. \A s \in Cells : OldEdge(c, s, ValuesOf(objs)[s]) \in Nat
  BY ValuesType, EdgeType
<1>2. \A s \in Cells : AddCost(OldEdge(c, s, ValuesOf(objs)[s]), Unreachable) = Unreachable
  BY <1>1, SumOfFar
<1>3. \A s \in Cells : Row(ValuesOf(objs), Far, c)[s] = Unreachable
  BY <1>2 DEF Row, Far
<1> QED BY <1>3, FarIs DEF Best

(* The best of a cell's row is promised, and no more than any promise.      *)
LEMMA BestMeans ==
  ASSUME PlannerTypes, NEW c \in OpenCells(objects), Best(rhs[c], Row(ValuesOf(objects), g, c))
  PROVE  /\ Promised(c) /\ \A s \in Cells : rhs[c] <= AddCost(Edge(objects, c, s), g[s])
         /\ rhs[c] = LookAhead(objects, g, c)
<1>0. c \in Cells /\ objects \in [Cells -> Nat] /\ g \in [Cells -> 0..Unreachable] /\ rhs[c] \in 0..Unreachable
  BY DEF PlannerTypes, OpenCells
<1>1. \A s \in Cells : Row(ValuesOf(objects), g, c)[s] = AddCost(Edge(objects, c, s), g[s])
  <2>1. \A s \in Cells : OldEdge(c, s, ValuesOf(objects)[s]) = Edge(objects, c, s)
    BY <1>0, EdgeIs DEF ValuesOf
  <2> QED BY <2>1 DEF Row
<1>2. Best(LookAhead(objects, g, c), Row(ValuesOf(objects), g, c)) /\ LookAhead(objects, g, c) \in 0..Unreachable
  BY <1>0, LookAheadIs
<1>3. Row(ValuesOf(objects), g, c) \in Rows
  BY <1>0, RowType, ValuesType
<1>4. rhs[c] = LookAhead(objects, g, c)
  BY <1>0, <1>2, <1>3, BestIsUnique
<1>5. Promised(c) /\ \A s \in Cells : rhs[c] <= AddCost(Edge(objects, c, s), g[s])
  BY <1>1 DEF Best, Promised
<1> QED BY <1>4, <1>5

LEMMA LookedIs ==
  ASSUME PlannerInv, OptimalInv, mode \in Looked, ~misled
  PROVE  /\ Hopeful /\ \A c \in Cells \ {Goal} : Promised(c)
         /\ \A c \in OpenCells(objects) \ {Goal} : rhs[c] = LookAhead(objects, g, c)
<1>1. PlannerTypes
  BY DEF PlannerInv
<1>2. \A c \in OpenCells(objects) \ {Goal} : Best(rhs[c], Row(ValuesOf(objects), g, c))
  BY DEF PlannerInv, OptimalInv, FollowInv, CostInv, Looked
<1>3. ASSUME NEW c \in OpenCells(objects) \ {Goal}
      PROVE  /\ Promised(c) /\ \A s \in Cells : rhs[c] <= AddCost(Edge(objects, c, s), g[s])
             /\ rhs[c] = LookAhead(objects, g, c)
  BY <1>1, <1>2, BestMeans
<1>4. \A c \in Cells \ (OpenCells(objects) \cup {Goal}) : Promised(c)
  BY DEF OptimalInv, PromisedInv
<1> QED BY <1>3, <1>4 DEF Hopeful

-----------------------------------------------------------------------------
(* The promises through the steps of the computation and of a repair.       *)

LEMMA LowerPromised ==
  ASSUME PlannerTypes, NEW u \in Cells, Lower(u), objects' = objects, NEW c \in Cells, Promised(c)
  PROVE  Promised(c)'
<1> DEFINE x == AddCost(Edge(objects, c, u), rhs[u])
<1>0. /\ objects \in [Cells -> Nat] /\ rhs[c] \in 0..Unreachable
      /\ \A s \in Cells : g[s] \in 0..Unreachable /\ rhs[s] \in 0..Unreachable
  BY DEF PlannerTypes
<1>1. /\ g'[u] = rhs[u] /\ g[u] > rhs[u] /\ \A s \in Cells \ {u} : g'[s] = g[s]
      /\ rhs'[c] = IF c \in Preds(objects, u) THEN Smaller(rhs[c], x) ELSE rhs[c]
  BY DEF Lower, Update, PlannerTypes
<1>2. /\ x \in 0..Unreachable /\ AddCost(Edge(objects, c, u), g[u]) \in 0..Unreachable
      /\ x <= AddCost(Edge(objects, c, u), g[u])
      /\ c \notin Preds(objects, u) => AddCost(Edge(objects, c, u), g[u]) = Unreachable
  <2>1. Edge(objects, c, u) \in Nat /\ g[u] \in 0..Unreachable /\ rhs[u] \in 0..Unreachable /\ rhs[u] <= g[u]
    BY <1>0, <1>1, EdgeIs, FarIs
  <2>2. c \notin Preds(objects, u) => IsUnreachable(Edge(objects, c, u))
    BY DEF Preds
  <2>3. x <= AddCost(Edge(objects, c, u), g[u])
    BY <2>1, SumGrows
  <2> QED BY <2>1, <2>2, <2>3, SumType
<1>3. CASE rhs'[c] # rhs[c]
  <2>1. rhs'[c] = AddCost(Edge(objects, c, u), g'[u])
    BY <1>1, <1>3 DEF Smaller
  <2> QED BY <2>1 DEF Promised
<1>4. CASE rhs'[c] = rhs[c] /\ rhs[c] # Unreachable
  <2>1. PICK s \in Cells : rhs[c] = AddCost(Edge(objects, c, s), g[s])
    BY <1>4 DEF Promised
  <2>2. CASE s # u
    BY <1>1, <1>4, <2>1, <2>2 DEF Promised
  <2>3. CASE s = u
    <3> HIDE DEF x
    <3>1. c \in Preds(objects, u) /\ x <= rhs[c]
      BY <1>2, <1>4, <2>1, <2>3
    <3>2. rhs'[c] = x
      BY <1>0, <1>1, <1>2, <1>4, <3>1, FarIs DEF Smaller
    <3>3. rhs'[c] = AddCost(Edge(objects, c, u), g'[u])
      BY <1>1, <3>2 DEF x
    <3> QED BY <3>3 DEF Promised
  <2> QED BY <2>2, <2>3
<1>5. CASE rhs'[c] = rhs[c] /\ rhs[c] = Unreachable
  BY <1>5 DEF Promised
<1> QED BY <1>3, <1>4, <1>5

LEMMA RaisePromised ==
  ASSUME PlannerTypes, NEW u \in Cells, Raise(u), objects' = objects, NEW c \in Cells \ {Goal}, Promised(c)
  PROVE  Promised(c)'
<1> DEFINE gs == [g EXCEPT ![u] = Unreachable]
<1>0. objects \in [Cells -> Nat] /\ gs \in [Cells -> 0..Unreachable] /\ g[u] \in 0..Unreachable
  BY FarIs DEF PlannerTypes
<1>1. /\ g' = gs /\ \A s \in Cells \ {u} : g'[s] = g[s]
      /\ rhs'[c] = IF c \in Dependent(u, g[u]) \cup {u} THEN LookAhead(objects, gs, c) ELSE rhs[c]
  BY DEF Raise, Update, PlannerTypes
<1> HIDE DEF gs
<1>2. CASE c \in Dependent(u, g[u]) \cup {u}
  BY <1>0, <1>1, <1>2, LookAheadLeast DEF Promised
<1>3. CASE c \notin Dependent(u, g[u]) \cup {u} /\ rhs[c] # Unreachable
  <2>1. PICK s \in Cells : rhs[c] = AddCost(Edge(objects, c, s), g[s])
    BY <1>3 DEF Promised
  <2>2. s # u
    <3>1. Edge(objects, c, u) \in Nat
      BY <1>0, EdgeIs
    <3>2. c \notin Preds(objects, u) => AddCost(Edge(objects, c, u), g[u]) = Unreachable
      BY <1>0, <3>1, SumType DEF Preds
    <3> QED BY <1>3, <2>1, <3>2 DEF Dependent
  <2> QED BY <1>1, <1>3, <2>1, <2>2 DEF Promised
<1>4. CASE c \notin Dependent(u, g[u]) \cup {u} /\ rhs[c] = Unreachable
  BY <1>1, <1>4 DEF Promised
<1> QED BY <1>2, <1>3, <1>4

LEMMA ApplyPromised ==
  ASSUME PlannerTypes, NEW v \in Cells, ApplyChange(v),
         NEW c \in Cells \ (OpenCells(objects) \cup {Goal}), c = v \/ Promised(c)
  PROVE  Promised(c)'
<1> DEFINE old == OldEdge(c, v, changed[v])
           new == Edge(objects, c, v)
           gs == ClearedG(v)
<1>0. /\ objects \in [Cells -> Nat] /\ objects' = objects /\ IsBlocked(Value(objects, c))
      /\ g[v] \in 0..Unreachable /\ rhs[c] \in 0..Unreachable
  BY DEF PlannerTypes, ApplyChange, OpenCells
<1>1. /\ g' = gs /\ gs \in [Cells -> 0..Unreachable]
      /\ rhs'[c] = IF c \in Affected(v) THEN Repaired(c, v, gs, LookAgain(v), g[v]) ELSE LookAgain(v)[c]
      /\ \A s \in Cells \ {v} : gs[s] = g[s]
  <2>1. g' = gs /\ gs \in [Cells -> 0..Unreachable] /\ rhs' = RepairedRhs(v)
    BY ApplyTypes DEF Update
  <2>2. \A s \in Cells \ {v} : gs[s] = g[s]
    BY DEF ClearedG, PlannerTypes
  <2> QED BY <2>1, <2>2 DEF RepairedRhs
<1>2. new \in Nat /\ gs[v] \in 0..Unreachable
  BY <1>0, <1>1, EdgeIs
<1>3. IsUnreachable(new) => AddCost(new, g[v]) = Unreachable /\ AddCost(new, gs[v]) = Unreachable
  BY <1>0, <1>2, SumType
<1>4. old = new \/ IsUnreachable(new)
  BY <1>0, FarIs DEF Edge, OldEdge, IsUnreachable
<1>5. Repaired(c, v, gs, LookAgain(v), g[v]) =
        IF old > new THEN Smaller(LookAgain(v)[c], AddCost(new, gs[v]))
        ELSE IF LookAgain(v)[c] = AddCost(old, g[v]) THEN LookAhead(objects, gs, c) ELSE LookAgain(v)[c]
  BY DEF Repaired
<1>6. IF c = v THEN LookAgain(v)[c] = Unreachable ELSE LookAgain(v)[c] = rhs[c]
  BY <1>0 DEF LookAgain, PlannerTypes
<1>7. LookAgain(v)[c] \in 0..Unreachable
  BY <1>0, <1>6, FarIs
<1>8. c \in Affected(v) <=> ~IsUnreachable(old) \/ ~IsUnreachable(new)
  BY DEF Affected
<1> HIDE DEF old, gs
<1>9. \/ rhs'[c] = LookAhead(objects, gs, c)
      \/ rhs'[c] = LookAgain(v)[c] /\ (LookAgain(v)[c] = AddCost(new, g[v]) => IsUnreachable(new))
  <2>1. CASE c \notin Affected(v)
    BY <1>1, <1>8, <2>1
  <2>2. CASE c \in Affected(v) /\ old > new
    <3>1. IsUnreachable(new) /\ AddCost(new, gs[v]) = Unreachable
      BY <1>2, <1>3, <1>4, <2>2
    <3>2. Smaller(LookAgain(v)[c], Unreachable) = LookAgain(v)[c]
      BY <1>7, FarIs DEF Smaller
    <3> QED BY <1>1, <1>5, <2>2, <3>1, <3>2
  <2>3. CASE c \in Affected(v) /\ ~(old > new) /\ LookAgain(v)[c] = AddCost(old, g[v])
    BY <1>1, <1>5, <2>3
  <2>4. CASE c \in Affected(v) /\ ~(old > new) /\ LookAgain(v)[c] # AddCost(old, g[v])
    BY <1>1, <1>4, <1>5, <2>4
  <2> QED BY <2>1, <2>2, <2>3, <2>4
<1>10. CASE rhs'[c] = LookAhead(objects, gs, c)
  BY <1>0, <1>1, <1>10, LookAheadLeast DEF Promised
<1>11. CASE rhs'[c] = LookAgain(v)[c] /\ c = v
  BY <1>6, <1>11 DEF Promised
<1>12. CASE rhs'[c] = rhs[c] /\ c # v /\ (rhs[c] = AddCost(new, g[v]) => IsUnreachable(new))
  <2>1. CASE rhs[c] = Unreachable
    BY <1>12, <2>1 DEF Promised
  <2>2. CASE rhs[c] # Unreachable
    <3>1. PICK s \in Cells : rhs[c] = AddCost(Edge(objects, c, s), g[s])
      BY <1>12, <2>2 DEF Promised
    <3>2. s # v
      BY <1>3, <1>12, <2>2, <3>1
    <3> QED BY <1>0, <1>1, <1>12, <3>1, <3>2 DEF Promised
  <2> QED BY <2>1, <2>2
<1> QED BY <1>6, <1>9, <1>10, <1>11, <1>12

-----------------------------------------------------------------------------
(* The goal through the steps of the computation and of a repair.           *)

LEMMA ZeroStays ==
  ASSUME PlannerTypes, rhs[Goal] = 0, NEW u \in Cells, Lower(u) \/ Raise(u)
  PROVE  rhs'[Goal] = 0
<1>0. Goal \in Cells /\ objects \in [Cells -> Nat] /\ rhs[u] \in 0..Unreachable
  BY PlannerAssumption DEF PlannerTypes
<1>1. CASE Lower(u)
  <2> DEFINE x == AddCost(Edge(objects, Goal, u), rhs[u])
  <2>1. x \in 0..Unreachable
    BY <1>0, EdgeIs, SumType
  <2>2. rhs'[Goal] = IF Goal \in Preds(objects, u) THEN Smaller(rhs[Goal], x) ELSE rhs[Goal]
    BY <1>0, <1>1 DEF Lower, Update
  <2> HIDE DEF x
  <2> QED BY <2>1, <2>2, FarIs DEF Smaller
<1>2. CASE Raise(u)
  BY <1>0, <1>2 DEF Raise, Update
<1> QED BY <1>1, <1>2

(* Without the goal no cell comes nearer.                                   *)
LEMMA LostStays ==
  ASSUME PlannerTypes, PortalsFair, QueueInv, prevPos = start, \A c \in Cells \ {Goal} : Promised(c), GoalLost,
         NEW u \in Cells, Top(u), Lower(u) \/ Raise(u)
  PROVE  Raise(u) /\ g'[Goal] = g[Goal] /\ rhs'[Goal] = rhs[Goal]
<1>0. /\ km \in Int /\ start \in Cells /\ Goal \in Cells
      /\ \A c \in Cells : g[c] \in 0..Unreachable /\ rhs[c] \in 0..Unreachable
      /\ \A c \in Cells : queue[c] # Unqueued <=> g[c] # rhs[c]
  BY PlannerAssumption DEF PlannerTypes, QueueInv
<1>1. u \in Queued /\ u # Goal
  BY <1>0 DEF Top, Queued, GoalLost
<1>2. ASSUME Lower(u) PROVE FALSE
  <2> DEFINE h == Heuristic(start, u)
             k == rhs[u] + h
  <2>1. g[u] > rhs[u] /\ ~Less(queue[u], KeyFrom(start, km, g[u], rhs[u], u))
    BY <1>2, KeyIs DEF Lower
  <2>2. h \in Int /\ k \in Int /\ rhs[u] \in Int
    BY <1>0, HeuristicTriangle, FarIs
  <2>3. ASSUME NEW w \in Cells, g[w] # rhs[w] PROVE ~Ahead(w, Smaller(g[w], rhs[w]), k, rhs[u])
    <3> DEFINE kw == KeyFrom(start, km, g[w], rhs[w], w)
               ku == KeyFrom(start, km, g[u], rhs[u], u)
    <3>1. w \in Queued
      BY <1>0, <2>3 DEF Queued
    <3>2. ~Less(queue[w], queue[u]) /\ ~Less(kw, queue[w]) /\ ~Less(ku, queue[u]) /\ ~Less(queue[u], ku)
      BY <1>1, <2>1, <3>1 DEF Top, QueueInv, Queued
    <3>3. queue[w] \in Int \X Int /\ queue[u] \in Int \X Int /\ kw \in Int \X Int /\ ku \in Int \X Int
      <4>1. kw \in Int \X Int /\ ku \in Int \X Int
        BY <1>0, KeyType
      <4> QED BY <1>1, <3>1, <4>1 DEF PlannerTypes, Queued
    <3>4. kw[1] = Smaller(g[w], rhs[w]) + Heuristic(start, w) + km /\ kw[2] = Smaller(g[w], rhs[w])
      BY DEF KeyFrom
    <3>5. ku[1] = k + km /\ ku[2] = rhs[u]
      <4>1. Smaller(g[u], rhs[u]) = rhs[u]
        BY <1>0, <2>1, FarIs DEF Smaller
      <4> QED BY <4>1 DEF KeyFrom
    <3>6. Smaller(g[w], rhs[w]) \in Int /\ Heuristic(start, w) \in Int
      BY <1>0, HeuristicTriangle, FarIs DEF Smaller
    <3> HIDE DEF kw, ku, k, h
    <3>7. ~Less(kw, queue[u])
      BY <3>2, <3>3, KeysOrder
    <3>8. ~Less(kw, ku)
      BY <3>2, <3>3, <3>7, KeysOrder
    <3> QED BY <1>0, <2>2, <3>4, <3>5, <3>6, <3>8 DEF Less, Ahead
  <2>4. Within(u, rhs[u], k, rhs[u])
    BY <2>2 DEF Within
  <2> HIDE DEF h, k
  <2>5. Beyond(k, rhs[u])
    BY <2>3 DEF Beyond
  <2>6. rhs[u] = Unreachable
    BY <2>2, <2>4, <2>5, NothingLeads DEF GoalLost
  <2> QED BY <1>0, <2>1, <2>6, FarIs
<1>3. Raise(u)
  BY <1>2
<1>4. g'[Goal] = g[Goal] /\ rhs'[Goal] = rhs[Goal]
  BY <1>0, <1>1, <1>3 DEF Raise, Update, PlannerTypes
<1> QED BY <1>3, <1>4

(* The goal is lost when an object on it is replayed.                       *)
LEMMA ApplyGoal ==
  ASSUME PlannerTypes, NEW v \in Cells, ApplyChange(v),
         rhs[Goal] = 0 \/ GoalLost, Goal \in Recorded(changed) => rhs[Goal] = 0
  PROVE  /\ rhs'[Goal] = 0 \/ GoalLost'
         /\ Goal \in Recorded(changed') => rhs'[Goal] = 0
<1> DEFINE old == OldEdge(Goal, v, changed[v])
           new == Edge(objects, Goal, v)
           gs == ClearedG(v)
           x == AddCost(new, gs[v])
<1>0. Goal \in Cells /\ objects \in [Cells -> Nat] /\ objects' = objects /\ g \in [Cells -> 0..Unreachable]
  BY PlannerAssumption DEF PlannerTypes, ApplyChange
<1>1. /\ g' = gs /\ gs \in [Cells -> 0..Unreachable]
      /\ rhs'[Goal] = IF Goal \in Affected(v) THEN Repaired(Goal, v, gs, LookAgain(v), g[v]) ELSE LookAgain(v)[Goal]
  <2>1. g' = gs /\ gs \in [Cells -> 0..Unreachable] /\ rhs' = RepairedRhs(v)
    BY ApplyTypes DEF Update
  <2> QED BY <1>0, <2>1 DEF RepairedRhs
<1>2. new \in Nat /\ x \in 0..Unreachable /\ (IsUnreachable(new) => x = Unreachable)
  BY <1>0, <1>1, EdgeIs, SumType
<1>3. Repaired(Goal, v, gs, LookAgain(v), g[v]) =
        IF old > new THEN Smaller(LookAgain(v)[Goal], x) ELSE LookAgain(v)[Goal]
  BY DEF Repaired
<1>4. v = Goal => old = new
  BY DEF Edge, OldEdge, Adjacent
<1>5. v # Goal => LookAgain(v)[Goal] = rhs[Goal] /\ gs[Goal] = g[Goal]
  BY <1>0 DEF LookAgain, ClearedG, PlannerTypes
<1>6. v \notin Recorded(changed') /\ v \in Recorded(changed) /\ \A c \in Cells \ {v} : changed'[c] = changed[c]
  BY DEF ApplyChange, PlannerTypes, Recorded
<1> HIDE DEF old, x
<1>7. CASE v = Goal
  <2>1. rhs'[Goal] = LookAgain(v)[Goal]
    BY <1>1, <1>2, <1>3, <1>4, <1>7
  <2>2. CASE IsBlocked(Value(objects, Goal))
    <3>1. rhs'[Goal] = Unreachable /\ g'[Goal] = Unreachable
      BY <1>0, <1>1, <1>7, <2>1, <2>2 DEF LookAgain, ClearedG, PlannerTypes
    <3>2. Goal \notin OpenCells(objects')
      BY <1>0, <2>2 DEF OpenCells
    <3> QED BY <1>6, <1>7, <3>1, <3>2 DEF GoalLost
  <2>3. CASE ~IsBlocked(Value(objects, Goal))
    <3>1. rhs'[Goal] = rhs[Goal] /\ rhs[Goal] = 0
      BY <1>6, <1>7, <2>1, <2>3 DEF LookAgain
    <3> QED BY <3>1
  <2> QED BY <2>2, <2>3
<1>8. CASE v # Goal /\ rhs[Goal] = 0
  <2>1. rhs'[Goal] = 0
    BY <1>1, <1>2, <1>3, <1>5, <1>8, FarIs DEF Smaller
  <2> QED BY <2>1
<1>9. CASE v # Goal /\ GoalLost
  <2>1. IsBlocked(Value(objects, Goal))
    BY <1>0, <1>9 DEF GoalLost, OpenCells
  <2>2. old = new \/ IsUnreachable(new)
    BY <2>1, FarIs DEF Edge, OldEdge, IsUnreachable, old
  <2>3. rhs'[Goal] = Unreachable
    <3>1. Smaller(Unreachable, Unreachable) = Unreachable
      BY DEF Smaller
    <3>2. rhs[Goal] = Unreachable
      BY <1>9 DEF GoalLost
    <3> QED BY <1>1, <1>2, <1>3, <1>5, <1>9, <2>2, <3>1, <3>2
  <2>4. g'[Goal] = Unreachable /\ Goal \notin OpenCells(objects')
    BY <1>0, <1>1, <1>5, <1>9 DEF GoalLost
  <2>5. Goal \in Recorded(changed') => FALSE
    <3>1. Goal \notin Recorded(changed)
      BY <1>9, FarIs DEF GoalLost
    <3> QED BY <1>0, <1>6, <1>9, <3>1 DEF Recorded
  <2> QED BY <2>3, <2>4, <2>5 DEF GoalLost
<1> QED BY <1>7, <1>8, <1>9

(* Where the agent goes on, its goal is not lost.                           *)
LEMMA GoesOnToGoal ==
  ASSUME PlannerInv, OptimalInv, PortalsFair, ~misled, mode = "walking", ~IsUnreachable(rhs[start])
  PROVE  rhs[Goal] = 0
<1>1. PlannerTypes /\ Served /\ (rhs[Goal] = 0 \/ GoalLost) /\ mode \in Looked
  BY DEF PlannerInv, OptimalInv, DoneInv, GoalInv, Looked, Settled
<1>2. ASSUME GoalLost PROVE FALSE
  <2>1. \A c \in Cells \ {Goal} : Promised(c)
    BY <1>1, LookedIs
  <2>2. start \in Cells /\ g[start] \in Int /\ Beyond(g[start], g[start]) /\ g[start] = rhs[start]
    BY <1>1, CostsAssumption DEF PlannerTypes, Served
  <2>3. Within(start, rhs[start], g[start], g[start])
    BY <1>1, <2>2, StartIsWithin
  <2>4. rhs[start] = Unreachable
    BY <1>1, <1>2, <2>1, <2>2, <2>3, NothingLeads DEF GoalLost
  <2> QED BY <2>4, FarIs DEF IsUnreachable
<1> QED BY <1>1, <1>2

(* The step that the code takes is one that start's look-ahead leads to.    *)
LEMMA StepLeads ==
  ASSUME PlannerInv, OptimalInv, PortalsFair, ~misled, NEW n \in Cells, TakeStep(n)
  PROVE  /\ Leads(start, n)
         /\ start \in OpenCells(objects) => rhs[start] = AddCost(Edge(objects, start, n), g[n])
<1> DEFINE e == Edge(objects, start, n)
<1>0. /\ mode \in Looked /\ PlannerTypes /\ start \in Cells \ {Goal} /\ objects \in [Cells -> Nat]
      /\ rhs[start] \in 0..Unreachable /\ g \in [Cells -> 0..Unreachable]
  <2>1. mode = "walking"
    BY DEF TakeStep
  <2> QED BY <2>1 DEF PlannerInv, PlannerTypes, OptimalInv, GoalInv, Looked, Settled
<1>1. /\ LookAhead(objects, g, start) < Unreachable /\ AddCost(e, g[n]) = LookAhead(objects, g, start)
      /\ rhs[start] < Unreachable
  <2>1. LookAhead(objects, g, start) \in 0..Unreachable
    BY <1>0, LookAheadLeast
  <2> QED BY <1>0, <2>1, FarIs DEF TakeStep, IsUnreachable
<1>2. e \in Nat /\ g[n] \in 0..Unreachable
  BY <1>0, EdgeIs
<1>3. AddCost(e, g[n]) = e + g[n] /\ e < Unreachable
  <2> HIDE DEF e
  <2> QED BY <1>1, <1>2, SumWithin
<1>4. e \in Nat \ {0} /\ Heuristic(start, n) <= e
  BY <1>0, <1>3, EdgeFair
<1>5. rhs[start] >= LookAhead(objects, g, start)
  <2>1. Promised(start)
    BY <1>0, LookedIs
  <2>2. PICK s \in Cells : rhs[start] = AddCost(Edge(objects, start, s), g[s])
    BY <1>0, <1>1, <2>1, FarIs DEF Promised
  <2>3. LookAhead(objects, g, start) <= AddCost(Edge(objects, start, s), g[s])
    BY <1>0, LookAheadLeast
  <2>4. LookAhead(objects, g, start) \in 0..Unreachable
    BY <1>0, LookAheadLeast
  <2> QED BY <1>0, <2>2, <2>3, <2>4, FarIs
<1>6. start \in OpenCells(objects) => rhs[start] = LookAhead(objects, g, start)
  BY <1>0, LookedIs
<1> QED BY <1>1, <1>3, <1>4, <1>5, <1>6 DEF Leads

-----------------------------------------------------------------------------
(* The steps, one kind for each way in which they matter here.              *)

(* The goroutine goes on and leaves the estimates as they are.              *)
Proceed ==
  /\ UNCHANGED <<start, objects, changed, g, rhs, misled>>
  /\ \/ mode = "repairing" /\ mode' = "replanning" /\ changed = NoRecord
     \/ mode = "waiting" /\ mode' = "ended"
     \/ mode = "waiting" /\ mode' = "walking" /\ start # Goal
     \/ mode = "walking" /\ mode' = "waiting" /\ ~IsUnreachable(rhs[start])

OptimalStep ==
  \/ \E s \in Starts : Acquire(s)
  \/ \E o \in Visions : FirstVision(o) \/ LookAround(o)
  \/ \E u \in Cells : Expand(u) \/ ApplyChange(u) \/ TakeStep(u)
  \/ AskCost \/ PlanDone \/ NoPath \/ Proceed \/ Release

LEMMA NextIsOptimalStep == ASSUME Next PROVE OptimalStep
<1>1. ASSUME ChangesApplied \/ Arrive \/ Cancelled \/ WalkOn \/ StayHere PROVE Proceed
  <2>1. UNCHANGED <<start, objects, changed, g, rhs, misled>>
    BY <1>1 DEF ChangesApplied, Arrive, Cancelled, WalkOn, StayHere, position, estimates, history
  <2> QED BY <1>1, <2>1 DEF ChangesApplied, Arrive, Cancelled, WalkOn, StayHere, Proceed
<1> QED BY <1>1 DEF Next, OptimalStep

LEMMA PlanDoneIs ==
  ASSUME PlanDone
  PROVE  /\ UNCHANGED <<start, objects, changed, g, rhs, misled>>
         /\ \/ mode = "planning" /\ mode' = "waiting"
            \/ mode = "replanning" /\ mode' = "walking"
            \/ mode = "costing" /\ mode' = "answered"
<1>1. UNCHANGED <<start, objects, changed, g, rhs, misled>>
  BY DEF PlanDone, position, estimates, history
<1>2. \/ mode = "planning" /\ mode' = "waiting"
      \/ mode = "replanning" /\ mode' = "walking"
      \/ mode = "costing" /\ mode' = "answered"
  BY DEF PlanDone, Planning
<1> QED BY <1>1, <1>2

LEMMA CostStep == ASSUME PlannerInv, CostInv, OptimalStep PROVE CostInv'
<1> USE DEF position, estimates, history
<1>0. PlannerTypes
  BY DEF PlannerInv
<1>1. ASSUME NEW s \in Starts, Acquire(s) PROVE CostInv'
  <2>1. /\ mode = "pooled" /\ mode' = "starting" /\ start' = s /\ objects' = objects /\ misled' = misled
        /\ ~IsBlocked(Base[s]) /\ ~IsBlocked(Base[Goal]) /\ s \in Cells /\ Goal \in Cells
    BY <1>1, PlannerAssumption DEF Acquire
  <2>2. objects = Clean /\ ~misled
    BY <2>1 DEF CostInv
  <2> QED BY <2>1, <2>2, CleanIs DEF CostInv
<1>2. ASSUME NEW o \in Visions, FirstVision(o) \/ LookAround(o) PROVE CostInv'
  <2>1. mode' \in {"planning", "walking", "repairing"}
    BY <1>2 DEF FirstVision, LookAround
  <2> QED BY <2>1 DEF CostInv
<1>3. ASSUME NEW u \in Cells, Expand(u) PROVE CostInv'
  <2>1. /\ mode' = mode /\ mode \in {"planning", "replanning", "costing"}
        /\ start' = start /\ objects' = objects /\ misled' = misled
    BY <1>3 DEF Expand, Planning
  <2>2. ASSUME mode = "costing", NEW c \in OpenCells(objects) \ {Goal}
        PROVE  Best(rhs'[c], Row(ValuesOf(objects), g', c))
    <3>1. Best(rhs[c], Row(ValuesOf(objects), g, c))
      BY <2>2 DEF CostInv
    <3>2. CASE Refresh(u)
      BY <3>1, <3>2 DEF Refresh
    <3> QED BY <1>0, <1>3, <3>1, <3>2, LowerFollow, RaiseFollow DEF Expand
  <2> QED BY <2>1, <2>2 DEF CostInv
<1>4. ASSUME NEW u \in Cells, ApplyChange(u) \/ TakeStep(u) PROVE CostInv'
  <2>1. mode' \in {"repairing", "waiting"}
    BY <1>4 DEF ApplyChange, TakeStep
  <2> QED BY <2>1 DEF CostInv
<1>5. ASSUME AskCost PROVE CostInv'
  <2>1. /\ mode = "starting" /\ mode' = "costing" /\ UNCHANGED <<start, objects, g, rhs, misled>>
        /\ objects \in [Cells -> Nat]
    BY <1>0, <1>5 DEF AskCost, PlannerTypes
  <2>2. g = Far /\ \A c \in Cells \ {Goal} : rhs[c] = Unreachable
    BY <2>1 DEF PlannerInv, PooledInv
  <2>3. ASSUME NEW c \in OpenCells(objects) \ {Goal} PROVE Best(rhs[c], Row(ValuesOf(objects), g, c))
    <3>1. c \in Cells
      BY DEF OpenCells
    <3>2. Best(Unreachable, Row(ValuesOf(objects), Far, c))
      BY <2>1, <3>1, FarFollow
    <3> QED BY <2>2, <3>1, <3>2
  <2> QED BY <2>1, <2>3 DEF CostInv
<1>6. ASSUME PlanDone PROVE CostInv'
  BY <1>6, PlanDoneIs DEF CostInv
<1>7. ASSUME NoPath \/ Proceed PROVE CostInv'
  <2>1. mode' \in {"noPath", "replanning", "ended", "walking", "waiting"}
    BY <1>7 DEF NoPath, Proceed
  <2> QED BY <2>1 DEF CostInv
<1>8. ASSUME Release PROVE CostInv'
  BY <1>8 DEF Release, CostInv
<1> QED BY <1>1, <1>2, <1>3, <1>4, <1>5, <1>6, <1>7, <1>8 DEF OptimalStep

LEMMA PromisedStep == ASSUME PlannerInv, PromisedInv, OptimalStep PROVE PromisedInv'
<1> USE DEF position, estimates, history
<1>0. PlannerTypes
  BY DEF PlannerInv
<1>1. ASSUME NEW s \in Starts, Acquire(s) PROVE PromisedInv'
  <2>1. mode' = "starting"
    BY <1>1 DEF Acquire
  <2> QED BY <2>1 DEF PromisedInv, Looked, Settled
<1>2. ASSUME NEW o \in Visions, FirstVision(o) PROVE PromisedInv'
  <2>1. mode = "starting" /\ mode' = "planning" /\ rhs' = rhs
    BY <1>2 DEF FirstVision
  <2>2. \A c \in Cells \ {Goal} : rhs'[c] = Unreachable
    BY <2>1 DEF PlannerInv, PooledInv
  <2> QED BY <2>1, <2>2 DEF PromisedInv, Promised
<1>3. ASSUME NEW o \in Visions, LookAround(o) PROVE PromisedInv'
  <2>1. /\ mode = "waiting" /\ mode' \in {"walking", "repairing"} /\ g' = g /\ rhs' = rhs
        /\ mode' = "walking" => changed' = NoRecord
    BY <1>3 DEF LookAround
  <2>2. /\ \A c \in Cells : changed'[c] = Unrecorded => Value(objects', c) = Value(objects, c)
        /\ changed' = NoRecord => objects' = objects
    BY <1>0, <1>3, LookIs DEF LookAround
  <2>3. \A c \in Cells \ (OpenCells(objects) \cup {Goal}) : Promised(c)
    BY <2>1 DEF PromisedInv, Looked, Settled
  <2>4. CASE mode' = "walking"
    BY <2>1, <2>2, <2>3, <2>4 DEF PromisedInv, Promised
  <2>5. CASE mode' = "repairing"
    <3>1. ASSUME NEW c \in Cells \ (OpenCells(objects') \cup {Goal} \cup Recorded(changed')) PROVE Promised(c)'
      <4>1. IsBlocked(Value(objects', c)) /\ Value(objects', c) = Value(objects, c)
        BY <2>2 DEF OpenCells, Recorded
      <4>2. Promised(c)
        BY <2>3, <4>1 DEF OpenCells
      <4>3. \A s \in Cells : Edge(objects', c, s) = Edge(objects, c, s)
        BY <4>1 DEF Edge
      <4> QED BY <2>1, <4>2, <4>3 DEF Promised
    <3>2. mode' \notin Looked
      BY <2>5 DEF Looked, Settled
    <3> QED BY <3>1, <3>2 DEF PromisedInv
  <2> QED BY <2>1, <2>4, <2>5
<1>4. ASSUME NEW u \in Cells, Expand(u) PROVE PromisedInv'
  <2>1. mode' = mode /\ mode \in {"planning", "replanning", "costing"} /\ objects' = objects
    BY <1>4 DEF Expand, Planning
  <2>2. ASSUME NEW c \in Cells \ (OpenCells(objects) \cup {Goal}) PROVE Promised(c)'
    <3>1. Promised(c)
      BY <2>1 DEF PromisedInv, Looked, Settled
    <3>2. CASE Refresh(u)
      BY <2>1, <3>1, <3>2 DEF Refresh, Promised
    <3> QED BY <1>0, <1>4, <2>1, <3>1, <3>2, LowerPromised, RaisePromised DEF Expand
  <2> QED BY <2>1, <2>2 DEF PromisedInv
<1>5. ASSUME NEW v \in Cells, ApplyChange(v) PROVE PromisedInv'
  <2>1. /\ mode = "repairing" /\ mode' = "repairing" /\ objects' = objects
        /\ Recorded(changed) = Recorded(changed') \cup {v}
    BY <1>0, <1>5 DEF ApplyChange, PlannerTypes, Recorded
  <2>2. ASSUME NEW c \in Cells \ (OpenCells(objects) \cup {Goal} \cup Recorded(changed')) PROVE Promised(c)'
    <3>1. c = v \/ Promised(c)
      BY <2>1 DEF PromisedInv
    <3> QED BY <1>0, <1>5, <3>1, ApplyPromised
  <2>3. mode' \notin Looked
    BY <2>1 DEF Looked, Settled
  <2> QED BY <2>1, <2>2, <2>3 DEF PromisedInv
<1>6. ASSUME NEW n \in Cells, TakeStep(n) PROVE PromisedInv'
  <2>1. mode = "walking" /\ mode' = "waiting" /\ UNCHANGED <<objects, g, rhs>>
    BY <1>6 DEF TakeStep
  <2> QED BY <2>1 DEF PromisedInv, Promised, Looked, Settled
<1>7. ASSUME AskCost PROVE PromisedInv'
  <2>1. mode = "starting" /\ mode' = "costing" /\ rhs' = rhs
    BY <1>7 DEF AskCost
  <2>2. \A c \in Cells \ {Goal} : rhs'[c] = Unreachable
    BY <2>1 DEF PlannerInv, PooledInv
  <2> QED BY <2>1, <2>2 DEF PromisedInv, Promised
<1>8. ASSUME PlanDone PROVE PromisedInv'
  <2>1. mode \in Looked /\ mode' # "repairing" /\ UNCHANGED <<objects, g, rhs>>
    BY <1>8, PlanDoneIs DEF Looked, Settled
  <2> QED BY <2>1 DEF PromisedInv, Promised
<1>9. ASSUME NoPath PROVE PromisedInv'
  <2>1. mode' = "noPath"
    BY <1>9 DEF NoPath
  <2> QED BY <2>1 DEF PromisedInv, Looked, Settled
<1>10. ASSUME Proceed PROVE PromisedInv'
  <2>1. mode' # "repairing" /\ UNCHANGED <<objects, g, rhs>>
    BY <1>10 DEF Proceed
  <2>2. \A c \in Cells \ (OpenCells(objects) \cup {Goal}) : Promised(c)
    <3>1. mode = "repairing" => Recorded(changed) = {}
      BY <1>10 DEF Proceed, Recorded, NoRecord
    <3>2. mode \in Looked \cup {"repairing"}
      BY <1>10 DEF Proceed, Looked, Settled
    <3> QED BY <3>1, <3>2 DEF PromisedInv
  <2> QED BY <2>1, <2>2 DEF PromisedInv, Promised
<1>11. ASSUME Release PROVE PromisedInv'
  <2>1. mode' = "pooled"
    BY <1>11 DEF Release
  <2> QED BY <2>1 DEF PromisedInv, Looked, Settled
<1> QED BY <1>1, <1>2, <1>3, <1>4, <1>5, <1>6, <1>7, <1>8, <1>9, <1>10, <1>11 DEF OptimalStep

LEMMA GoalStep == ASSUME PlannerInv, OptimalInv, PortalsFair, OptimalStep PROVE GoalInv'
<1> USE DEF position, estimates, history
<1>0. PlannerTypes /\ QueueInv /\ GoalInv
  BY DEF PlannerInv, OptimalInv
<1>1. ASSUME NEW s \in Starts, Acquire(s) PROVE GoalInv'
  <2>1. mode' = "starting" /\ rhs'[Goal] = 0
    BY <1>0, <1>1, PlannerAssumption DEF Acquire, PlannerTypes
  <2> QED BY <2>1 DEF GoalInv
<1>2. ASSUME NEW o \in Visions, FirstVision(o) PROVE GoalInv'
  <2>1. mode = "starting" /\ mode' = "planning" /\ rhs' = rhs
    BY <1>2 DEF FirstVision
  <2> QED BY <1>0, <2>1 DEF GoalInv
<1>3. ASSUME NEW o \in Visions, LookAround(o) PROVE GoalInv'
  <2>1. /\ mode = "waiting" /\ mode' \in {"walking", "repairing"} /\ start # Goal
        /\ start' = start /\ rhs' = rhs /\ misled' = misled
    BY <1>3 DEF LookAround
  <2> QED BY <1>0, <2>1 DEF GoalInv
<1>4. ASSUME NEW u \in Cells, Expand(u) PROVE GoalInv'
  <2>1. /\ mode' = mode /\ mode \in {"planning", "replanning", "costing"} /\ start' = start
        /\ objects' = objects /\ changed' = changed /\ misled' = misled /\ prevPos = start /\ Top(u)
    BY <1>0, <1>4 DEF Expand, Planning, QueueInv, Standing
  <2>2. CASE Refresh(u)
    BY <1>0, <2>1, <2>2 DEF Refresh, GoalInv, GoalLost
  <2>3. CASE (Lower(u) \/ Raise(u)) /\ rhs[Goal] = 0
    <3>1. rhs'[Goal] = 0
      BY <1>0, <2>3, ZeroStays
    <3> QED BY <1>0, <2>1, <3>1 DEF GoalInv
  <2>4. CASE (Lower(u) \/ Raise(u)) /\ GoalLost /\ mode = "replanning" /\ ~misled
    <3>1. \A c \in Cells \ {Goal} : Promised(c)
      BY <2>4, LookedIs DEF Looked, Settled
    <3>2. g'[Goal] = g[Goal] /\ rhs'[Goal] = rhs[Goal]
      BY <1>0, <2>1, <2>4, <3>1, LostStays
    <3> QED BY <1>0, <2>1, <2>4, <3>2 DEF GoalInv, GoalLost
  <2>5. CASE mode = "replanning" /\ misled
    BY <1>0, <2>1, <2>5 DEF GoalInv
  <2>6. mode # "replanning" => rhs[Goal] = 0
    BY <1>0, <2>1 DEF GoalInv
  <2>7. mode = "replanning" /\ ~misled => rhs[Goal] = 0 \/ GoalLost
    BY <1>0 DEF GoalInv
  <2> QED BY <1>4, <2>2, <2>3, <2>4, <2>5, <2>6, <2>7 DEF Expand
<1>5. ASSUME NEW v \in Cells, ApplyChange(v) PROVE GoalInv'
  <2>1. /\ mode = "repairing" /\ mode' = "repairing" /\ start' = start /\ (misled => misled')
    BY <1>5 DEF ApplyChange
  <2>2. ASSUME ~misled
        PROVE  /\ rhs'[Goal] = 0 \/ GoalLost'
               /\ Goal \in Recorded(changed') => rhs'[Goal] = 0
    <3>1. (rhs[Goal] = 0 \/ GoalLost) /\ (Goal \in Recorded(changed) => rhs[Goal] = 0)
      BY <1>0, <2>1, <2>2 DEF GoalInv
    <3> QED BY <1>0, <1>5, <3>1, ApplyGoal
  <2> QED BY <1>0, <2>1, <2>2 DEF GoalInv
<1>6. ASSUME NEW n \in Cells, TakeStep(n) PROVE GoalInv'
  <2>1. mode = "walking" /\ mode' = "waiting" /\ misled' = misled /\ rhs' = rhs /\ ~IsUnreachable(rhs[start])
    BY <1>6 DEF TakeStep
  <2>2. ~misled => rhs[Goal] = 0
    BY <2>1, GoesOnToGoal
  <2> QED BY <2>1, <2>2 DEF GoalInv
<1>7. ASSUME AskCost PROVE GoalInv'
  <2>1. mode = "starting" /\ mode' = "costing" /\ rhs' = rhs
    BY <1>7 DEF AskCost
  <2> QED BY <1>0, <2>1 DEF GoalInv
<1>8. ASSUME PlanDone PROVE GoalInv'
  BY <1>0, <1>8, PlanDoneIs DEF GoalInv, GoalLost
<1>9. ASSUME NoPath PROVE GoalInv'
  <2>1. mode' = "noPath"
    BY <1>9 DEF NoPath
  <2> QED BY <2>1 DEF GoalInv
<1>10. ASSUME Proceed PROVE GoalInv'
  <2>1. UNCHANGED <<start, objects, changed, g, rhs, misled>>
    BY <1>10 DEF Proceed
  <2>2. CASE mode = "repairing" /\ mode' = "replanning"
    BY <1>0, <2>1, <2>2 DEF GoalInv, GoalLost
  <2>3. CASE mode' = "ended"
    BY <2>3 DEF GoalInv
  <2>4. CASE mode = "waiting" /\ mode' = "walking" /\ start # Goal
    BY <1>0, <2>1, <2>4 DEF GoalInv
  <2>5. CASE mode = "walking" /\ mode' = "waiting" /\ ~IsUnreachable(rhs[start])
    <3>1. ~misled => rhs[Goal] = 0
      BY <2>5, GoesOnToGoal
    <3> QED BY <2>1, <2>5, <3>1 DEF GoalInv
  <2> QED BY <1>10, <2>2, <2>3, <2>4, <2>5 DEF Proceed
<1>11. ASSUME Release PROVE GoalInv'
  <2>1. mode' = "pooled"
    BY <1>11 DEF Release
  <2> QED BY <2>1 DEF GoalInv
<1> QED BY <1>1, <1>2, <1>3, <1>4, <1>5, <1>6, <1>7, <1>8, <1>9, <1>10, <1>11 DEF OptimalStep

LEMMA DoneStep == ASSUME PlannerInv, OptimalInv, PortalsFair, OptimalStep PROVE DoneInv'
<1> USE DEF position, estimates, history
<1>0. PlannerTypes /\ QueueInv /\ DoneInv
  BY DEF PlannerInv, OptimalInv
<1>1. ASSUME UNCHANGED <<start, g, rhs>>, Served PROVE Served'
  BY <1>1 DEF Served, Beyond, Ahead, Heuristic
<1>2. ASSUME NEW s \in Starts, Acquire(s) PROVE DoneInv'
  BY <1>2 DEF Acquire, DoneInv
<1>3. ASSUME NEW o \in Visions, FirstVision(o) PROVE DoneInv'
  BY <1>3 DEF FirstVision, DoneInv
<1>4. ASSUME NEW o \in Visions, LookAround(o) PROVE DoneInv'
  <2>1. mode = "waiting" /\ misled' = misled /\ UNCHANGED <<start, g, rhs>>
    BY <1>4 DEF LookAround
  <2> QED BY <1>0, <1>1, <2>1 DEF DoneInv
<1>5. ASSUME NEW u \in Cells, Expand(u) \/ ApplyChange(u) PROVE DoneInv'
  <2>1. mode' \in {"planning", "replanning", "costing", "repairing"}
    BY <1>5 DEF Expand, Planning, ApplyChange
  <2> QED BY <2>1 DEF DoneInv
<1>6. ASSUME NEW n \in Cells, TakeStep(n) PROVE DoneInv'
  <2>1. mode = "walking" /\ misled' = misled /\ start' = n /\ UNCHANGED <<g, rhs>>
    BY <1>6 DEF TakeStep
  <2>2. ASSUME ~misled PROVE Served'
    <3>1. Served
      BY <1>0, <2>1, <2>2 DEF DoneInv
    <3>2. Leads(start, n)
      BY <1>6, <2>2, StepLeads
    <3> QED BY <1>0, <2>1, <3>1, <3>2, StepIsServed
  <2> QED BY <2>1, <2>2 DEF DoneInv
<1>7. ASSUME PlanDone PROVE DoneInv'
  <2>1. ~\E u \in Cells : Top(u) /\ Unfinished(u)
    BY <1>7 DEF PlanDone
  <2>2. prevPos = start
    BY <1>0, <1>7, PlanDoneIs DEF QueueInv, Standing
  <2>3. Served
    BY <1>0, <2>1, <2>2, DoneIsServed
  <2> QED BY <1>1, <1>7, <2>3, PlanDoneIs DEF DoneInv
<1>8. ASSUME AskCost \/ NoPath PROVE DoneInv'
  BY <1>8 DEF AskCost, NoPath, DoneInv
<1>9. ASSUME Proceed PROVE DoneInv'
  <2>1. /\ UNCHANGED <<start, g, rhs, misled>>
        /\ mode' \in {"replanning", "ended"} \/ mode \in {"waiting", "walking"}
    BY <1>9 DEF Proceed
  <2> QED BY <1>0, <1>1, <2>1 DEF DoneInv
<1>10. ASSUME Release PROVE DoneInv'
  BY <1>10 DEF Release, DoneInv
<1> QED BY <1>2, <1>3, <1>4, <1>5, <1>6, <1>7, <1>8, <1>9, <1>10 DEF OptimalStep

LEMMA NoPathStep == ASSUME PlannerInv, OptimalInv, PortalsFair, OptimalStep PROVE NoPathInv'
<1>1. CASE NoPath
  <2>1. /\ mode = "walking" /\ UNCHANGED <<start, objects, misled>>
        /\ IsUnreachable(rhs[start]) \/ IsUnreachable(LookAhead(objects, g, start))
    BY <1>1 DEF NoPath, position, estimates, history
  <2>2. ASSUME ~misled PROVE IsUnreachable(Distance(objects)[start])
    <3>1. /\ PlannerTypes /\ Served /\ start # Goal /\ (rhs[Goal] = 0 \/ GoalLost) /\ start \in Cells
      BY <2>1, <2>2 DEF PlannerInv, PlannerTypes, OptimalInv, DoneInv, GoalInv
    <3>2. Hopeful /\ \A c \in OpenCells(objects) \ {Goal} : rhs[c] = LookAhead(objects, g, c)
      BY <2>1, <2>2, LookedIs DEF Looked, Settled
    <3>3. start \in OpenCells(objects) => IsUnreachable(rhs[start])
      BY <2>1, <3>1, <3>2
    <3>4. Goal \in OpenCells(objects) => rhs[Goal] = 0
      BY <3>1 DEF GoalLost
    <3> QED BY <3>1, <3>2, <3>3, <3>4, NothingIsThere
  <2>3. Distance(objects') = Distance(objects)
    BY <2>1
  <2> QED BY <2>1, <2>2, <2>3 DEF NoPathInv
<1>2. CASE ~NoPath
  <2>1. mode' # "noPath"
    <3>1. ASSUME NEW u \in Cells, Expand(u) PROVE mode' # "noPath"
      BY <3>1 DEF Expand, Planning
    <3>2. ASSUME NEW u \in Cells, ApplyChange(u) \/ TakeStep(u) PROVE mode' # "noPath"
      BY <3>2 DEF ApplyChange, TakeStep
    <3>3. ASSUME PlanDone PROVE mode' # "noPath"
      BY <3>3, PlanDoneIs
    <3>4. ASSUME NEW o \in Visions, FirstVision(o) \/ LookAround(o) PROVE mode' # "noPath"
      BY <3>4 DEF FirstVision, LookAround
    <3>5. ASSUME (\E s \in Starts : Acquire(s)) \/ AskCost \/ Proceed \/ Release PROVE mode' # "noPath"
      BY <3>5 DEF Acquire, AskCost, Proceed, Release
    <3> QED BY <1>2, <3>1, <3>2, <3>3, <3>4, <3>5 DEF OptimalStep
  <2> QED BY <2>1 DEF NoPathInv
<1> QED BY <1>1, <1>2

-----------------------------------------------------------------------------
(* The theorems about the answers and the steps.                            *)

LEMMA OptimalInit == ASSUME Init PROVE OptimalInv
<1>1. mode = "pooled" /\ objects = Clean /\ ~misled
  BY DEF Init
<1> QED BY <1>1 DEF OptimalInv, CostInv, PromisedInv, GoalInv, DoneInv, NoPathInv, Looked, Settled

LEMMA OptimalUnchanged == ASSUME OptimalInv, UNCHANGED vars PROVE OptimalInv'
<1>1. UNCHANGED <<mode, start, objects, changed, g, rhs, misled>>
  BY DEF vars, position, estimates, history
<1>2. CostInv' /\ PromisedInv' /\ GoalInv'
  BY <1>1 DEF OptimalInv, CostInv, PromisedInv, Promised, GoalInv, GoalLost
<1>3. DoneInv' /\ NoPathInv'
  BY <1>1 DEF OptimalInv, DoneInv, Served, Beyond, Ahead, Heuristic, NoPathInv
<1> QED BY <1>2, <1>3 DEF OptimalInv

(* If no portal is cheaper than the heuristic thinks: whenever a computation*)
(* has ended, every key up to the start's was served, a lost goal stays     *)
(* lost until the run gives up, and where it gives up there is no path, on  *)
(* every map and through any number of visions, repairs and steps.          *)
THEOREM Optimality == ASSUME PortalsFair PROVE Spec => []OptimalInv
<1>1. Init => OptimalInv
  BY OptimalInit
<1>2. PlannerInv /\ OptimalInv /\ [Next]_vars => OptimalInv'
  <2>1. ASSUME PlannerInv, OptimalInv, Next PROVE OptimalInv'
    <3>1. OptimalStep
      BY <2>1, NextIsOptimalStep
    <3>2. CostInv' /\ PromisedInv'
      BY <2>1, <3>1, CostStep, PromisedStep DEF OptimalInv
    <3>3. GoalInv' /\ DoneInv' /\ NoPathInv'
      BY <2>1, <3>1, GoalStep, DoneStep, NoPathStep
    <3> QED BY <3>2, <3>3 DEF OptimalInv
  <2> QED BY <2>1, OptimalUnchanged
<1> QED BY <1>1, <1>2, Invariance, PTL DEF Spec

(* If moreover no portal leads on from another's end but back: a run that   *)
(* gives up has no path over what it knows, and a request for the cost is   *)
(* answered with that of the cheapest path.                                 *)
THEOREM AnswersTrue == ASSUME PortalsFair, PortalsReturn PROVE Spec => []AnswersAreTrue
<1>1. PlannerInv /\ OptimalInv => AnswersAreTrue
  <2> SUFFICES ASSUME PlannerInv, OptimalInv PROVE AnswersAreTrue
    OBVIOUS
  <2>1. ASSUME mode = "answered" PROVE g[start] = Distance(objects)[start]
    <3>1. ~misled /\ start \in OpenCells(objects) /\ Goal \in OpenCells(objects) /\ rhs[Goal] = 0 /\ Served
      BY <2>1 DEF OptimalInv, CostInv, GoalInv, DoneInv
    <3>2. PlannerTypes /\ Hopeful /\ \A c \in Cells \ {Goal} : Promised(c)
      BY <2>1, <3>1, LookedIs DEF PlannerInv, Looked
    <3>3. g[start] = rhs[start] /\ Within(start, g[start], g[start], g[start])
      BY <3>1, <3>2, StartIsWithin DEF Served
    <3> QED BY <3>1, <3>2, <3>3, ServedIsDistance
  <2> QED BY <2>1 DEF OptimalInv, NoPathInv, AnswersAreTrue
<1> QED BY <1>1, Invariance, Optimality, PTL

(* Under the same conditions every step that the agent makes from a cell    *)
(* that is open is one of a cheapest path over what it knows.               *)
THEOREM StepsOptimal == ASSUME PortalsFair, PortalsReturn PROVE Spec => StepsAreOptimal
<1> DEFINE Optimal ==
      mode = "walking" /\ start' # start /\ ~misled /\ start \in OpenCells(objects) =>
        LET d == Distance(objects) IN d[start] = AddCost(Edge(objects, start, start'), d[start'])
<1>1. ASSUME PlannerInv, OptimalInv, [Next]_vars PROVE Optimal
  <2> SUFFICES ASSUME mode = "walking", start' # start, ~misled, start \in OpenCells(objects)
               PROVE  Distance(objects)[start] = AddCost(Edge(objects, start, start'), Distance(objects)[start'])
    OBVIOUS
  <2>1. PICK n \in Cells : TakeStep(n)
    <3>1. Next
      BY <1>1 DEF vars, position
    <3> QED BY <3>1 DEF Next, Acquire, FirstVision, LookAround, Expand, Planning, ApplyChange, AskCost, PlanDone,
                        ChangesApplied, Arrive, Cancelled, WalkOn, NoPath, StayHere, Release, position
  <2>2. start' = n /\ ~IsUnreachable(rhs[start])
    BY <2>1 DEF TakeStep
  <2>3. Leads(start, n) /\ rhs[start] = AddCost(Edge(objects, start, n), g[n])
    BY <1>1, <2>1, StepLeads
  <2>4. PlannerTypes /\ Served /\ start \in Cells
    BY <1>1 DEF PlannerInv, PlannerTypes, OptimalInv, DoneInv
  <2>5. rhs[Goal] = 0
    BY <1>1, <2>2, GoesOnToGoal
  <2>6. CASE Goal \in OpenCells(objects)
    <3>1. Hopeful /\ \A c \in Cells \ {Goal} : Promised(c)
      BY <1>1, LookedIs DEF Looked, Settled
    <3> QED BY <2>2, <2>3, <2>4, <2>5, <2>6, <3>1, StepIsOptimal
  <2>7. CASE Goal \notin OpenCells(objects)
    <3>1. Distance(objects)[start] = Unreachable /\ Distance(objects)[n] = Unreachable
      BY <2>4, <2>7 DEF Distance, Far
    <3>2. AddCost(Edge(objects, start, n), Unreachable) = Unreachable
      BY <2>4, EdgeIs, SumOfFar DEF PlannerTypes
    <3> QED BY <2>2, <3>1, <3>2
  <2> QED BY <2>6, <2>7
<1>2. PlannerInv /\ OptimalInv /\ [Next]_vars => Optimal
  BY <1>1
<1> QED BY <1>2, Invariance, Optimality, PTL DEF Spec, StepsAreOptimal
=============================================================================
