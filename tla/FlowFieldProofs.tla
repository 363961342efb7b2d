-------------------------- MODULE FlowFieldProofs ---------------------------
(***************************************************************************)
(* Proofs about FlowField: what is consistent between two rounds is the    *)
(* distance to an exit, and every replay of changes leads back to it.      *)
(***************************************************************************)
EXTENDS FlowField, FiniteSetTheorems, WellFoundedInduction, TLAPS

-----------------------------------------------------------------------------
(* Sums and edges.                                                          *)

Costs0 == [Cells -> 0..Unreachable]

LEMMA FarIs == Unreachable \in Nat \ {0} /\ Unreachable \in 0..Unreachable /\ Far \in Costs0
  BY CostsAssumption DEF Far, Costs0

LEMMA SumType ==
  ASSUME NEW a \in Nat, NEW b \in 0..Unreachable
  PROVE  /\ AddCost(a, b) \in 0..Unreachable
         /\ IsUnreachable(a) => AddCost(a, b) = Unreachable
  BY CostsAssumption DEF AddCost, IsUnreachable

LEMMA SumOfFar == ASSUME NEW a \in Nat PROVE AddCost(a, Unreachable) = Unreachable
  BY CostsAssumption DEF AddCost, IsUnreachable

LEMMA SumGrows ==
  ASSUME NEW a \in Nat, NEW b \in 0..Unreachable, NEW d \in Nat, NEW e \in 0..Unreachable, a <= d, b <= e
  PROVE  AddCost(a, b) <= AddCost(d, e)
  BY CostsAssumption DEF AddCost, IsUnreachable

(* A step costs something: what is within reach is farther than what it     *)
(* leads to.                                                                *)
LEMMA SumExceeds ==
  ASSUME NEW a \in Nat \ {0}, NEW b \in 0..Unreachable
  PROVE  /\ AddCost(a, b) # 0
         /\ AddCost(a, b) < Unreachable => b < AddCost(a, b)
  BY CostsAssumption DEF AddCost, IsUnreachable

LEMMA ValueType ==
  ASSUME NEW objs \in [Cells -> Nat], NEW c \in Cells
  PROVE  /\ Value(objs, c) \in 0..Unreachable
         /\ Base[c] # 0 => Value(objs, c) > 0
  BY CostsAssumption DEF Value, AddCost, IsUnreachable

LEMMA EdgeType ==
  ASSUME NEW a \in Cells, NEW b \in Cells, NEW v \in 0..Unreachable
  PROVE  Enter(a, b, v) \in Nat \ {0} /\ OldEdge(a, b, v) \in Nat \ {0}
<1>1. <<a, b>> \in DOMAIN Portal => Portal[<<a, b>>] \in Nat \ {0}
  BY CostsAssumption
<1>2. ~IsBlocked(v) => v \in Nat \ {0} /\ DiagonalCost(v) \in Nat \ {0}
  BY CostsAssumption DEF IsBlocked, IsUnreachable, DiagonalCost
<1>3. Enter(a, b, v) \in Nat \ {0}
  BY <1>2, CostsAssumption DEF Enter
<1> QED BY <1>1, <1>3, CostsAssumption DEF OldEdge

(* The step from a to b if the cells cost what val says.                    *)
EdgeFor(val, a, b) ==
  IF <<a, b>> \in DOMAIN Portal THEN Portal[<<a, b>>]
  ELSE IF Adjacent(a, b) /\ ~IsBlocked(val[a]) THEN Enter(a, b, val[b])
  ELSE Unreachable

ValuesOf(objs) == [s \in Cells |-> Value(objs, s)]

LEMMA ValuesType == ASSUME NEW objs \in [Cells -> Nat] PROVE ValuesOf(objs) \in Costs0
  BY ValueType DEF ValuesOf, Costs0

LEMMA EdgeForType ==
  ASSUME NEW val \in Costs0, NEW a \in Cells, NEW b \in Cells
  PROVE  /\ EdgeFor(val, a, b) \in Nat \ {0}
         /\ \/ EdgeFor(val, a, b) = OldEdge(a, b, val[b])
            \/ EdgeFor(val, a, b) = Unreachable
<1>1. val[b] \in 0..Unreachable
  BY DEF Costs0
<1>2. OldEdge(a, b, val[b]) \in Nat \ {0}
  BY <1>1, EdgeType
<1>3. EdgeFor(val, a, b) = OldEdge(a, b, val[b]) \/ EdgeFor(val, a, b) = Unreachable
  BY DEF EdgeFor, OldEdge
<1> QED BY <1>2, <1>3, CostsAssumption

LEMMA EdgeIs ==
  ASSUME NEW objs \in [Cells -> Nat], NEW a \in Cells, NEW b \in Cells
  PROVE  Edge(objs, a, b) = EdgeFor(ValuesOf(objs), a, b) /\ Edge(objs, a, b) \in Nat \ {0}
<1>1. Edge(objs, a, b) = EdgeFor(ValuesOf(objs), a, b)
  BY DEF Edge, EdgeFor, ValuesOf
<1> QED BY <1>1, ValuesType, EdgeForType

-----------------------------------------------------------------------------
(* What each successor of c promises, if the cells cost what val says, and  *)
(* that r is the best of it.                                                *)

Row(val, gs, c) == [s \in Cells |-> AddCost(EdgeFor(val, c, s), gs[s])]

Best(r, row) == /\ \A s \in Cells : r <= row[s]
                /\ r = Unreachable \/ \E s \in Cells : r = row[s]

LEMMA RowType ==
  ASSUME NEW val \in Costs0, NEW gs \in Costs0, NEW c \in Cells
  PROVE  Row(val, gs, c) \in Costs0
<1>1. \A s \in Cells : EdgeFor(val, c, s) \in Nat
  BY EdgeForType
<1>2. \A s \in Cells : AddCost(EdgeFor(val, c, s), gs[s]) \in 0..Unreachable
  BY <1>1, SumType DEF Costs0
<1> QED BY <1>2 DEF Row, Costs0

LEMMA LeastOf ==
  ASSUME NEW S, S \subseteq Nat, S # {}
  PROVE  /\ Min(S) \in S /\ \A n \in S : Min(S) <= n
<1> DEFINE R == {p \in Nat \X Nat : p[1] < p[2]}
<1>1. IsWellFoundedOn(R, Nat)
  BY NatLessThanWellFounded DEF OpToRel
<1>2. PICK m \in S : \A n \in S : ~(<<n, m>> \in R)
  <2> HIDE DEF R
  <2> QED BY <1>1, WFMin
<1>3. \A n \in S : ~(n < m)
  BY <1>2
<1> HIDE DEF R
<1>4. \E x \in S : \A n \in S : x <= n
  BY <1>3
<1> QED BY <1>4, Zenon DEF Min

(* What LookAhead computes.                                                 *)
LEMMA LookAheadIs ==
  ASSUME NEW objs \in [Cells -> Nat], NEW gs \in Costs0, NEW c \in Cells
  PROVE  /\ LookAhead(objs, gs, c) \in 0..Unreachable
         /\ Best(LookAhead(objs, gs, c), Row(ValuesOf(objs), gs, c))
<1> DEFINE S == {AddCost(Edge(objs, c, s), gs[s]) : s \in Cells} \cup {Unreachable}
           row == Row(ValuesOf(objs), gs, c)
<1>1. row \in Costs0
  BY RowType, ValuesType
<1>2. \A s \in Cells : row[s] = AddCost(Edge(objs, c, s), gs[s])
  BY EdgeIs DEF Row
<1>3. \A s \in Cells : row[s] \in 0..Unreachable
  <2> HIDE DEF row
  <2> QED BY <1>1 DEF Costs0
<1>4. S = {row[s] : s \in Cells} \cup {Unreachable}
  <2> HIDE DEF row
  <2> QED BY <1>2
<1>5. LookAhead(objs, gs, c) = Min(S)
  BY DEF LookAhead
<1> HIDE DEF S, row
<1>6. S \subseteq 0..Unreachable /\ S \subseteq Nat /\ S # {}
  BY <1>3, <1>4, FarIs
<1>7. Min(S) \in S /\ \A n \in S : Min(S) <= n
  BY <1>6, LeastOf
<1>8. Best(Min(S), row)
  BY <1>4, <1>7 DEF Best
<1> QED BY <1>5, <1>6, <1>7, <1>8 DEF row

LEMMA BestIsUnique ==
  ASSUME NEW row \in Costs0, NEW r \in 0..Unreachable, NEW q \in 0..Unreachable, Best(r, row), Best(q, row)
  PROVE  r = q
  BY CostsAssumption DEF Best, Costs0

(* A row that promises nowhere more has no worse best.                      *)
LEMMA BestGrows ==
  ASSUME NEW row \in Costs0, NEW dear \in Costs0, NEW r \in 0..Unreachable, NEW q \in 0..Unreachable,
         Best(r, row), Best(q, dear), \A s \in Cells : row[s] <= dear[s]
  PROVE  r <= q
  BY CostsAssumption DEF Best, Costs0

(* A successor promises less, or more.                                      *)
LEMMA BestLower ==
  ASSUME NEW row \in Costs0, NEW r \in 0..Unreachable, Best(r, row), NEW u \in Cells, NEW x \in 0..row[u]
  PROVE  Best(Smaller(r, x), [row EXCEPT ![u] = x])
<1> row[u] \in 0..Unreachable
  BY DEF Costs0
<1>1. CASE r <= x
  BY <1>1, CostsAssumption DEF Best, Costs0, Smaller
<1>2. CASE x < r
  BY <1>2, CostsAssumption DEF Best, Costs0, Smaller
<1> QED BY <1>1, <1>2, CostsAssumption

LEMMA BestRaise ==
  ASSUME NEW row \in Costs0, NEW r \in 0..Unreachable, Best(r, row), NEW u \in Cells, NEW x \in 0..Unreachable,
         row[u] <= x, r # row[u] \/ row[u] = x
  PROVE  Best(r, [row EXCEPT ![u] = x])
  BY CostsAssumption DEF Best, Costs0

-----------------------------------------------------------------------------
(* The distance: what DistanceWithin defines by recursion.                  *)

(* A set that holds 0 and all successors of its members has every number.   *)
LEMMA Induction ==
  ASSUME NEW T, T \subseteq Nat, 0 \in T, \A n \in T : n + 1 \in T
  PROVE  Nat \subseteq T
<1> SUFFICES ASSUME Nat \ T # {} PROVE FALSE
  OBVIOUS
<1>1. Min(Nat \ T) \in Nat \ T /\ \A n \in Nat \ T : Min(Nat \ T) <= n
  BY LeastOf
<1> DEFINE m == Min(Nat \ T)
<1> HIDE DEF m
<1>2. m \in Nat \ T /\ \A n \in Nat \ T : m <= n
  BY <1>1 DEF m
<1>3. m - 1 \in T
  BY <1>2
<1> QED BY <1>2, <1>3

(* One step more.                                                           *)
Longer(objs, ds) == [c \in Cells |-> IF c # FakeGoal THEN LookAhead(objs, ds, c) ELSE ds[c]]

Nearest == [Far EXCEPT ![FakeGoal] = 0]

(* f holds the distances by paths of up to n steps.                         *)
Unfolds(objs, n, f) ==
  f = [m \in 0..n |-> IF m = 0 THEN Nearest ELSE Longer(objs, f[m - 1])]

LEMMA UnfoldsExists == ASSUME NEW objs PROVE \A n \in Nat : \E f : Unfolds(objs, n, f)
<1> DEFINE T == {n \in Nat : \E f : Unfolds(objs, n, f)}
<1>1. 0 \in T
  <2> DEFINE f == [m \in 0..0 |-> Nearest]
  <2>1. f = [m \in 0..0 |-> IF m = 0 THEN Nearest ELSE Longer(objs, f[m - 1])]
    OBVIOUS
  <2>2. Unfolds(objs, 0, f)
    BY <2>1 DEF Unfolds
  <2> QED BY <2>2
<1>2. ASSUME NEW n \in T PROVE n + 1 \in T
  <2>1. n \in Nat /\ \E f : Unfolds(objs, n, f)
    BY <1>2
  <2>2. PICK f : Unfolds(objs, n, f)
    BY <2>1
  <2>3. \A m \in 0..n : f[m] = IF m = 0 THEN Nearest ELSE Longer(objs, f[m - 1])
    BY <2>2 DEF Unfolds
  <2> DEFINE h == [m \in 0..n + 1 |-> IF m = n + 1 THEN Longer(objs, f[n]) ELSE f[m]]
  <2>4. \A m \in 0..n + 1 : h[m] = IF m = 0 THEN Nearest ELSE Longer(objs, h[m - 1])
    <3> SUFFICES ASSUME NEW m \in 0..n + 1 PROVE h[m] = IF m = 0 THEN Nearest ELSE Longer(objs, h[m - 1])
      OBVIOUS
    <3>1. CASE m = n + 1
      <4>1. h[m] = Longer(objs, f[n]) /\ h[m - 1] = f[n] /\ m # 0
        BY <2>1, <3>1
      <4> QED BY <4>1
    <3>2. CASE m # n + 1 /\ m # 0
      <4>1. m \in 0..n /\ m - 1 \in 0..n + 1 /\ m - 1 # n + 1
        BY <2>1, <3>2
      <4>2. h[m] = f[m] /\ h[m - 1] = f[m - 1] /\ f[m] = Longer(objs, f[m - 1])
        BY <2>3, <3>2, <4>1
      <4> QED BY <3>2, <4>2
    <3>3. CASE m # n + 1 /\ m = 0
      BY <2>1, <2>3, <3>3
    <3> QED BY <3>1, <3>2, <3>3
  <2>5. h = [m \in 0..n + 1 |-> IF m = 0 THEN Nearest ELSE Longer(objs, h[m - 1])]
    <3>1. h = [m \in 0..n + 1 |-> h[m]]
      OBVIOUS
    <3> HIDE DEF h
    <3> QED BY <2>4, <3>1
  <2>6. Unfolds(objs, n + 1, h)
    BY <2>5 DEF Unfolds
  <2> HIDE DEF h
  <2> QED BY <2>1, <2>6
<1> HIDE DEF T
<1>3. Nat \subseteq T
  <2>1. T \subseteq Nat
    BY DEF T
  <2> QED BY <1>1, <1>2, <2>1, Induction
<1> QED BY <1>3 DEF T

(* The recursion has a solution, and its last value is the distance.        *)
LEMMA DistanceIs ==
  ASSUME NEW objs
  PROVE  \E f : /\ f[0] = Nearest
                /\ \A m \in 1..Cardinality(Cells) : f[m] = Longer(objs, f[m - 1])
                /\ Distance(objs) = f[Cardinality(Cells)]
<1> DEFINE N == Cardinality(Cells)
           Body(f) == [n \in 0..N |->
             IF n = 0 THEN Nearest
             ELSE IF [c \in Cells |-> IF c \in Cells \ {FakeGoal}
                                      THEN LookAhead(objs, f[n - 1], c) ELSE f[n - 1][c]] = f[n - 1]
                  THEN f[n - 1]
                  ELSE [c \in Cells |-> IF c \in Cells \ {FakeGoal}
                                        THEN LookAhead(objs, f[n - 1], c) ELSE f[n - 1][c]]]
           d == CHOOSE f : f = Body(f)
<1>1. Distance(objs) = d[N]
  BY DEF Distance, DistanceWithin, Nearest
<1>2. N \in Nat
  BY CostsAssumption, FS_CardinalityType
<1>3. ASSUME NEW ds
      PROVE  [c \in Cells |-> IF c \in Cells \ {FakeGoal} THEN LookAhead(objs, ds, c) ELSE ds[c]] = Longer(objs, ds)
  BY DEF Longer
<1>4. ASSUME NEW f PROVE Body(f) = [m \in 0..N |-> IF m = 0 THEN Nearest ELSE Longer(objs, f[m - 1])]
  BY <1>3
<1> HIDE DEF N, Body
<1>5. \E f : f = Body(f)
  <2>1. PICK f : Unfolds(objs, N, f)
    BY <1>2, UnfoldsExists
  <2>2. f = Body(f)
    BY <1>4, <2>1 DEF Unfolds
  <2> QED BY <2>2
<1>6. d = Body(d)
  BY <1>5
<1> HIDE DEF d
<1>7. d = [m \in 0..N |-> IF m = 0 THEN Nearest ELSE Longer(objs, d[m - 1])]
  BY <1>4, <1>6
<1>8. d[0] = Nearest /\ \A m \in 1..N : d[m] = Longer(objs, d[m - 1])
  BY <1>2, <1>7
<1> QED BY <1>1, <1>8 DEF N

(* Each is what its successors promise, and the goal is at the goal.        *)
Consistent(objs, gs) ==
  gs[FakeGoal] = 0 /\ \A c \in Cells \ {FakeGoal} : gs[c] = LookAhead(objs, gs, c)

LEMMA LongerType ==
  ASSUME NEW objs \in [Cells -> Nat], NEW ds \in Costs0
  PROVE  Longer(objs, ds) \in Costs0 /\ Longer(objs, ds)[FakeGoal] = ds[FakeGoal]
<1>1. \A c \in Cells : LookAhead(objs, ds, c) \in 0..Unreachable
  BY LookAheadIs
<1> QED BY <1>1, FlowFieldAssumption DEF Longer, Costs0

LEMMA LookAheadGrows ==
  ASSUME NEW objs \in [Cells -> Nat], NEW ds \in Costs0, NEW es \in Costs0, NEW c \in Cells,
         \A s \in Cells : ds[s] <= es[s]
  PROVE  LookAhead(objs, ds, c) <= LookAhead(objs, es, c)
<1>1. /\ Row(ValuesOf(objs), ds, c) \in Costs0 /\ Row(ValuesOf(objs), es, c) \in Costs0
      /\ \A s \in Cells : EdgeFor(ValuesOf(objs), c, s) \in Nat
  BY RowType, ValuesType, EdgeForType
<1>2. ASSUME NEW s \in Cells PROVE Row(ValuesOf(objs), ds, c)[s] <= Row(ValuesOf(objs), es, c)[s]
  <2>1. AddCost(EdgeFor(ValuesOf(objs), c, s), ds[s]) <= AddCost(EdgeFor(ValuesOf(objs), c, s), es[s])
    BY <1>1, SumGrows DEF Costs0
  <2> QED BY <2>1 DEF Row
<1> QED BY <1>1, <1>2, LookAheadIs, BestGrows

(* No path is shorter than what is consistent.                              *)
LEMMA ConsistentIsBelow ==
  ASSUME NEW objs \in [Cells -> Nat], NEW gs \in Costs0, Consistent(objs, gs),
         NEW N \in Nat, NEW f, f[0] = Nearest, \A m \in 1..N : f[m] = Longer(objs, f[m - 1])
  PROVE  \A n \in 0..N : f[n] \in Costs0 /\ f[n][FakeGoal] = 0 /\ \A c \in Cells : gs[c] <= f[n][c]
<1> DEFINE Below(ds) == ds \in Costs0 /\ ds[FakeGoal] = 0 /\ \A c \in Cells : gs[c] <= ds[c]
           T == {n \in Nat : n <= N => Below(f[n])}
<1>1. Below(Nearest)
  <2>1. Nearest \in Costs0 /\ Nearest[FakeGoal] = 0
    BY FarIs, FlowFieldAssumption DEF Nearest, Costs0
  <2>2. \A c \in Cells : gs[c] <= Nearest[c]
    BY FarIs DEF Nearest, Far, Consistent, Costs0
  <2> QED BY <2>1, <2>2
<1>2. ASSUME NEW ds, Below(ds) PROVE Below(Longer(objs, ds))
  <2>1. Longer(objs, ds) \in Costs0 /\ Longer(objs, ds)[FakeGoal] = 0
    BY <1>2, LongerType
  <2>2. \A c \in Cells : LookAhead(objs, gs, c) <= LookAhead(objs, ds, c)
    BY <1>2, LookAheadGrows
  <2>3. \A c \in Cells : gs[c] <= Longer(objs, ds)[c]
    BY <1>2, <2>2 DEF Longer, Consistent
  <2> QED BY <2>1, <2>3
<1> HIDE DEF Below
<1>3. 0 \in T
  BY <1>1
<1>4. ASSUME NEW n \in T PROVE n + 1 \in T
  <2>1. CASE n + 1 <= N
    <3>1. Below(f[n]) /\ f[n + 1] = Longer(objs, f[n])
      BY <1>4, <2>1
    <3> QED BY <1>2, <3>1
  <2>2. CASE ~(n + 1 <= N)
    BY <2>2
  <2> QED BY <2>1, <2>2
<1>5. Nat \subseteq T
  <2>1. T \subseteq Nat
    OBVIOUS
  <2> HIDE DEF T
  <2> QED BY <1>3, <1>4, <2>1, Induction
<1>6. \A n \in 0..N : Below(f[n])
  BY <1>5
<1> QED BY <1>6 DEF Below

(* The cells that are nearer than c; their number bounds the length of the  *)
(* cheapest path from c.                                                    *)
Nearer(gs, c) == {s \in Cells : gs[s] < gs[c]}
Rank(gs, c) == Cardinality(Nearer(gs, c))

LEMMA RankIs ==
  ASSUME NEW gs \in Costs0, NEW c \in Cells
  PROVE  /\ Rank(gs, c) \in Nat /\ Rank(gs, c) <= Cardinality(Cells)
         /\ \A s \in Nearer(gs, c) : Rank(gs, s) < Rank(gs, c)
<1>1. IsFiniteSet(Cells) /\ Nearer(gs, c) \in SUBSET Cells
  BY CostsAssumption DEF Nearer
<1>2. /\ IsFiniteSet(Nearer(gs, c)) /\ Rank(gs, c) \in Nat /\ Cardinality(Cells) \in Nat
      /\ Rank(gs, c) <= Cardinality(Cells)
  BY <1>1, FS_Subset, FS_CardinalityType DEF Rank
<1>3. ASSUME NEW s \in Nearer(gs, c) PROVE Rank(gs, s) < Rank(gs, c)
  <2>1. Nearer(gs, s) \in SUBSET Nearer(gs, c) /\ Nearer(gs, s) # Nearer(gs, c)
    BY FarIs DEF Nearer, Costs0
  <2>2. /\ Rank(gs, s) \in Nat /\ Rank(gs, s) <= Rank(gs, c)
        /\ Rank(gs, s) # Rank(gs, c)
    BY <1>2, <2>1, FS_Subset, FS_CardinalityType DEF Rank
  <2> QED BY <1>2, <2>2
<1> QED BY <1>2, <1>3

(* As long as it is within reach, a consistent cell has a path of its cost. *)
LEMMA ConsistentIsReached ==
  ASSUME NEW objs \in [Cells -> Nat], NEW gs \in Costs0, Consistent(objs, gs),
         NEW N \in Nat, NEW f, f[0] = Nearest, \A m \in 1..N : f[m] = Longer(objs, f[m - 1]),
         \A n \in 0..N : f[n] \in Costs0 /\ f[n][FakeGoal] = 0
  PROVE  \A n \in 0..N : \A c \in Cells : Rank(gs, c) <= n => f[n][c] <= gs[c]
<1> DEFINE Reached(n) == \A c \in Cells : Rank(gs, c) <= n => f[n][c] <= gs[c]
           T == {n \in Nat : n <= N => Reached(n)}
<1>0. \A c \in Cells : gs[c] \in 0..Unreachable /\ Rank(gs, c) \in Nat
  <2>1. \A c \in Cells : Rank(gs, c) \in Nat
    BY RankIs
  <2> QED BY <2>1 DEF Costs0
<1>1. ASSUME NEW c \in Cells \ {FakeGoal}, gs[c] # Unreachable
      PROVE  \E s \in Nearer(gs, c) : gs[c] = AddCost(Edge(objs, c, s), gs[s])
  <2>1. Best(gs[c], Row(ValuesOf(objs), gs, c))
    BY LookAheadIs DEF Consistent
  <2>2. PICK s \in Cells : gs[c] = AddCost(Edge(objs, c, s), gs[s])
    BY <1>1, <2>1, EdgeIs DEF Best, Row
  <2>3. Edge(objs, c, s) \in Nat \ {0} /\ AddCost(Edge(objs, c, s), gs[s]) < Unreachable
    BY <1>0, <1>1, <2>2, EdgeIs, FarIs
  <2>4. gs[s] < gs[c]
    BY <1>0, <2>2, <2>3, SumExceeds
  <2> QED BY <2>2, <2>4 DEF Nearer
<1>2. ASSUME NEW n \in 0..N, NEW c \in Cells, Rank(gs, c) <= n, n # 0 => Reached(n - 1)
      PROVE  f[n][c] <= gs[c]
  <2>1. CASE c = FakeGoal
    BY <1>0, <2>1, FlowFieldAssumption
  <2>2. CASE c # FakeGoal /\ gs[c] = Unreachable
    BY <2>2, FarIs DEF Costs0
  <2>3. CASE c # FakeGoal /\ gs[c] # Unreachable
    <3>1. PICK s \in Nearer(gs, c) : gs[c] = AddCost(Edge(objs, c, s), gs[s])
      BY <1>1, <2>3
    <3>2. Rank(gs, s) < Rank(gs, c) /\ s \in Cells
      BY RankIs DEF Nearer
    <3>3. n \in 1..N /\ n - 1 \in 0..N /\ Rank(gs, s) <= n - 1
      BY <1>0, <1>2, <3>2
    <3>4. f[n - 1][s] <= gs[s] /\ f[n - 1] \in Costs0
      BY <1>2, <3>2, <3>3
    <3>5. f[n][c] = LookAhead(objs, f[n - 1], c)
      BY <2>3, <3>3 DEF Longer
    <3>6. /\ LookAhead(objs, f[n - 1], c) <= AddCost(Edge(objs, c, s), f[n - 1][s])
          /\ LookAhead(objs, f[n - 1], c) \in 0..Unreachable
      BY <3>2, <3>4, LookAheadIs, EdgeIs DEF Best, Row
    <3>7. /\ AddCost(Edge(objs, c, s), f[n - 1][s]) <= AddCost(Edge(objs, c, s), gs[s])
          /\ AddCost(Edge(objs, c, s), f[n - 1][s]) \in 0..Unreachable
      <4>1. Edge(objs, c, s) \in Nat /\ f[n - 1][s] \in 0..Unreachable /\ gs[s] \in 0..Unreachable
        BY <1>0, <3>2, <3>4, EdgeIs DEF Costs0
      <4> QED BY <3>4, <4>1, SumGrows, SumType
    <3> QED BY <1>0, <3>1, <3>5, <3>6, <3>7, FarIs
  <2> QED BY <2>1, <2>2, <2>3
<1>3. 0 \in T
  <2>1. 0 \in 0..N
    OBVIOUS
  <2>2. Reached(0)
    BY <1>2, <2>1
  <2> QED BY <2>2
<1>4. ASSUME NEW n \in T PROVE n + 1 \in T
  <2>1. CASE n + 1 <= N
    <3>1. n + 1 \in 0..N /\ Reached((n + 1) - 1)
      BY <1>4, <2>1
    <3> QED BY <1>2, <3>1
  <2>2. CASE ~(n + 1 <= N)
    BY <2>2
  <2> QED BY <2>1, <2>2
<1>5. Nat \subseteq T
  <2>1. T \subseteq Nat
    OBVIOUS
  <2> HIDE DEF T
  <2> QED BY <1>3, <1>4, <2>1, Induction
<1>6. \A n \in 0..N : Reached(n)
  BY <1>5
<1> QED BY <1>6

(* Whatever is consistent is the distance.                                  *)
LEMMA ConsistentIsDistance ==
  ASSUME NEW objs \in [Cells -> Nat], NEW gs \in Costs0, Consistent(objs, gs)
  PROVE  gs = Distance(objs)
<1> DEFINE N == Cardinality(Cells)
<1>1. PICK f : /\ f[0] = Nearest /\ \A m \in 1..N : f[m] = Longer(objs, f[m - 1])
               /\ Distance(objs) = f[N]
  BY DistanceIs
<1>2. N \in Nat /\ N \in 0..N
  BY CostsAssumption, FS_CardinalityType
<1> HIDE DEF N
<1>3. \A n \in 0..N : f[n] \in Costs0 /\ f[n][FakeGoal] = 0 /\ \A c \in Cells : gs[c] <= f[n][c]
  BY <1>1, <1>2, ConsistentIsBelow
<1>4. \A n \in 0..N : \A c \in Cells : Rank(gs, c) <= n => f[n][c] <= gs[c]
  BY <1>1, <1>2, <1>3, ConsistentIsReached
<1>5. ASSUME NEW c \in Cells PROVE gs[c] = f[N][c]
  <2>1. Rank(gs, c) <= N
    BY RankIs DEF N
  <2>2. gs[c] \in 0..Unreachable /\ f[N][c] \in 0..Unreachable /\ gs[c] <= f[N][c] /\ f[N][c] <= gs[c]
    BY <1>2, <1>3, <1>4, <2>1 DEF Costs0
  <2> QED BY <2>2, FarIs
<1>6. gs = f[N]
  BY <1>2, <1>3, <1>5 DEF Costs0
<1> QED BY <1>1, <1>6

-----------------------------------------------------------------------------
(* The invariant.                                                           *)

Modes == {"off", "starting", "planning", "signaling", "waiting", "repairing"}

(* The planner has a plan, or makes it, on the costs it has used.           *)
Settled == {"planning", "signaling", "waiting"}

FlowTypes ==
  /\ mode \in Modes /\ misled \in BOOLEAN
  /\ objects \in [Cells -> Nat] /\ changed \in [Cells -> 0..Unreachable \cup {Unrecorded}]
  /\ g \in Costs0 /\ rhs \in Costs0 /\ used \in Costs0
  /\ queue \in [Cells -> 0..Unreachable \cup {Unqueued}]
  /\ oldG \in [Lights -> 0..Unreachable] /\ touched \subseteq Cells \X (0..Unreachable)

Recorded(ch) == {s \in Cells : ch[s] # Unrecorded}

(* Only cells of the map are recorded, and what is recorded before a round  *)
(* is not what the planner has used for the cell.                           *)
RecordInv ==
  /\ \A c \in Recorded(changed) : Base[c] # 0
  /\ \A c \in Cells \ Movable : objects[c] = 0
  /\ mode = "starting" => changed = NoRecord /\ touched = {}
  /\ mode \in Settled => \A c \in Recorded(changed) : changed[c] # used[c]

(* Exactly what is inconsistent is queued, and the fake goal is the goal.   *)
QueueInv ==
  /\ \A c \in Cells : queue[c] = Unqueued <=> g[c] = rhs[c]
  /\ mode \in {"signaling", "waiting"} => g = rhs
  /\ mode = "starting" => g = Far /\ \A c \in Cells \ {FakeGoal} : rhs[c] = Unreachable
  /\ mode # "off" => rhs[FakeGoal] = 0

(* The costs of the cells that c still assumes while changes are replayed:  *)
(* the ones used before for the cells of N.                                 *)
Mixed(N, old, objs) == [s \in Cells |-> IF s \in N THEN old[s] ELSE Value(objs, s)]

UsedInv ==
  /\ mode \in Settled => used = ValuesOf(objects)
  /\ mode = "repairing" => \A c \in Cells \ Recorded(changed) : used[c] = Value(objects, c)

FollowInv ==
  ~misled =>
    /\ mode \in Settled => \A c \in Cells \ {FakeGoal} : Best(rhs[c], Row(ValuesOf(objects), g, c))
    /\ mode = "repairing" =>
         \A c \in Cells \ ({FakeGoal} \cup Recorded(changed)) :
           \E N \in SUBSET Recorded(changed) : Best(rhs[c], Row(Mixed(N, used, objects), g, c))

(* The lights that will have to be looked at when the round is over.        *)
LightsInv ==
  /\ mode = "repairing" => \A l \in Lights \cap Recorded(changed) : changed[l] = used[l] => l \in outdated
  /\ mode \in {"repairing", "planning", "signaling"} /\ ~misled => LightsNearChanges \subseteq outdated
  /\ LightsNearChangesFollow

FlowInv == FlowTypes /\ RecordInv /\ QueueInv /\ UsedInv /\ FollowInv /\ LightsInv

-----------------------------------------------------------------------------
(* What the actions do.                                                     *)

GoOn == /\ \/ mode = "planning" /\ mode' = "signaling" /\ Queued = {}
           \/ mode = "repairing" /\ mode' = "planning" /\ changed = NoRecord
        /\ UNCHANGED <<objects, changed, estimates, lights, history>>

FlowStep ==
  \/ \E o \in Sights : FirstLook(o) \/ Tick(o)
  \/ \E u \in Cells : Expand(u) \/ ApplyChange(u)
  \/ \E F \in SUBSET Lights : UpdateSignaling(F)
  \/ Launch \/ GoOn \/ Quit \/ UNCHANGED vars

LEMMA NextIs == ASSUME [Next]_vars PROVE FlowStep
<1>1. ASSUME PlanDone \/ ChangesApplied PROVE GoOn
  BY <1>1 DEF PlanDone, ChangesApplied, GoOn
<1>2. ASSUME RefuseLaunch PROVE UNCHANGED vars
  BY <1>2 DEF RefuseLaunch
<1> QED BY <1>1, <1>2 DEF Next, Compute, FlowStep

(* A look: what is still not recorded costs the same; what is recorded now  *)
(* has changed, and its light is outdated.                                  *)
LEMMA LookIs ==
  ASSUME FlowTypes, RecordInv, NEW o \in Sights, Look(o) \/ LookFails
  PROVE  /\ objects' \in [Cells -> Nat] /\ \A c \in Cells \ Movable : objects'[c] = 0
         /\ changed' \in [Cells -> 0..Unreachable \cup {Unrecorded}]
         /\ \A c \in Cells \ Recorded(changed') : c \notin Recorded(changed) /\ Value(objects', c) = Value(objects, c)
         /\ \A c \in Recorded(changed') :
              /\ Base[c] # 0
              /\ \/ c \in Recorded(changed) /\ changed'[c] = changed[c]
                 \/ /\ c \notin Recorded(changed) /\ changed'[c] = Value(objects, c)
                    /\ Value(objects', c) # Value(objects, c)
                    /\ c \in Lights => c \in outdated'
         /\ outdated \subseteq outdated'
<1>0. /\ objects \in [Cells -> Nat] /\ changed \in [Cells -> 0..Unreachable \cup {Unrecorded}]
      /\ \A c \in Cells : Value(objects, c) \in 0..Unreachable
      /\ \A v \in 0..Unreachable : v # Unrecorded
      /\ \A c \in Cells \ Movable : objects[c] = 0
  <2>1. \A v \in 0..Unreachable : v # Unrecorded
    BY FlowFieldAssumption, CostsAssumption
  <2> QED BY <2>1, ValueType DEF FlowTypes, RecordInv
<1>1. CASE Look(o)
  <2> DEFINE S == {c \in DOMAIN o : Value(o, c) # Value(objects, c)}
             fresh == {c \in S : changed[c] = Unrecorded}
  <2>1. DOMAIN o = Movable /\ Movable \subseteq Cells /\ \A c \in Movable : o[c] \in Nat
    BY FlowFieldAssumption
  <2>2. /\ objects' = [c \in Cells |-> IF c \in Movable THEN o[c] ELSE 0]
        /\ changed' = [c \in Cells |-> IF c \in fresh THEN Value(objects, c) ELSE changed[c]]
        /\ outdated' = outdated \cup (fresh \cap Lights)
    BY <1>1, <2>1 DEF Look
  <2>3. ASSUME NEW c \in Cells
        PROVE  /\ c \in S => Value(objects', c) # Value(objects, c) /\ Base[c] # 0
               /\ c \notin S => Value(objects', c) = Value(objects, c)
    <3>1. CASE c \in Movable
      BY <2>1, <2>2, <3>1 DEF Value
    <3>2. CASE c \notin Movable
      BY <1>0, <2>1, <2>2, <3>2 DEF Value
    <3> QED BY <3>1, <3>2
  <2>4. fresh = {c \in S : changed[c] = Unrecorded} /\ S \subseteq Cells
    BY <2>1
  <2> HIDE DEF S, fresh
  <2>5. objects' \in [Cells -> Nat] /\ \A c \in Cells \ Movable : objects'[c] = 0
    BY <2>1, <2>2
  <2>6. changed' \in [Cells -> 0..Unreachable \cup {Unrecorded}]
    BY <1>0, <2>2
  <2>7. ASSUME NEW c \in Cells \ Recorded(changed')
        PROVE  c \notin Recorded(changed) /\ Value(objects', c) = Value(objects, c)
    BY <1>0, <2>2, <2>3, <2>4 DEF Recorded
  <2>8. ASSUME NEW c \in Recorded(changed')
        PROVE  /\ Base[c] # 0
               /\ \/ c \in Recorded(changed) /\ changed'[c] = changed[c]
                  \/ /\ c \notin Recorded(changed) /\ changed'[c] = Value(objects, c)
                     /\ Value(objects', c) # Value(objects, c)
                     /\ c \in Lights => c \in outdated'
    <3>1. CASE c \in fresh
      BY <2>2, <2>3, <2>4, <3>1 DEF Recorded
    <3>2. CASE c \notin fresh
      BY <2>2, <3>2 DEF Recorded, RecordInv
    <3> QED BY <3>1, <3>2
  <2> QED BY <2>2, <2>5, <2>6, <2>7, <2>8
<1>2. CASE LookFails
  BY <1>0, <1>2 DEF LookFails, RecordInv
<1> QED BY <1>1, <1>2

-----------------------------------------------------------------------------
(* The estimates and the queue.                                             *)

EstimateTypes ==
  /\ g \in Costs0 /\ rhs \in Costs0
  /\ queue \in [Cells -> 0..Unreachable \cup {Unqueued}]

QueueHolds == \A c \in Cells : queue[c] = Unqueued <=> g[c] = rhs[c]

(* updateVertex leaves exactly the inconsistent cells of those it updates   *)
(* in the queue; the others have not changed.                               *)
LEMMA UpdateIs ==
  ASSUME FlowTypes, QueueHolds, NEW S, NEW gs \in Costs0, NEW rs \in Costs0,
         \A c \in Cells \ S : gs[c] = g[c] /\ rs[c] = rhs[c], Update(S, gs, rs)
  PROVE  g' = gs /\ rhs' = rs /\ EstimateTypes' /\ QueueHolds'
<1>1. g' = gs /\ rhs' = rs
  BY DEF Update
<1>2. /\ queue \in [Cells -> 0..Unreachable \cup {Unqueued}]
      /\ \A c \in Cells : Key(gs[c], rs[c]) \in 0..Unreachable /\ Key(gs[c], rs[c]) # Unqueued
  <2>1. \A c \in Cells : Key(gs[c], rs[c]) \in 0..Unreachable
    BY DEF Key, Smaller, Costs0
  <2> QED BY <2>1, FlowFieldAssumption, CostsAssumption DEF FlowTypes
<1>3. queue' = [c \in Cells |-> IF c \notin S THEN queue[c]
                                ELSE IF gs[c] # rs[c] THEN Key(gs[c], rs[c]) ELSE Unqueued]
  BY DEF Update
<1>4. queue' \in [Cells -> 0..Unreachable \cup {Unqueued}]
  BY <1>2, <1>3
<1>5. QueueHolds'
  BY <1>1, <1>2, <1>3 DEF QueueHolds
<1> QED BY <1>1, <1>4, <1>5 DEF EstimateTypes

LEMMA LowerIs ==
  ASSUME FlowTypes, QueueHolds, NEW u \in Cells, Lower(u)
  PROVE  /\ EstimateTypes' /\ QueueHolds'
         /\ g[u] > rhs[u] /\ g' = [g EXCEPT ![u] = rhs[u]]
         /\ \A c \in Cells : rhs'[c] = IF c \in Preds(objects, u)
                                       THEN Smaller(rhs[c], AddCost(Edge(objects, c, u), rhs[u])) ELSE rhs[c]
<1> DEFINE gs == [g EXCEPT ![u] = rhs[u]]
           rs == [c \in Cells |-> IF c \in Preds(objects, u)
                                  THEN Smaller(rhs[c], AddCost(Edge(objects, c, u), rhs[u])) ELSE rhs[c]]
<1>1. \A c \in Cells : AddCost(Edge(objects, c, u), rhs[u]) \in 0..Unreachable
  <2>1. \A c \in Cells : Edge(objects, c, u) \in Nat
    BY EdgeIs DEF FlowTypes
  <2> QED BY <2>1, SumType DEF FlowTypes, Costs0
<1>2. gs \in Costs0 /\ rs \in Costs0
  BY <1>1 DEF FlowTypes, Costs0, Smaller
<1>3. Update(Preds(objects, u) \cup {u}, gs, rs) /\ g[u] > rhs[u]
  BY DEF Lower
<1>4. \A c \in Cells \ (Preds(objects, u) \cup {u}) : gs[c] = g[c] /\ rs[c] = rhs[c]
  BY DEF FlowTypes, Costs0
<1>5. \A c \in Cells : rs[c] = IF c \in Preds(objects, u)
                               THEN Smaller(rhs[c], AddCost(Edge(objects, c, u), rhs[u])) ELSE rhs[c]
  OBVIOUS
<1> HIDE DEF rs
<1>6. g' = gs /\ rhs' = rs /\ EstimateTypes' /\ QueueHolds'
  <2> HIDE DEF gs
  <2> QED BY <1>2, <1>3, <1>4, UpdateIs
<1> QED BY <1>3, <1>5, <1>6

LEMMA RaiseIs ==
  ASSUME FlowTypes, QueueHolds, NEW u \in Cells, Raise(u)
  PROVE  /\ EstimateTypes' /\ QueueHolds'
         /\ g' = [g EXCEPT ![u] = Unreachable]
         /\ \A c \in Cells : rhs'[c] = IF c \in (Dependent(u, g[u]) \cup {u}) \ {FakeGoal}
                                       THEN LookAhead(objects, g', c) ELSE rhs[c]
<1> DEFINE gs == [g EXCEPT ![u] = Unreachable]
           rs == [c \in Cells |-> IF c \in (Dependent(u, g[u]) \cup {u}) \ {FakeGoal}
                                  THEN LookAhead(objects, gs, c) ELSE rhs[c]]
<1>1. gs \in Costs0
  BY FarIs DEF FlowTypes, Costs0
<1>2. Update(Preds(objects, u) \cup {u}, gs, rs)
  BY DEF Raise
<1> HIDE DEF gs
<1>3. \A c \in Cells : LookAhead(objects, gs, c) \in 0..Unreachable
  BY <1>1, LookAheadIs DEF FlowTypes
<1>4. rs \in Costs0
  BY <1>3 DEF FlowTypes, Costs0
<1>5. \A c \in Cells \ (Preds(objects, u) \cup {u}) : gs[c] = g[c] /\ rs[c] = rhs[c]
  <2>1. \A c \in Cells \ (Preds(objects, u) \cup {u}) : c # u /\ c \notin Dependent(u, g[u])
    BY DEF Dependent
  <2> QED BY <2>1 DEF FlowTypes, Costs0, gs
<1>6. \A c \in Cells : rs[c] = IF c \in (Dependent(u, g[u]) \cup {u}) \ {FakeGoal}
                               THEN LookAhead(objects, gs, c) ELSE rhs[c]
  OBVIOUS
<1> HIDE DEF rs
<1>7. g' = gs /\ rhs' = rs /\ EstimateTypes' /\ QueueHolds'
  BY <1>1, <1>2, <1>4, <1>5, UpdateIs
<1> QED BY <1>6, <1>7 DEF gs

(* A replay: the cell is one of the map, so that it keeps its g and looks   *)
(* at its successors.                                                       *)
LookedAgain(v) == [rhs EXCEPT ![v] = LookAhead(objects, g, v)]

LEMMA ApplyIs ==
  ASSUME FlowTypes, RecordInv, QueueHolds, NEW v \in Cells, ApplyChange(v)
  PROVE  /\ EstimateTypes' /\ QueueHolds' /\ g' = g /\ v # FakeGoal
         /\ v \in Recorded(changed) /\ changed[v] \in 0..Unreachable
         /\ rhs'[v] = LookAhead(objects, g, v)
         /\ \A c \in Cells \ {v} :
              rhs'[c] = IF c \in Affected(v) THEN Repaired(c, v, g, LookedAgain(v)) ELSE rhs[c]
<1> DEFINE rs == [c \in Cells |-> IF c \in Affected(v) THEN Repaired(c, v, g, LookedAgain(v))
                                  ELSE LookedAgain(v)[c]]
<1>0. objects \in [Cells -> Nat] /\ g \in Costs0 /\ rhs \in Costs0
  BY DEF FlowTypes
<1>1. v \in Recorded(changed) /\ Base[v] # 0 /\ v # FakeGoal /\ changed[v] \in 0..Unreachable
  <2>1. v \in Recorded(changed) /\ changed[v] \in 0..Unreachable \cup {Unrecorded} /\ changed[v] # Unrecorded
    BY DEF ApplyChange, Recorded, FlowTypes
  <2> QED BY <2>1, FlowFieldAssumption DEF RecordInv
<1>2. ~(Value(objects, v) <= 0)
  BY <1>0, <1>1, ValueType, CostsAssumption
<1>3. LookAgain(v) = LookedAgain(v)
  BY <1>2 DEF LookAgain, LookedAgain
<1>4. Update(Affected(v) \cup {v}, g, rs)
  BY <1>2, <1>3 DEF ApplyChange
<1>5. \A c \in Cells : LookAhead(objects, g, c) \in 0..Unreachable
  BY <1>0, LookAheadIs
<1>6. LookedAgain(v) \in Costs0 /\ LookedAgain(v)[v] = LookAhead(objects, g, v)
      /\ \A c \in Cells \ {v} : LookedAgain(v)[c] = rhs[c]
  BY <1>0, <1>5 DEF LookedAgain, Costs0
<1>7. \A c \in Cells : Repaired(c, v, g, LookedAgain(v)) \in 0..Unreachable
  <2> SUFFICES ASSUME NEW c \in Cells PROVE Repaired(c, v, g, LookedAgain(v)) \in 0..Unreachable
    OBVIOUS
  <2>1. Edge(objects, c, v) \in Nat /\ g[v] \in 0..Unreachable /\ LookedAgain(v)[c] \in 0..Unreachable
    BY <1>0, <1>6, EdgeIs DEF Costs0
  <2>2. AddCost(Edge(objects, c, v), g[v]) \in 0..Unreachable
    BY <2>1, SumType
  <2> QED BY <1>5, <2>1, <2>2 DEF Repaired, Smaller
<1>8. rs \in Costs0
  BY <1>6, <1>7 DEF Costs0
<1>9. \A c \in Cells \ (Affected(v) \cup {v}) : rs[c] = rhs[c]
  BY <1>6
<1>10. rs[v] = LookAhead(objects, g, v)
  <2>1. CASE v \in Affected(v)
    <3>1. OldEdge(v, v, changed[v]) = Edge(objects, v, v)
      BY DEF OldEdge, Edge, Adjacent
    <3>2. Edge(objects, v, v) \in Nat
      BY <1>0, EdgeIs
    <3>3. Repaired(v, v, g, LookedAgain(v)) = LookAhead(objects, g, v)
      BY <1>6, <3>1, <3>2 DEF Repaired
    <3> QED BY <2>1, <3>3
  <2>2. CASE v \notin Affected(v)
    BY <1>6, <2>2
  <2> QED BY <2>1, <2>2
<1>11. \A c \in Cells \ {v} : rs[c] = IF c \in Affected(v) THEN Repaired(c, v, g, LookedAgain(v)) ELSE rhs[c]
  BY <1>6
<1> HIDE DEF rs
<1>12. g' = g /\ rhs' = rs /\ EstimateTypes' /\ QueueHolds'
  BY <1>0, <1>4, <1>8, <1>9, UpdateIs
<1> QED BY <1>1, <1>10, <1>11, <1>12

-----------------------------------------------------------------------------
(* The look-aheads.                                                         *)

LEMMA LowerFollow ==
  ASSUME FlowTypes, QueueHolds, NEW u \in Cells, Lower(u), NEW c \in Cells,
         Best(rhs[c], Row(ValuesOf(objects), g, c))
  PROVE  Best(rhs'[c], Row(ValuesOf(objects), g', c))
<1> DEFINE row == Row(ValuesOf(objects), g, c)
           e == Edge(objects, c, u)
           x == AddCost(e, rhs[u])
<1>1. /\ e \in Nat /\ g \in Costs0 /\ g[u] \in 0..Unreachable /\ rhs[u] \in 0..Unreachable
      /\ rhs[c] \in 0..Unreachable /\ ValuesOf(objects) \in Costs0 /\ e = EdgeFor(ValuesOf(objects), c, u)
  BY EdgeIs, ValuesType DEF FlowTypes, Costs0
<1>2. /\ g' = [g EXCEPT ![u] = rhs[u]] /\ rhs[u] <= g[u]
      /\ rhs'[c] = IF c \in Preds(objects, u) THEN Smaller(rhs[c], x) ELSE rhs[c]
  BY <1>1, LowerIs, CostsAssumption
<1>3. row \in Costs0 /\ row[u] = AddCost(e, g[u]) /\ Row(ValuesOf(objects), g', c) = [row EXCEPT ![u] = x]
  <2>1. g' \in Costs0 /\ g'[u] = rhs[u] /\ \A s \in Cells \ {u} : g'[s] = g[s]
    BY <1>1, <1>2 DEF Costs0
  <2>2. Row(ValuesOf(objects), g', c) = [row EXCEPT ![u] = AddCost(EdgeFor(ValuesOf(objects), c, u), g'[u])]
    BY <2>1 DEF Row
  <2>3. row \in Costs0 /\ row[u] = AddCost(EdgeFor(ValuesOf(objects), c, u), g[u])
    <3>1. row \in Costs0
      BY <1>1, RowType
    <3> QED BY <3>1 DEF Row
  <2> HIDE DEF row, e
  <2> QED BY <1>1, <2>1, <2>2, <2>3
<1>4. /\ x \in 0..Unreachable /\ AddCost(e, g[u]) \in 0..Unreachable
      /\ x <= AddCost(e, g[u])
      /\ IsUnreachable(e) => x = AddCost(e, g[u])
  <2> HIDE DEF e
  <2>1. x <= AddCost(e, g[u])
    BY <1>1, <1>2, SumGrows
  <2> QED BY <1>1, <2>1, SumType
<1>5. Best(rhs[c], row)
  OBVIOUS
<1> HIDE DEF row, x, e
<1>6. CASE c \in Preds(objects, u)
  <2>1. x \in 0..row[u]
    BY <1>3, <1>4, CostsAssumption
  <2>2. Best(Smaller(rhs[c], x), [row EXCEPT ![u] = x])
    BY <1>1, <1>3, <1>5, <2>1, BestLower
  <2> QED BY <1>2, <1>3, <1>6, <2>2
<1>7. CASE c \notin Preds(objects, u)
  <2>1. IsUnreachable(e)
    BY <1>7 DEF Preds, e
  <2>2. [row EXCEPT ![u] = x] = row
    BY <1>3, <1>4, <2>1 DEF Costs0
  <2> QED BY <1>2, <1>3, <1>5, <1>7, <2>2
<1> QED BY <1>6, <1>7

LEMMA RaiseFollow ==
  ASSUME FlowTypes, QueueHolds, NEW u \in Cells, Raise(u), NEW c \in Cells \ {FakeGoal},
         Best(rhs[c], Row(ValuesOf(objects), g, c))
  PROVE  Best(rhs'[c], Row(ValuesOf(objects), g', c))
<1> DEFINE row == Row(ValuesOf(objects), g, c)
           e == Edge(objects, c, u)
<1>1. /\ e \in Nat /\ g \in Costs0 /\ g[u] \in 0..Unreachable /\ rhs[c] \in 0..Unreachable
      /\ objects \in [Cells -> Nat]
      /\ ValuesOf(objects) \in Costs0 /\ e = EdgeFor(ValuesOf(objects), c, u)
  BY EdgeIs, ValuesType DEF FlowTypes, Costs0
<1>2. /\ g' = [g EXCEPT ![u] = Unreachable] /\ g' \in Costs0
      /\ rhs'[c] = IF c \in Dependent(u, g[u]) \cup {u} THEN LookAhead(objects, g', c) ELSE rhs[c]
  BY RaiseIs DEF EstimateTypes
<1>3. /\ row \in Costs0 /\ row[u] = AddCost(e, g[u])
      /\ Row(ValuesOf(objects), g', c) = [row EXCEPT ![u] = Unreachable]
  <2>1. g'[u] = Unreachable /\ \A s \in Cells \ {u} : g'[s] = g[s]
    BY <1>1, <1>2 DEF Costs0
  <2>2. AddCost(e, Unreachable) = Unreachable
    BY <1>1, SumOfFar
  <2>3. Row(ValuesOf(objects), g', c) = [row EXCEPT ![u] = AddCost(EdgeFor(ValuesOf(objects), c, u), g'[u])]
    BY <2>1 DEF Row
  <2>4. row \in Costs0 /\ row[u] = AddCost(EdgeFor(ValuesOf(objects), c, u), g[u])
    <3>1. row \in Costs0
      BY <1>1, RowType
    <3> QED BY <3>1 DEF Row
  <2> HIDE DEF row, e
  <2> QED BY <1>1, <2>1, <2>2, <2>3, <2>4
<1>4. Best(rhs[c], row)
  OBVIOUS
<1>5. CASE c \in Dependent(u, g[u]) \cup {u}
  <2>1. Best(LookAhead(objects, g', c), Row(ValuesOf(objects), g', c))
    BY <1>1, <1>2, LookAheadIs
  <2> QED BY <1>2, <1>5, <2>1
<1>6. CASE c \notin Dependent(u, g[u]) \cup {u}
  <2>1. rhs[c] # row[u] \/ row[u] = Unreachable
    <3>1. CASE c \in Preds(objects, u)
      BY <1>3, <1>6, <3>1 DEF Dependent
    <3>2. CASE c \notin Preds(objects, u)
      <4>1. IsUnreachable(e)
        BY <3>2 DEF Preds
      <4> QED BY <1>1, <1>3, <4>1, SumType
    <3> QED BY <3>1, <3>2
  <2> HIDE DEF row, e
  <2>2. row[u] <= Unreachable /\ Unreachable \in 0..Unreachable
    BY <1>3, FarIs DEF Costs0
  <2>3. Best(rhs[c], [row EXCEPT ![u] = Unreachable])
    BY <1>1, <1>3, <1>4, <2>1, <2>2, BestRaise
  <2> QED BY <1>2, <1>3, <1>6, <2>3
<1> QED BY <1>5, <1>6

(* A cell whose neighbour v is replayed: whatever the cell assumed of v, it *)
(* now assumes v's present cost, or looks at all its successors.            *)
LEMMA NeighbourFollow ==
  ASSUME FlowTypes, RecordInv, QueueHolds, NEW v \in Cells, ApplyChange(v),
         changed[v] = used[v] \/ Value(objects, v) = used[v],
         NEW c \in Cells \ {FakeGoal}, c # v,
         NEW val \in Costs0, Best(rhs[c], Row(val, g, c)),
         val[c] = Value(objects, c), val[v] = used[v] \/ val[v] = Value(objects, v)
  PROVE  \/ Best(rhs'[c], Row([val EXCEPT ![v] = Value(objects, v)], g', c))
         \/ Best(rhs'[c], Row(ValuesOf(objects), g', c))
<1> DEFINE row == Row(val, g, c)
           old == OldEdge(c, v, changed[v])
           new == Edge(objects, c, v)
           x == AddCost(new, g[v])
           y == AddCost(old, g[v])
<1>0. /\ objects \in [Cells -> Nat] /\ g \in Costs0 /\ g[v] \in 0..Unreachable /\ rhs[c] \in 0..Unreachable
      /\ changed[v] \in 0..Unreachable /\ g' = g /\ Value(objects, v) \in 0..Unreachable
  BY ApplyIs, ValueType DEF FlowTypes, Costs0
<1>1. old \in Nat /\ new \in Nat
  BY <1>0, EdgeType, EdgeIs
<1>2. /\ x \in 0..Unreachable /\ y \in 0..Unreachable
      /\ old <= new => y <= x
      /\ new <= old => x <= y
      /\ IsUnreachable(old) => y = Unreachable
      /\ IsUnreachable(new) => x = Unreachable
  <2> HIDE DEF old, new
  <2>1. old <= new => y <= x
    BY <1>0, <1>1, SumGrows
  <2>2. new <= old => x <= y
    BY <1>0, <1>1, SumGrows
  <2> QED BY <1>0, <1>1, <2>1, <2>2, SumType
<1>3. EdgeFor(val, c, v) = new \/ EdgeFor(val, c, v) = old
  BY DEF EdgeFor, Edge, OldEdge
<1>4. row \in Costs0 /\ (row[v] = x \/ row[v] = y)
  <2>1. row \in Costs0
    BY <1>0, RowType
  <2>2. row[v] = AddCost(EdgeFor(val, c, v), g[v])
    BY DEF Row
  <2> HIDE DEF row, old, new
  <2> QED BY <1>3, <2>1, <2>2
<1>5. Row([val EXCEPT ![v] = Value(objects, v)], g', c) = [row EXCEPT ![v] = x]
  <2> DEFINE now == [val EXCEPT ![v] = Value(objects, v)]
  <2>1. \A s \in Cells : now[s] = IF s = v THEN Value(objects, v) ELSE val[s]
    BY DEF Costs0
  <2> HIDE DEF now
  <2>2. now[c] = Value(objects, c) /\ val[c] = Value(objects, c) /\ now[v] = Value(objects, v)
    BY <2>1
  <2>3. \A s \in Cells \ {v} : EdgeFor(now, c, s) = EdgeFor(val, c, s)
    BY <2>1, <2>2 DEF EdgeFor
  <2>4. EdgeFor(now, c, v) = new
    BY <2>2 DEF EdgeFor, Edge
  <2>5. Row(now, g, c) = [row EXCEPT ![v] = x]
    BY <2>3, <2>4 DEF Row
  <2> QED BY <1>0, <2>5 DEF now
<1>6. rhs'[c] = IF c \notin Affected(v) THEN rhs[c]
                ELSE IF old > new THEN Smaller(rhs[c], x)
                ELSE IF rhs[c] = y THEN LookAhead(objects, g, c)
                ELSE rhs[c]
  <2>1. rhs'[c] = IF c \in Affected(v) THEN Repaired(c, v, g, LookedAgain(v)) ELSE rhs[c]
    BY ApplyIs
  <2>2. LookedAgain(v)[c] = rhs[c]
    BY DEF LookedAgain, FlowTypes, Costs0
  <2> QED BY <2>1, <2>2 DEF Repaired
<1>7. c \in Affected(v) <=> ~IsUnreachable(old) \/ ~IsUnreachable(new)
  BY DEF Affected
<1>8. Best(rhs[c], row)
  OBVIOUS
<1>9. Best(LookAhead(objects, g, c), Row(ValuesOf(objects), g, c))
  BY <1>0, LookAheadIs
<1> HIDE DEF row, x, y, old, new
<1>10. CASE c \notin Affected(v)
  <2>1. [row EXCEPT ![v] = x] = row
    BY <1>2, <1>4, <1>7, <1>10 DEF Costs0
  <2> QED BY <1>5, <1>6, <1>8, <1>10, <2>1
<1>11. CASE c \in Affected(v) /\ old > new
  <2>1. x \in 0..row[v]
    BY <1>1, <1>2, <1>4, <1>11, CostsAssumption
  <2>2. Best(Smaller(rhs[c], x), [row EXCEPT ![v] = x])
    BY <1>0, <1>4, <1>8, <2>1, BestLower
  <2> QED BY <1>5, <1>6, <1>11, <2>2
<1>12. CASE c \in Affected(v) /\ ~(old > new) /\ rhs[c] = y
  BY <1>0, <1>6, <1>9, <1>12
<1>13. CASE c \in Affected(v) /\ ~(old > new) /\ rhs[c] # y
  <2>1. row[v] <= x /\ (rhs[c] # row[v] \/ row[v] = x)
    BY <1>1, <1>2, <1>4, <1>13, CostsAssumption
  <2>2. Best(rhs[c], [row EXCEPT ![v] = x])
    BY <1>0, <1>2, <1>4, <1>8, <2>1, BestRaise
  <2> QED BY <1>5, <1>6, <1>13, <2>2
<1> QED BY <1>10, <1>11, <1>12, <1>13

-----------------------------------------------------------------------------
(* Every step keeps each part of the invariant.                             *)

LEMMA NewTypes ==
  /\ Clean \in [Cells -> Nat] /\ NoRecord \in [Cells -> 0..Unreachable \cup {Unrecorded}]
  /\ EmptyQueue \in [Cells -> 0..Unreachable \cup {Unqueued}]
  /\ Nearest \in Costs0 /\ Base \in Costs0
  /\ [l \in Lights |-> Unreachable] \in [Lights -> 0..Unreachable]
<1>1. Unreachable \in 0..Unreachable /\ 0 \in 0..Unreachable /\ FakeGoal \in Cells
  BY FarIs, FlowFieldAssumption
<1>2. Nearest \in Costs0
  BY <1>1 DEF Nearest, Far, Costs0
<1>3. Base \in Costs0
  BY CostsAssumption DEF Costs0
<1> QED BY <1>1, <1>2, <1>3 DEF Clean, NoRecord, EmptyQueue

LEMMA ExpandIs ==
  ASSUME FlowTypes, QueueInv, NEW u \in Cells, Expand(u)
  PROVE  /\ mode = "planning" /\ UNCHANGED <<mode, objects, changed, lights, history>>
         /\ QueueHolds /\ EstimateTypes' /\ QueueHolds'
         /\ Lower(u) \/ Raise(u)
<1>1. QueueHolds
  BY DEF QueueInv, QueueHolds
<1>2. mode = "planning" /\ UNCHANGED <<mode, objects, changed, lights, history>> /\ (Lower(u) \/ Raise(u))
  BY DEF Expand
<1>3. EstimateTypes' /\ QueueHolds'
  BY <1>1, <1>2, LowerIs, RaiseIs
<1> QED BY <1>1, <1>2, <1>3

LEMMA TypesStep == ASSUME FlowTypes, RecordInv, QueueInv, FlowStep PROVE FlowTypes'
<1> USE DEF estimates, lights, history
<1>1. ASSUME NEW o \in Sights, FirstLook(o) PROVE FlowTypes'
  <2>1. objects' \in [Cells -> Nat] /\ changed' \in [Cells -> 0..Unreachable \cup {Unrecorded}]
    BY <1>1, LookIs DEF FirstLook
  <2>2. used' \in Costs0
    <3>1. used' = ValuesOf(objects')
      BY <1>1 DEF FirstLook, ValuesOf
    <3> QED BY <2>1, <3>1, ValuesType
  <2>3. mode' \in Modes /\ UNCHANGED <<g, rhs, queue, oldG, misled, touched>>
    BY <1>1 DEF FirstLook, Modes
  <2> QED BY <2>1, <2>2, <2>3 DEF FlowTypes
<1>2. ASSUME NEW o \in Sights, Tick(o) PROVE FlowTypes'
  <2>1. objects' \in [Cells -> Nat] /\ changed' \in [Cells -> 0..Unreachable \cup {Unrecorded}]
    BY <1>2, LookIs DEF Tick
  <2>2. mode' \in Modes /\ touched' = {} /\ UNCHANGED <<g, rhs, queue, oldG, used, misled>>
    BY <1>2 DEF Tick, Modes
  <2> QED BY <2>1, <2>2 DEF FlowTypes
<1>3. ASSUME NEW u \in Cells, Expand(u) PROVE FlowTypes'
  BY <1>3, ExpandIs DEF FlowTypes, EstimateTypes
<1>4. ASSUME NEW v \in Cells, ApplyChange(v) PROVE FlowTypes'
  <2>1. EstimateTypes'
    BY <1>4, ApplyIs DEF QueueInv, QueueHolds
  <2>2. Value(objects, v) \in 0..Unreachable /\ used[v] \in 0..Unreachable
    BY ValueType DEF FlowTypes, Costs0
  <2>3. /\ used' = [used EXCEPT ![v] = Value(objects, v)] /\ changed' = [changed EXCEPT ![v] = Unrecorded]
        /\ touched' \subseteq touched \cup {<<v, used[v]>>}
        /\ UNCHANGED <<mode, objects, oldG>>
    BY <1>4 DEF ApplyChange
  <2>4. used' \in Costs0 /\ changed' \in [Cells -> 0..Unreachable \cup {Unrecorded}]
    BY <2>2, <2>3 DEF FlowTypes, Costs0
  <2>5. misled' \in BOOLEAN
    BY <1>4 DEF ApplyChange
  <2>6. touched' \subseteq Cells \X (0..Unreachable)
    <3>1. <<v, used[v]>> \in Cells \X (0..Unreachable)
      BY <2>2
    <3>2. touched \subseteq Cells \X (0..Unreachable)
      BY DEF FlowTypes
    <3>3. \A t \in touched' : t \in touched \/ t = <<v, used[v]>>
      BY <2>3
    <3> QED BY <3>1, <3>2, <3>3
  <2> QED BY <2>1, <2>3, <2>4, <2>5, <2>6 DEF FlowTypes, EstimateTypes
<1>5. ASSUME NEW F \in SUBSET Lights, UpdateSignaling(F) PROVE FlowTypes'
  <2>1. oldG' \in [Lights -> 0..Unreachable]
    BY <1>5, FlowFieldAssumption DEF UpdateSignaling, FlowTypes, Costs0
  <2> QED BY <1>5, <2>1 DEF UpdateSignaling, FlowTypes, Modes
<1>6. ASSUME Launch PROVE FlowTypes'
  <2>1. /\ mode' \in Modes /\ g' = Far /\ rhs' = Nearest /\ changed' = NoRecord /\ touched' = {}
        /\ queue' = [EmptyQueue EXCEPT ![FakeGoal] = 0] /\ oldG' = [l \in Lights |-> Unreachable]
        /\ UNCHANGED <<objects, used>>
    BY <1>6 DEF Launch, Nearest, Modes
  <2>2. queue' \in [Cells -> 0..Unreachable \cup {Unqueued}]
    <3>1. queue' = [c \in Cells |-> IF c = FakeGoal THEN 0 ELSE Unqueued] /\ 0 \in 0..Unreachable
      BY <2>1, FarIs DEF EmptyQueue
    <3> QED BY <3>1
  <2>3. misled' \in BOOLEAN
    BY <1>6 DEF Launch
  <2> QED BY <2>1, <2>2, <2>3, NewTypes, FarIs DEF FlowTypes
<1>7. ASSUME GoOn PROVE FlowTypes'
  BY <1>7 DEF GoOn, FlowTypes, Modes
<1>8. ASSUME Quit PROVE FlowTypes'
  <2>1. misled' \in BOOLEAN
    BY <1>8 DEF Quit
  <2> QED BY <1>8, <2>1, NewTypes, FarIs DEF Quit, FlowTypes, Modes
<1>9. ASSUME UNCHANGED vars PROVE FlowTypes'
  BY <1>9 DEF vars, FlowTypes
<1> QED BY <1>1, <1>2, <1>3, <1>4, <1>5, <1>6, <1>7, <1>8, <1>9 DEF FlowStep

LEMMA RecordStep == ASSUME FlowTypes, RecordInv, QueueInv, UsedInv, FlowStep PROVE RecordInv'
<1> USE DEF estimates, lights, history
<1>1. ASSUME NEW o \in Sights, FirstLook(o) PROVE RecordInv'
  <2>1. Look(o) \/ LookFails
    BY <1>1 DEF FirstLook
  <2>2. Recorded(changed) = {} /\ mode' = "planning" /\ \A c \in Cells : used'[c] = Value(objects', c)
    BY <1>1 DEF FirstLook, RecordInv, Recorded, NoRecord
  <2>3. \A c \in Recorded(changed') : Base[c] # 0 /\ changed'[c] # used'[c]
    <3> SUFFICES ASSUME NEW c \in Recorded(changed') PROVE Base[c] # 0 /\ changed'[c] # used'[c]
      OBVIOUS
    <3>1. Base[c] # 0 /\ changed'[c] = Value(objects, c) /\ Value(objects', c) # Value(objects, c)
      BY <2>1, <2>2, LookIs
    <3> QED BY <2>2, <3>1 DEF Recorded
  <2>4. \A c \in Cells \ Movable : objects'[c] = 0
    BY <2>1, LookIs
  <2> QED BY <2>2, <2>3, <2>4 DEF RecordInv
<1>2. ASSUME NEW o \in Sights, Tick(o) PROVE RecordInv'
  <2>1. Look(o) \/ LookFails
    BY <1>2 DEF Tick
  <2>2. (\A c \in Recorded(changed') : Base[c] # 0) /\ \A c \in Cells \ Movable : objects'[c] = 0
    BY <2>1, LookIs
  <2>3. (mode' = "waiting" /\ changed' = NoRecord) \/ mode' = "repairing"
    BY <1>2 DEF Tick
  <2>4. changed' = NoRecord => Recorded(changed') = {}
    BY DEF Recorded, NoRecord
  <2> QED BY <2>2, <2>3, <2>4 DEF RecordInv, Settled
<1>3. ASSUME NEW u \in Cells, Expand(u) PROVE RecordInv'
  BY <1>3, ExpandIs DEF RecordInv
<1>4. ASSUME NEW v \in Cells, ApplyChange(v) PROVE RecordInv'
  <2>1. mode' = "repairing" /\ objects' = objects /\ changed' = [changed EXCEPT ![v] = Unrecorded]
    BY <1>4 DEF ApplyChange
  <2>2. Recorded(changed') \subseteq Recorded(changed)
    BY <2>1 DEF Recorded, FlowTypes
  <2> QED BY <2>1, <2>2 DEF RecordInv, Settled
<1>5. ASSUME NEW F \in SUBSET Lights, UpdateSignaling(F) PROVE RecordInv'
  BY <1>5 DEF UpdateSignaling, RecordInv, Settled
<1>6. ASSUME Launch PROVE RecordInv'
  <2>1. mode' = "starting" /\ changed' = NoRecord /\ touched' = {} /\ objects' = objects
    BY <1>6 DEF Launch
  <2> QED BY <2>1 DEF RecordInv, Settled, Recorded, NoRecord
<1>7. ASSUME GoOn PROVE RecordInv'
  <2>1. CASE mode = "planning"
    BY <1>7, <2>1 DEF GoOn, RecordInv, Settled
  <2>2. CASE mode = "repairing" /\ changed = NoRecord /\ mode' = "planning"
    <3>1. Recorded(changed) = {}
      BY <2>2 DEF Recorded, NoRecord
    <3> QED BY <1>7, <2>2, <3>1 DEF GoOn, RecordInv
  <2> QED BY <1>7, <2>1, <2>2 DEF GoOn
<1>8. ASSUME Quit PROVE RecordInv'
  <2>1. mode' = "off" /\ changed' = NoRecord /\ objects' = objects
    BY <1>8 DEF Quit
  <2> QED BY <2>1 DEF RecordInv, Settled, Recorded, NoRecord
<1>9. ASSUME UNCHANGED vars PROVE RecordInv'
  BY <1>9 DEF vars, RecordInv
<1> QED BY <1>1, <1>2, <1>3, <1>4, <1>5, <1>6, <1>7, <1>8, <1>9 DEF FlowStep

LEMMA QueueStep == ASSUME FlowTypes, RecordInv, QueueInv, FlowStep PROVE QueueInv'
<1> USE DEF estimates, lights, history
<1>1. ASSUME NEW o \in Sights, FirstLook(o) PROVE QueueInv'
  BY <1>1 DEF FirstLook, QueueInv
<1>2. ASSUME NEW o \in Sights, Tick(o) PROVE QueueInv'
  BY <1>2 DEF Tick, QueueInv
<1>3. ASSUME NEW u \in Cells, Expand(u) PROVE QueueInv'
  <2>1. /\ mode = "planning" /\ mode' = "planning" /\ QueueHolds /\ QueueHolds' /\ (Lower(u) \/ Raise(u))
        /\ rhs[FakeGoal] = 0 /\ FakeGoal \in Cells
    BY <1>3, ExpandIs, FlowFieldAssumption DEF QueueInv
  <2>2. CASE Lower(u)
    <3>1. /\ rhs'[FakeGoal] = IF FakeGoal \in Preds(objects, u)
                              THEN Smaller(0, AddCost(Edge(objects, FakeGoal, u), rhs[u])) ELSE 0
          /\ AddCost(Edge(objects, FakeGoal, u), rhs[u]) \in 0..Unreachable
      <4>1. Edge(objects, FakeGoal, u) \in Nat /\ rhs[u] \in 0..Unreachable
        BY <2>1, EdgeIs DEF FlowTypes, Costs0
      <4> QED BY <2>1, <2>2, <4>1, LowerIs, SumType
    <3> QED BY <2>1, <3>1 DEF QueueInv, QueueHolds, Smaller
  <2>3. CASE Raise(u)
    <3>1. rhs'[FakeGoal] = 0
      BY <2>1, <2>3, RaiseIs
    <3> QED BY <2>1, <3>1 DEF QueueInv, QueueHolds
  <2> QED BY <2>1, <2>2, <2>3
<1>4. ASSUME NEW v \in Cells, ApplyChange(v) PROVE QueueInv'
  <2>1. mode = "repairing" /\ mode' = "repairing" /\ rhs[FakeGoal] = 0 /\ FakeGoal \in Cells /\ QueueHolds
    BY <1>4, FlowFieldAssumption DEF ApplyChange, QueueInv, QueueHolds
  <2>2. /\ QueueHolds' /\ v # FakeGoal
        /\ rhs'[FakeGoal] = IF FakeGoal \in Affected(v)
                            THEN Repaired(FakeGoal, v, g, LookedAgain(v)) ELSE rhs[FakeGoal]
    BY <1>4, <2>1, ApplyIs
  <2>3. LookedAgain(v)[FakeGoal] = 0
    BY <2>1, <2>2 DEF LookedAgain, FlowTypes, Costs0
  <2>4. AddCost(Edge(objects, FakeGoal, v), g[v]) \in 0..Unreachable
    <3>1. Edge(objects, FakeGoal, v) \in Nat /\ g[v] \in 0..Unreachable
      BY <2>1, EdgeIs DEF FlowTypes, Costs0
    <3> QED BY <3>1, SumType
  <2>5. Repaired(FakeGoal, v, g, LookedAgain(v)) = 0
    BY <2>3, <2>4 DEF Repaired, Smaller
  <2> QED BY <2>1, <2>2, <2>5 DEF QueueInv, QueueHolds
<1>5. ASSUME NEW F \in SUBSET Lights, UpdateSignaling(F) PROVE QueueInv'
  BY <1>5 DEF UpdateSignaling, QueueInv
<1>6. ASSUME Launch PROVE QueueInv'
  <2>1. /\ mode' = "starting" /\ g' = Far /\ rhs' = Nearest /\ queue' = [EmptyQueue EXCEPT ![FakeGoal] = 0]
        /\ FakeGoal \in Cells /\ 0 # Unqueued /\ 0 # Unreachable
    BY <1>6, FlowFieldAssumption, FarIs DEF Launch, Nearest
  <2>2. \A c \in Cells : /\ g'[c] = Unreachable
                         /\ rhs'[c] = IF c = FakeGoal THEN 0 ELSE Unreachable
                         /\ queue'[c] = IF c = FakeGoal THEN 0 ELSE Unqueued
    BY <2>1 DEF Nearest, Far, EmptyQueue
  <2> QED BY <2>1, <2>2 DEF QueueInv
<1>7. ASSUME GoOn PROVE QueueInv'
  <2>1. CASE mode = "planning" /\ mode' = "signaling" /\ Queued = {}
    <3>1. \A c \in Cells : g[c] = rhs[c]
      BY <2>1 DEF Queued, QueueInv
    <3>2. g = rhs
      BY <3>1 DEF FlowTypes, Costs0
    <3> QED BY <1>7, <2>1, <3>2 DEF GoOn, QueueInv
  <2>2. CASE mode = "repairing" /\ mode' = "planning"
    BY <1>7, <2>2 DEF GoOn, QueueInv
  <2> QED BY <1>7, <2>1, <2>2 DEF GoOn
<1>8. ASSUME Quit PROVE QueueInv'
  BY <1>8 DEF Quit, QueueInv, Far, EmptyQueue
<1>9. ASSUME UNCHANGED vars PROVE QueueInv'
  BY <1>9 DEF vars, QueueInv
<1> QED BY <1>1, <1>2, <1>3, <1>4, <1>5, <1>6, <1>7, <1>8, <1>9 DEF FlowStep

(* What a tick leaves unrecorded the planner has used as it is.             *)
LEMMA TickIs ==
  ASSUME FlowTypes, RecordInv, NEW o \in Sights, Tick(o)
  PROVE  /\ mode = "waiting" /\ UNCHANGED <<g, rhs, queue, oldG, used, misled, failed>> /\ touched' = {}
         /\ \A c \in Cells \ Recorded(changed') : Value(objects', c) = Value(objects, c)
         /\ \/ mode' = "waiting" /\ ValuesOf(objects') = ValuesOf(objects)
            \/ mode' = "repairing"
<1>1. \A c \in Cells \ Recorded(changed') : Value(objects', c) = Value(objects, c)
  BY LookIs DEF Tick
<1>2. ASSUME changed' = NoRecord PROVE ValuesOf(objects') = ValuesOf(objects)
  <2>1. Recorded(changed') = {}
    BY <1>2 DEF Recorded, NoRecord
  <2> QED BY <1>1, <2>1 DEF ValuesOf
<1> QED BY <1>1, <1>2 DEF Tick, estimates

LEMMA UsedStep == ASSUME FlowTypes, RecordInv, QueueInv, UsedInv, FlowStep PROVE UsedInv'
<1> USE DEF estimates, lights, history
<1>1. ASSUME NEW o \in Sights, FirstLook(o) PROVE UsedInv'
  BY <1>1 DEF FirstLook, UsedInv, ValuesOf
<1>2. ASSUME NEW o \in Sights, Tick(o) PROVE UsedInv'
  <2>1. used' = used /\ used = ValuesOf(objects)
    BY <1>2, TickIs DEF UsedInv, Settled
  <2>2. CASE mode' = "waiting" /\ ValuesOf(objects') = ValuesOf(objects)
    BY <2>1, <2>2 DEF UsedInv
  <2>3. CASE mode' = "repairing"
    <3>1. \A c \in Cells \ Recorded(changed') : used'[c] = Value(objects', c)
      BY <1>2, <2>1, TickIs DEF ValuesOf, Recorded
    <3> QED BY <2>3, <3>1 DEF UsedInv, Settled
  <2> QED BY <1>2, <2>2, <2>3, TickIs
<1>3. ASSUME NEW u \in Cells, Expand(u) PROVE UsedInv'
  BY <1>3, ExpandIs DEF UsedInv
<1>4. ASSUME NEW v \in Cells, ApplyChange(v) PROVE UsedInv'
  <2>1. mode = "repairing" /\ mode' = "repairing" /\ objects' = objects
    BY <1>4 DEF ApplyChange
  <2>2. /\ \A c \in Cells \ {v} : used'[c] = used[c] /\ changed'[c] = changed[c]
        /\ used'[v] = Value(objects, v)
    BY <1>4 DEF ApplyChange, FlowTypes, Costs0
  <2>3. \A c \in Cells \ Recorded(changed') : used'[c] = Value(objects, c)
    BY <2>1, <2>2 DEF UsedInv, Recorded
  <2> QED BY <2>1, <2>3 DEF UsedInv, Settled
<1>5. ASSUME NEW F \in SUBSET Lights, UpdateSignaling(F) PROVE UsedInv'
  BY <1>5 DEF UpdateSignaling, UsedInv, Settled
<1>6. ASSUME Launch \/ Quit PROVE UsedInv'
  <2>1. mode' \in {"starting", "off"}
    BY <1>6 DEF Launch, Quit
  <2> QED BY <2>1 DEF UsedInv, Settled
<1>7. ASSUME GoOn PROVE UsedInv'
  <2>1. CASE mode = "planning" /\ mode' = "signaling"
    BY <1>7, <2>1 DEF GoOn, UsedInv, Settled
  <2>2. CASE mode = "repairing" /\ mode' = "planning" /\ changed = NoRecord
    <3>1. Recorded(changed) = {}
      BY <2>2 DEF Recorded, NoRecord
    <3>2. used = ValuesOf(objects)
      BY <2>2, <3>1 DEF UsedInv, ValuesOf, FlowTypes, Costs0
    <3> QED BY <1>7, <2>2, <3>2 DEF GoOn, UsedInv
  <2> QED BY <1>7, <2>1, <2>2 DEF GoOn
<1>8. ASSUME UNCHANGED vars PROVE UsedInv'
  BY <1>8 DEF vars, UsedInv
<1> QED BY <1>1, <1>2, <1>3, <1>4, <1>5, <1>6, <1>7, <1>8 DEF FlowStep

LEMMA ApplyFollow ==
  ASSUME FlowTypes, RecordInv, QueueInv, FollowInv, NEW v \in Cells, ApplyChange(v), ~misled'
  PROVE  \A c \in Cells \ ({FakeGoal} \cup Recorded(changed')) :
           \E N \in SUBSET Recorded(changed') : Best(rhs'[c], Row(Mixed(N, used', objects), g', c))
<1>0. /\ mode = "repairing" /\ ~misled /\ (changed[v] = used[v] \/ Value(objects, v) = used[v])
      /\ Recorded(changed') = Recorded(changed) \ {v}
      /\ \A s \in Cells \ {v} : used'[s] = used[s]
  BY DEF ApplyChange, FlowTypes, Recorded, Costs0
<1>1. Mixed({}, used', objects) = ValuesOf(objects)
  BY DEF Mixed, ValuesOf
<1>2. /\ objects \in [Cells -> Nat] /\ g \in Costs0 /\ used \in Costs0
      /\ \A s \in Cells : Value(objects, s) \in 0..Unreachable
  BY ValueType DEF FlowTypes
<1>3. QueueHolds
  BY DEF QueueInv, QueueHolds
<1>4. rhs'[v] = LookAhead(objects, g, v) /\ g' = g
  BY <1>3, ApplyIs
<1> SUFFICES ASSUME NEW c \in Cells \ ({FakeGoal} \cup Recorded(changed'))
             PROVE  \E N \in SUBSET Recorded(changed') : Best(rhs'[c], Row(Mixed(N, used', objects), g', c))
  OBVIOUS
<1>5. CASE c = v
  <2>1. Best(LookAhead(objects, g, v), Row(ValuesOf(objects), g, v))
    BY <1>2, LookAheadIs
  <2> QED BY <1>1, <1>4, <1>5, <2>1
<1>6. CASE c # v
  <2>1. c \in Cells \ {FakeGoal} /\ c \notin Recorded(changed)
    BY <1>0, <1>6
  <2>2. PICK N \in SUBSET Recorded(changed) : Best(rhs[c], Row(Mixed(N, used, objects), g, c))
    BY <1>0, <2>1 DEF FollowInv
  <2> DEFINE val == Mixed(N, used, objects)
  <2>3. /\ val \in Costs0 /\ val[c] = Value(objects, c)
        /\ val[v] = used[v] \/ val[v] = Value(objects, v)
    BY <1>2, <2>1, <2>2 DEF Mixed, Costs0
  <2>4. Mixed(N \ {v}, used', objects) = [val EXCEPT ![v] = Value(objects, v)]
    BY <1>0, <2>2 DEF Mixed
  <2> HIDE DEF val
  <2>5. Best(rhs[c], Row(val, g, c))
    BY <2>2 DEF val
  <2>6. \/ Best(rhs'[c], Row([val EXCEPT ![v] = Value(objects, v)], g', c))
        \/ Best(rhs'[c], Row(ValuesOf(objects), g', c))
    BY <1>0, <1>3, <1>6, <2>1, <2>3, <2>5, NeighbourFollow
  <2>7. N \ {v} \in SUBSET Recorded(changed')
    BY <1>0, <2>2
  <2> QED BY <1>1, <2>4, <2>6, <2>7
<1> QED BY <1>5, <1>6

LEMMA FollowStep == ASSUME FlowTypes, RecordInv, QueueInv, UsedInv, FollowInv, FlowStep PROVE FollowInv'
<1> USE DEF estimates, lights, history
<1>1. ASSUME NEW o \in Sights, FirstLook(o) PROVE FollowInv'
  <2>1. /\ mode' = "planning" /\ g' = Far /\ rhs' = rhs /\ \A c \in Cells \ {FakeGoal} : rhs[c] = Unreachable
        /\ objects' \in [Cells -> Nat]
    BY <1>1, LookIs DEF FirstLook, QueueInv
  <2>2. ASSUME NEW c \in Cells \ {FakeGoal} PROVE Best(rhs'[c], Row(ValuesOf(objects'), g', c))
    <3>1. \A s \in Cells : Row(ValuesOf(objects'), Far, c)[s] = Unreachable
      <4>1. \A s \in Cells : EdgeFor(ValuesOf(objects'), c, s) \in Nat
        BY <2>1, ValuesType, EdgeForType
      <4>2. \A s \in Cells : AddCost(EdgeFor(ValuesOf(objects'), c, s), Unreachable) = Unreachable
        BY <4>1, SumOfFar
      <4> QED BY <4>2 DEF Row, Far
    <3> QED BY <2>1, <3>1, FarIs DEF Best
  <2> QED BY <2>1, <2>2 DEF FollowInv
<1>2. ASSUME NEW o \in Sights, Tick(o) PROVE FollowInv'
  <2>1. /\ UNCHANGED <<g, rhs, used, misled>> /\ used = ValuesOf(objects)
        /\ ~misled => \A c \in Cells \ {FakeGoal} : Best(rhs[c], Row(ValuesOf(objects), g, c))
    BY <1>2, TickIs DEF UsedInv, FollowInv, Settled
  <2>2. CASE mode' = "waiting" /\ ValuesOf(objects') = ValuesOf(objects)
    BY <2>1, <2>2 DEF FollowInv
  <2>3. CASE mode' = "repairing"
    <3>1. Mixed(Recorded(changed'), used', objects') = ValuesOf(objects)
      BY <1>2, <2>1, TickIs DEF Mixed, ValuesOf, Recorded
    <3> QED BY <2>1, <2>3, <3>1 DEF FollowInv, Settled
  <2> QED BY <1>2, <2>2, <2>3, TickIs
<1>3. ASSUME NEW u \in Cells, Expand(u) PROVE FollowInv'
  <2>1. /\ mode = "planning" /\ UNCHANGED <<mode, objects, misled>> /\ QueueHolds /\ (Lower(u) \/ Raise(u))
    BY <1>3, ExpandIs
  <2>2. ASSUME ~misled, NEW c \in Cells \ {FakeGoal} PROVE Best(rhs'[c], Row(ValuesOf(objects), g', c))
    <3>1. Best(rhs[c], Row(ValuesOf(objects), g, c))
      BY <2>1, <2>2 DEF FollowInv, Settled
    <3> QED BY <2>1, <3>1, LowerFollow, RaiseFollow
  <2> QED BY <2>1, <2>2 DEF FollowInv
<1>4. ASSUME NEW v \in Cells, ApplyChange(v) PROVE FollowInv'
  <2>1. mode' = "repairing" /\ objects' = objects
    BY <1>4 DEF ApplyChange
  <2> QED BY <1>4, <2>1, ApplyFollow DEF FollowInv, Settled
<1>5. ASSUME NEW F \in SUBSET Lights, UpdateSignaling(F) PROVE FollowInv'
  BY <1>5 DEF UpdateSignaling, FollowInv, Settled
<1>6. ASSUME Launch \/ Quit PROVE FollowInv'
  <2>1. mode' \in {"starting", "off"}
    BY <1>6 DEF Launch, Quit
  <2> QED BY <2>1 DEF FollowInv, Settled
<1>7. ASSUME GoOn PROVE FollowInv'
  <2>1. CASE mode = "planning" /\ mode' = "signaling"
    BY <1>7, <2>1 DEF GoOn, FollowInv, Settled
  <2>2. CASE mode = "repairing" /\ mode' = "planning" /\ changed = NoRecord
    <3>1. Recorded(changed) = {}
      BY <2>2 DEF Recorded, NoRecord
    <3>2. Mixed({}, used, objects) = ValuesOf(objects)
      BY DEF Mixed, ValuesOf
    <3>3. ~misled => \A c \in Cells \ {FakeGoal} : Best(rhs[c], Row(ValuesOf(objects), g, c))
      BY <2>2, <3>1, <3>2 DEF FollowInv
    <3> QED BY <1>7, <2>2, <3>3 DEF GoOn, FollowInv
  <2> QED BY <1>7, <2>1, <2>2 DEF GoOn
<1>8. ASSUME UNCHANGED vars PROVE FollowInv'
  BY <1>8 DEF vars, FollowInv
<1> QED BY <1>1, <1>2, <1>3, <1>4, <1>5, <1>6, <1>7, <1>8 DEF FlowStep

-----------------------------------------------------------------------------
(* The lights.                                                              *)

(* A replay marks the lights that what it has changed concerns: those next  *)
(* to the cell itself, the one at the cell when it was recorded.            *)
LEMMA ApplyLights ==
  ASSUME FlowTypes, RecordInv, QueueInv, LightsInv, NEW v \in Cells, ApplyChange(v), ~misled'
  PROVE  LightsNearChanges' \subseteq outdated'
<1>1. /\ ~misled /\ mode = "repairing" /\ objects' = objects
      /\ changed[v] = used[v] \/ Value(objects, v) = used[v]
      /\ touched' = IF Value(objects, v) = used[v] THEN touched ELSE touched \cup {<<v, used[v]>>}
      /\ outdated' = outdated \cup Marked(v)
  BY DEF ApplyChange, FlowTypes
<1>2. LightsNearChanges \subseteq outdated
  BY <1>1 DEF LightsInv
<1> SUFFICES ASSUME NEW l \in LightsNearChanges' PROVE l \in outdated'
  OBVIOUS
<1>3. l \in Lights /\ l \in Cells
  BY FlowFieldAssumption DEF LightsNearChanges
<1>4. PICK t \in touched' : \/ l = t[1]
                            \/ ~IsUnreachable(OldEdge(l, t[1], t[2]))
                            \/ ~IsUnreachable(Edge(objects, l, t[1]))
  BY <1>1 DEF LightsNearChanges
<1>5. CASE t \in touched
  <2>1. l \in LightsNearChanges
    BY <1>3, <1>4, <1>5 DEF LightsNearChanges
  <2> QED BY <1>1, <1>2, <2>1
<1>6. CASE t \notin touched
  <2>1. /\ changed[v] = used[v] /\ t[1] = v /\ t[2] = used[v]
    BY <1>1, <1>4, <1>6
  <2>2. CASE l = v
    <3>1. v \in Recorded(changed)
      BY DEF ApplyChange, Recorded
    <3> QED BY <1>1, <1>3, <2>1, <2>2, <3>1 DEF LightsInv
  <2>3. CASE l # v
    <3>1. l \in Affected(v)
      BY <1>3, <1>4, <2>1, <2>3 DEF Affected
    <3> QED BY <1>1, <1>3, <3>1 DEF Marked
  <2> QED BY <2>2, <2>3
<1> QED BY <1>5, <1>6

LEMMA LightsStep == ASSUME FlowTypes, RecordInv, QueueInv, UsedInv, LightsInv, FlowStep PROVE LightsInv'
<1> USE DEF estimates, lights, history
<1>0. touched = {} => LightsNearChanges = {}
  BY DEF LightsNearChanges
<1>00. touched' = {} => LightsNearChanges' = {}
  BY DEF LightsNearChanges
<1>1. ASSUME NEW o \in Sights, FirstLook(o) PROVE LightsInv'
  <2>1. mode' = "planning" /\ touched' = {}
    BY <1>1 DEF FirstLook, RecordInv
  <2> QED BY <1>00, <2>1 DEF LightsInv, LightsNearChangesFollow
<1>2. ASSUME NEW o \in Sights, Tick(o) PROVE LightsInv'
  <2>1. /\ touched' = {} /\ used' = used /\ mode' # "planning" /\ mode' # "signaling"
        /\ Look(o) \/ LookFails
    BY <1>2, TickIs DEF Tick
  <2>2. ASSUME NEW l \in Lights \cap Recorded(changed'), changed'[l] = used'[l] PROVE l \in outdated'
    <3>1. mode = "waiting" /\ l \in Cells
      BY <1>2 DEF Tick, Recorded
    <3>2. ~(l \in Recorded(changed) /\ changed'[l] = changed[l])
      BY <2>1, <2>2, <3>1 DEF RecordInv, Settled
    <3> QED BY <2>1, <2>2, <3>2, LookIs
  <2> QED BY <1>00, <2>1, <2>2 DEF LightsInv, LightsNearChangesFollow
<1>3. ASSUME NEW u \in Cells, Expand(u) PROVE LightsInv'
  <2>1. mode = "planning" /\ UNCHANGED <<mode, objects, changed, outdated, touched, misled, used>>
    BY <1>3, ExpandIs
  <2>2. LightsNearChanges' = LightsNearChanges
    BY <2>1 DEF LightsNearChanges
  <2> QED BY <2>1, <2>2 DEF LightsInv, LightsNearChangesFollow
<1>4. ASSUME NEW v \in Cells, ApplyChange(v) PROVE LightsInv'
  <2>1. /\ mode = "repairing" /\ mode' = "repairing"
        /\ \A c \in Cells \ {v} : used'[c] = used[c] /\ changed'[c] = changed[c]
        /\ v \notin Recorded(changed') /\ outdated \subseteq outdated'
    BY <1>4 DEF ApplyChange, FlowTypes, Costs0, Recorded
  <2>2. ASSUME NEW l \in Lights \cap Recorded(changed'), changed'[l] = used'[l] PROVE l \in outdated'
    BY <2>1, <2>2 DEF LightsInv, Recorded
  <2> QED BY <1>4, <2>1, <2>2, ApplyLights DEF LightsInv, LightsNearChangesFollow
<1>5. ASSUME NEW F \in SUBSET Lights, UpdateSignaling(F) PROVE LightsInv'
  <2>1. /\ mode = "signaling" /\ mode' = "waiting" /\ UNCHANGED <<g, objects, touched, misled>>
        /\ oldG' = [l \in Lights |-> IF l \in Due \ F THEN g[l] ELSE oldG[l]]
        /\ failed' = (failed \ Due) \cup F
    BY <1>5 DEF UpdateSignaling
  <2>2. ASSUME ~misled, NEW l \in LightsNearChanges \ failed' PROVE Abs(g[l] - oldG'[l]) < Hysteresis
    <3>1. l \in outdated /\ l \in Lights /\ l \in Cells /\ l \notin F
      BY <2>1, <2>2, FlowFieldAssumption DEF LightsInv, LightsNearChanges
    <3>2. g[l] \in Nat /\ oldG[l] \in Nat /\ Hysteresis \in Nat \ {0}
      BY <3>1, FlowFieldAssumption, CostsAssumption DEF FlowTypes, Costs0
    <3>3. CASE l \in Due
      BY <2>1, <3>1, <3>2, <3>3 DEF Abs
    <3>4. CASE l \notin Due
      BY <2>1, <3>1, <3>2, <3>4 DEF Due, Abs
    <3> QED BY <3>3, <3>4
  <2>3. LightsNearChanges' = LightsNearChanges
    BY <2>1 DEF LightsNearChanges
  <2> QED BY <2>1, <2>2, <2>3 DEF LightsInv, LightsNearChangesFollow
<1>6. ASSUME Launch \/ Quit PROVE LightsInv'
  <2>1. mode' \in {"starting", "off"}
    BY <1>6 DEF Launch, Quit
  <2> QED BY <2>1 DEF LightsInv, LightsNearChangesFollow
<1>7. ASSUME GoOn PROVE LightsInv'
  <2>1. /\ mode \in {"planning", "repairing"} /\ mode' \in {"planning", "signaling"}
        /\ UNCHANGED <<objects, touched, outdated, misled>>
    BY <1>7 DEF GoOn
  <2>2. LightsNearChanges' = LightsNearChanges
    BY <2>1 DEF LightsNearChanges
  <2> QED BY <2>1, <2>2 DEF LightsInv, LightsNearChangesFollow
<1>8. ASSUME UNCHANGED vars PROVE LightsInv'
  <2>1. UNCHANGED <<mode, g, objects, changed, used, oldG, outdated, touched, misled, failed>>
    BY <1>8 DEF vars
  <2>2. LightsNearChanges' = LightsNearChanges
    BY <2>1 DEF LightsNearChanges
  <2> QED BY <2>1, <2>2 DEF LightsInv, LightsNearChangesFollow
<1> QED BY <1>1, <1>2, <1>3, <1>4, <1>5, <1>6, <1>7, <1>8 DEF FlowStep

-----------------------------------------------------------------------------
(* The theorems.                                                            *)

LEMMA InvInit == ASSUME Init PROVE FlowInv
<1>1. FlowTypes
  <2>1. mode \in Modes /\ misled \in BOOLEAN
    BY DEF Init, Modes
  <2> QED BY <2>1, NewTypes, FarIs DEF Init, FlowTypes
<1>2. RecordInv
  <2>1. Recorded(changed) = {}
    BY DEF Init, Recorded, NoRecord
  <2> QED BY <2>1 DEF Init, RecordInv, Settled, Clean
<1>3. QueueInv
  BY DEF Init, QueueInv, Far, EmptyQueue
<1>4. UsedInv /\ FollowInv
  BY DEF Init, UsedInv, FollowInv, Settled
<1>5. LightsInv
  BY DEF Init, LightsInv, LightsNearChangesFollow
<1> QED BY <1>1, <1>2, <1>3, <1>4, <1>5 DEF FlowInv

(* On every map, through every emergency: the types, the record of changes, *)
(* the queue, the look-aheads and the lights, in every state of every run.  *)
THEOREM Invariance == Spec => []FlowInv
<1>1. Init => FlowInv
  BY InvInit
<1>2. FlowInv /\ [Next]_vars => FlowInv'
  BY NextIs, TypesStep, RecordStep, QueueStep, UsedStep, FollowStep, LightsStep DEF FlowInv
<1> QED BY <1>1, <1>2, PTL DEF Spec

(* The estimates, keys and recorded costs of an emergency's planner keep    *)
(* their types.                                                             *)
THEOREM TypeCorrect == Spec => []FlowTypes
<1>1. FlowInv => FlowTypes
  BY DEF FlowInv
<1> QED BY <1>1, Invariance, PTL

(* Between two rounds, what computeShortestPath leaves in g is the cost of  *)
(* the cheapest way out from every cell, on every map, with every portal    *)
(* and however often objects have come, gone and changed.                   *)
THEOREM FlowStaysDistance == Spec => []FlowIsDistance
<1>1. FlowInv => FlowIsDistance
  <2> SUFFICES ASSUME FlowInv, mode = "waiting", ~misled PROVE g = Distance(objects)
    BY DEF FlowIsDistance
  <2>1. objects \in [Cells -> Nat] /\ g \in Costs0 /\ g = rhs /\ rhs[FakeGoal] = 0
    BY DEF FlowInv, FlowTypes, QueueInv
  <2>2. ASSUME NEW c \in Cells \ {FakeGoal} PROVE g[c] = LookAhead(objects, g, c)
    <3>1. Best(rhs[c], Row(ValuesOf(objects), g, c))
      BY DEF FlowInv, FollowInv, Settled
    <3>2. /\ Best(LookAhead(objects, g, c), Row(ValuesOf(objects), g, c))
          /\ LookAhead(objects, g, c) \in 0..Unreachable
      BY <2>1, LookAheadIs
    <3>3. Row(ValuesOf(objects), g, c) \in Costs0 /\ rhs[c] \in 0..Unreachable
      BY <2>1, RowType, ValuesType DEF Costs0
    <3> QED BY <2>1, <3>1, <3>2, <3>3, BestIsUnique
  <2>3. Consistent(objects, g)
    BY <2>1, <2>2 DEF Consistent
  <2> QED BY <2>1, <2>3, ConsistentIsDistance
<1> QED BY <1>1, Invariance, PTL

(* Of the lights that a change concerns, updateSignaling forgets none: each *)
(* is up to date after the round, or its call has failed.                   *)
THEOREM LightsFollow == Spec => []LightsNearChangesFollow
<1>1. FlowInv => LightsNearChangesFollow
  BY DEF FlowInv, LightsInv
<1> QED BY <1>1, Invariance, PTL
=============================================================================
