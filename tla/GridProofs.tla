----------------------------- MODULE GridProofs -----------------------------
(* The layers of Grid stay consistent, for any floor, any number of runs,  *)
(* and any objects and preference paths.                                   *)
EXTENDS Grid, TLAPS

(* An object closes a corridor only if it is impassable itself.            *)
LEMMA SumIsOpen ==
  ASSUME NEW b \in CorridorCosts, NEW o \in ObjectCosts
  PROVE  /\ AddCost(b, o) \in 1..Unreachable
         /\ IsUnreachable(AddCost(b, o)) <=> IsUnreachable(o)
BY GridAssumption DEF AddCost, IsUnreachable, CorridorCosts

(* A discount leaves the base cost of a corridor positive.                 *)
LEMMA LoweredIsOpen ==
  ASSUME NEW b \in CorridorCosts, NEW m \in Masks
  PROVE  Lowered(b, m) \in CorridorCosts
BY GridAssumption DEF Lowered, AddCost, IsUnreachable, CorridorCosts

(* Two sums with a passable object are equal only if their bases are.      *)
LEMMA EqualSums ==
  ASSUME NEW a \in CorridorCosts, NEW b \in CorridorCosts, NEW o \in ObjectCosts,
         AddCost(a, o) = AddCost(b, o), ~IsUnreachable(o)
  PROVE  a = b
BY GridAssumption DEF AddCost, IsUnreachable, CorridorCosts

(* On a map, walls cost nothing and corridors cost something.              *)
LEMMA MapIsOpen ==
  ASSUME NEW m \in FloorMaps
  PROVE  /\ m \in [Cells -> Costs]
         /\ \A c \in Walls : m[c] = 0
         /\ \A c \in Open : m[c] \in CorridorCosts
<1>1. {0, EmptySpace, 2 * EmptySpace} \subseteq Costs
  BY GridAssumption DEF Costs, CorridorCosts
<1>2. /\ m \in [Cells -> {0, EmptySpace, 2 * EmptySpace}]
      /\ \A c \in Cells : m[c] = 0 <=> c \in Walls
  BY DEF FloorMaps
<1>3. \A c \in Walls : m[c] = 0
  BY <1>2, GridAssumption
<1>4. {EmptySpace, 2 * EmptySpace} \subseteq CorridorCosts
  BY GridAssumption DEF CorridorCosts
<1>5. \A c \in Open : m[c] \in {EmptySpace, 2 * EmptySpace}
  BY <1>2 DEF Open
<1> QED BY <1>1, <1>2, <1>3, <1>4, <1>5

(* What rewriting some corridors of a grid does to its planner.            *)
LEMMA RewriteKeeps ==
  ASSUME TypeOK, NoChangeIsLost, ReplayedCostWasUsed,
         NEW g \in Grids, NEW S \in SUBSET Open, NEW b, NEW o,
         \A c \in S : b[c] \in CorridorCosts /\ o[c] \in ObjectCosts,
         Rewrite(g, S, b, o), UNCHANGED <<watch, seen, early>>
  PROVE  /\ final' \in [Grids -> [Cells -> Costs]]
         /\ changed' \in [Grids -> [Cells -> Costs \cup {Unrecorded}]]
         /\ \A c \in S : final'[g][c] = AddCost(b[c], o[c])
         /\ \A h \in Grids, c \in Cells : h # g \/ c \notin S => final'[h][c] = final[h][c]
         /\ NoChangeIsLost' /\ ReplayedCostWasUsed'
<1>1. \A c \in S : c \in Cells /\ AddCost(b[c], o[c]) \in Costs
  <2> SUFFICES ASSUME NEW c \in S PROVE c \in Cells /\ AddCost(b[c], o[c]) \in Costs
    OBVIOUS
  <2>1. AddCost(b[c], o[c]) \in 1..Unreachable
    BY SumIsOpen
  <2> QED BY <2>1, GridAssumption DEF Costs, Open
<1>2. /\ final' \in [Grids -> [Cells -> Costs]]
      /\ \A h \in Grids, c \in Cells :
           final'[h][c] = IF h = g /\ c \in S THEN AddCost(b[c], o[c]) ELSE final[h][c]
  BY <1>1 DEF Rewrite, TypeOK
<1>3. /\ changed' \in [Grids -> [Cells -> Costs \cup {Unrecorded}]]
      /\ \A h \in Grids, c \in Cells :
           changed'[h][c] = IF h = g /\ watch[h] # "off" /\ c \in S /\ changed[h][c] = Unrecorded
                            THEN final[h][c] ELSE changed[h][c]
  BY DEF Rewrite, Record, TypeOK
<1>4. \A h \in Grids, c \in Cells : final[h][c] # Unrecorded
  BY GridAssumption DEF Costs, TypeOK
<1>5. NoChangeIsLost'
  BY <1>2, <1>3, <1>4 DEF NoChangeIsLost
<1>6. ReplayedCostWasUsed'
  BY <1>2, <1>3, <1>4 DEF NoChangeIsLost, ReplayedCostWasUsed
<1> QED BY <1>1, <1>2, <1>3, <1>5, <1>6

LEMMA InitInv == Init => IInv
<1> SUFFICES ASSUME Init PROVE IInv
  OBVIOUS
<1>0. /\ original \in FloorMaps /\ original \in [Cells -> Costs]
      /\ \A c \in Walls : original[c] = 0
      /\ \A c \in Open : original[c] \in CorridorCosts
  BY MapIsOpen DEF Init
<1>1. TypeOK
  <2>1. Nowhere \in Objects /\ NoRecord \in [Cells -> Costs \cup {Unrecorded}]
    BY GridAssumption DEF Nowhere, NoRecord, Objects
  <2>2. Nowhere \in [Cells -> Masks]
    BY GridAssumption DEF Nowhere
  <2> QED BY <1>0, <2>1, <2>2 DEF Init, TypeOK, Idle
<1>2. BaseInv /\ JobInv
  BY <1>0 DEF Init, BaseInv, JobInv, Idle, Grids
<1>3. NoChangeIsLost /\ ReplayedCostWasUsed /\ ResetLeavesNoDiscount
  BY DEF Init, NoChangeIsLost, ReplayedCostWasUsed, ResetLeavesNoDiscount
<1>4. \A c \in Open : AddCost(original[c], 0) = original[c]
  BY <1>0, GridAssumption DEF AddCost, IsUnreachable, CorridorCosts
<1>5. GlobalFinalIsSum
  <2>1. \A c \in Open : /\ final[Global][c] = original[c]
                        /\ base[c] = original[c] /\ objects[Global][c] = 0
    BY DEF Init, Nowhere, Grids, Open
  <2> QED BY <1>4, <2>1 DEF GlobalFinalIsSum
<1>6. ClosedByObjectsOnly
  <2>1. \A g \in Grids, c \in Cells : final[g][c] = original[c] /\ objects[g][c] = 0
    BY DEF Init, Nowhere
  <2>2. \A c \in Cells : IsBlocked(original[c]) <=> c \in Walls
    <3>1. \A c \in Walls : IsBlocked(original[c])
      BY <1>0 DEF IsBlocked
    <3>2. \A n \in CorridorCosts : ~IsBlocked(n)
      BY GridAssumption DEF IsBlocked, IsUnreachable, CorridorCosts
    <3> QED BY <1>0, <3>1, <3>2 DEF Open
  <2>3. ~IsUnreachable(0)
    BY GridAssumption DEF IsUnreachable
  <2> QED BY <2>1, <2>2, <2>3 DEF ClosedByObjectsOnly
<1> QED BY <1>1, <1>2, <1>3, <1>5, <1>6 DEF IInv

(* An agent's vision writes its own floor only. *)
LEMMA VisionKeepsInv ==
  ASSUME IInv, NEW a \in Agents, NEW o \in Regions, ReplaceObjectRegion(a, o)
  PROVE  IInv'
<1> DEFINE S == {c \in Open \cap DOMAIN o : objects[a][c] # o[c]}
<1>1. /\ a \in Grids /\ a # Global /\ S \in SUBSET Open /\ S \subseteq Cells
      /\ \A c \in S : base[c] \in CorridorCosts /\ o[c] \in ObjectCosts
  BY GridAssumption DEF IInv, BaseInv, Grids, Regions, Open
<1>2. /\ objects' = [objects EXCEPT ![a] =
                       [c \in Cells |-> IF c \in S THEN o[c] ELSE objects[a][c]]]
      /\ Rewrite(a, S, base, o)
      /\ UNCHANGED <<original, base, watch, emergency, job, seen, early>>
  BY DEF ReplaceObjectRegion
<1> HIDE DEF S
<1>3. /\ final' \in [Grids -> [Cells -> Costs]]
      /\ changed' \in [Grids -> [Cells -> Costs \cup {Unrecorded}]]
      /\ \A c \in S : final'[a][c] = AddCost(base[c], o[c])
      /\ \A h \in Grids, c \in Cells : h # a \/ c \notin S => final'[h][c] = final[h][c]
      /\ NoChangeIsLost' /\ ReplayedCostWasUsed'
  BY <1>1, <1>2, RewriteKeeps DEF IInv
<1>4. /\ objects' \in [Grids -> Objects]
      /\ \A h \in Grids, c \in Cells :
           objects'[h][c] = IF h = a /\ c \in S THEN o[c] ELSE objects[h][c]
  BY <1>1, <1>2 DEF IInv, TypeOK, Objects
<1>5. TypeOK'
  BY <1>2, <1>3, <1>4 DEF IInv, TypeOK
<1>6. BaseInv'
  BY <1>1, <1>2, <1>3, GridAssumption DEF IInv, BaseInv, Open
<1>7. Global \in Grids
  BY DEF Grids
<1>8. \A c \in Open : /\ final'[Global][c] = final[Global][c]
                      /\ objects'[Global][c] = objects[Global][c]
  BY <1>1, <1>3, <1>4, <1>7 DEF Open
<1>10. JobInv' /\ ResetLeavesNoDiscount' /\ GlobalFinalIsSum'
  BY <1>2, <1>8 DEF IInv, JobInv, ResetLeavesNoDiscount, GlobalFinalIsSum
<1>9. ClosedByObjectsOnly'
  <2>1. SUFFICES ASSUME NEW h \in Grids, NEW c \in Cells
                 PROVE  IsBlocked(final'[h][c]) <=> c \in Walls \/ IsUnreachable(objects'[h][c])
    BY DEF ClosedByObjectsOnly
  <2>2. CASE h = a /\ c \in S
    <3>1. /\ AddCost(base[c], o[c]) \in 1..Unreachable
          /\ IsUnreachable(AddCost(base[c], o[c])) <=> IsUnreachable(o[c])
      BY <1>1, <2>2, SumIsOpen
    <3>2. IsBlocked(AddCost(base[c], o[c])) <=> IsUnreachable(o[c])
      BY <3>1 DEF IsBlocked
    <3> QED BY <1>1, <1>3, <1>4, <2>2, <3>2 DEF Open
  <2>3. CASE h # a \/ c \notin S
    BY <1>3, <1>4, <2>3 DEF IInv, ClosedByObjectsOnly
  <2> QED BY <2>2, <2>3
<1> QED BY <1>3, <1>5, <1>6, <1>9, <1>10 DEF IInv

(* A refresh writes the objects of the global floor and every sum of it.   *)
LEMMA RefreshKeepsInv ==
  ASSUME IInv, NEW o \in Objects, UpdateFinal(o)
  PROVE  IInv'
<1> DEFINE S == {c \in Open : final[Global][c] # AddCost(base[c], o[c])}
<1>1. /\ Global \in Grids /\ S \in SUBSET Open
      /\ \A c \in Open : base[c] \in CorridorCosts /\ o[c] \in ObjectCosts
  BY DEF IInv, BaseInv, Grids, Objects, Open
<1>2. /\ emergency = "running"
      /\ objects' = [objects EXCEPT ![Global] = o]
      /\ Rewrite(Global, S, base, o)
      /\ UNCHANGED <<original, base, watch, emergency, job, seen, early>>
  BY DEF UpdateFinal
<1>3. /\ final' \in [Grids -> [Cells -> Costs]]
      /\ changed' \in [Grids -> [Cells -> Costs \cup {Unrecorded}]]
      /\ \A c \in S : final'[Global][c] = AddCost(base[c], o[c])
      /\ \A h \in Grids, c \in Cells : h # Global \/ c \notin S => final'[h][c] = final[h][c]
      /\ NoChangeIsLost' /\ ReplayedCostWasUsed'
  <2>1. \A c \in S : base[c] \in CorridorCosts /\ o[c] \in ObjectCosts
    BY <1>1
  <2> HIDE DEF S
  <2> QED BY <1>1, <1>2, <2>1, RewriteKeeps DEF IInv
<1>4. /\ objects' \in [Grids -> Objects]
      /\ objects'[Global] = o /\ \A h \in Agents : objects'[h] = objects[h]
  BY <1>1, <1>2, GridAssumption DEF IInv, TypeOK, Grids
<1>5. \A c \in Open : final'[Global][c] = AddCost(base[c], o[c])
  BY <1>1, <1>3 DEF Open
<1>6. \A h \in Grids, c \in Cells : h # Global \/ c \in Walls => final'[h][c] = final[h][c]
  BY <1>3 DEF Open
<1>7. TypeOK'
  BY <1>2, <1>3, <1>4 DEF IInv, TypeOK
<1>8. BaseInv'
  BY <1>2, <1>6, GridAssumption DEF IInv, BaseInv
<1>9. GlobalFinalIsSum'
  BY <1>2, <1>4, <1>5 DEF GlobalFinalIsSum
<1>10. JobInv' /\ ResetLeavesNoDiscount'
  BY <1>2 DEF IInv, JobInv, ResetLeavesNoDiscount
<1>11. ClosedByObjectsOnly'
  <2>1. SUFFICES ASSUME NEW h \in Grids, NEW c \in Cells
                 PROVE  IsBlocked(final'[h][c]) <=> c \in Walls \/ IsUnreachable(objects'[h][c])
    BY DEF ClosedByObjectsOnly
  <2>2. CASE h = Global /\ c \in Open
    <3>1. /\ AddCost(base[c], o[c]) \in 1..Unreachable
          /\ IsUnreachable(AddCost(base[c], o[c])) <=> IsUnreachable(o[c])
      BY <1>1, <2>2, SumIsOpen
    <3> QED BY <1>4, <1>5, <2>2, <3>1 DEF IsBlocked, Open
  <2>3. CASE c \in Walls
    BY <1>8, <2>3 DEF BaseInv, IsBlocked
  <2>4. CASE h # Global
    BY <1>4, <1>6, <2>4 DEF IInv, ClosedByObjectsOnly, Grids
  <2> QED BY <2>2, <2>3, <2>4 DEF Open
<1> QED BY <1>3, <1>7, <1>8, <1>9, <1>10, <1>11 DEF IInv

(* A write of the base layer, by a mask or by a reset, of cell c.          *)
LEMMA BaseWriteKeeps ==
  ASSUME IInv, NEW c \in Open, NEW b \in CorridorCosts,
         NEW S, S = {c} \/ (S = {} /\ b = base[c]),
         base' \in [Cells -> Costs],
         \A d \in Cells : base'[d] = IF d = c THEN b ELSE base[d],
         NEW written, \A d \in S : written[d] = base'[d],
         Rewrite(Global, S, written, objects[Global]),
         UNCHANGED <<original, objects, watch, emergency, seen, early>>
  PROVE  /\ final' \in [Grids -> [Cells -> Costs]]
         /\ changed' \in [Grids -> [Cells -> Costs \cup {Unrecorded}]]
         /\ BaseInv' /\ NoChangeIsLost' /\ ReplayedCostWasUsed'
         /\ GlobalFinalIsSum' /\ ClosedByObjectsOnly'
<1>1. /\ Global \in Grids /\ S \in SUBSET Open /\ c \in Cells /\ c \notin Walls
      /\ base \in [Cells -> Costs] /\ b \in Costs
      /\ \A d \in Open : d \in Cells /\ objects[Global][d] \in ObjectCosts
  BY GridAssumption DEF IInv, TypeOK, Grids, Objects, Open, Costs, CorridorCosts
<1>2. base'[c] = b /\ \A d \in Cells : d # c => base'[d] = base[d]
  BY <1>1
<1>3. /\ final' \in [Grids -> [Cells -> Costs]]
      /\ changed' \in [Grids -> [Cells -> Costs \cup {Unrecorded}]]
      /\ \A d \in S : final'[Global][d] = AddCost(base'[d], objects[Global][d])
      /\ \A h \in Grids, d \in Cells : h # Global \/ d \notin S => final'[h][d] = final[h][d]
      /\ NoChangeIsLost' /\ ReplayedCostWasUsed'
  <2>1. \A d \in S : written[d] \in CorridorCosts /\ objects[Global][d] \in ObjectCosts
    BY <1>1, <1>2
  <2>2. /\ TypeOK /\ NoChangeIsLost /\ ReplayedCostWasUsed
        /\ UNCHANGED <<watch, seen, early>>
    BY DEF IInv
  <2>3. /\ \A h \in Grids, d \in Cells : h # Global \/ d \notin S => final'[h][d] = final[h][d]
        /\ final' \in [Grids -> [Cells -> Costs]]
        /\ changed' \in [Grids -> [Cells -> Costs \cup {Unrecorded}]]
        /\ NoChangeIsLost' /\ ReplayedCostWasUsed'
    BY <1>1, <2>1, <2>2, RewriteKeeps
  <2>5. \A d \in S : final'[Global][d] = AddCost(written[d], objects[Global][d])
    <3>1. final' = [final EXCEPT ![Global] = [d \in Cells |->
                      IF d \in S THEN AddCost(written[d], objects[Global][d])
                      ELSE final[Global][d]]]
      BY DEF Rewrite
    <3> QED BY <1>1, <3>1 DEF IInv, TypeOK, Open
  <2>4. \A d \in S : d \in Cells /\ written[d] = base'[d]
    BY <1>1
  <2> QED BY <2>3, <2>4, <2>5
<1>4. BaseInv'
  BY <1>1, <1>2, <1>3, GridAssumption DEF IInv, BaseInv, Open
<1>5. GlobalFinalIsSum'
  BY <1>1, <1>2, <1>3 DEF IInv, GlobalFinalIsSum
<1>6. ClosedByObjectsOnly'
  <2>1. \A d \in Open : /\ AddCost(base'[d], objects[Global][d]) \in 1..Unreachable
                        /\ IsUnreachable(AddCost(base'[d], objects[Global][d]))
                             <=> IsUnreachable(objects[Global][d])
    BY <1>1, <1>4, SumIsOpen DEF BaseInv
  <2>2. SUFFICES ASSUME NEW h \in Grids, NEW d \in Cells
                 PROVE  IsBlocked(final'[h][d]) <=> d \in Walls \/ IsUnreachable(objects'[h][d])
    BY DEF ClosedByObjectsOnly
  <2>3. CASE h = Global /\ d \in S
    <3>1. final'[h][d] = AddCost(base'[d], objects[Global][d]) /\ d \in Open
      BY <1>1, <1>3, <2>3
    <3>2. IsBlocked(AddCost(base'[d], objects[Global][d])) <=> IsUnreachable(objects[Global][d])
      <4> DEFINE sum == AddCost(base'[d], objects[Global][d])
      <4>1. sum \in 1..Unreachable /\ (IsUnreachable(sum) <=> IsUnreachable(objects[Global][d]))
        BY <2>1, <3>1
      <4>2. sum > 0
        BY <4>1, GridAssumption
      <4> HIDE DEF sum
      <4>3. ~(sum <= 0)
        BY <4>1, <4>2
      <4>4. IsBlocked(sum) <=> IsUnreachable(objects[Global][d])
        BY <4>1, <4>3 DEF IsBlocked
      <4> QED BY <4>4 DEF sum
    <3>3. objects'[h][d] = objects[Global][d]
      BY <2>3
    <3> QED BY <3>1, <3>2, <3>3 DEF Open
  <2>4. CASE ~(h = Global /\ d \in S)
    <3>1. final'[h][d] = final[h][d]
      BY <1>3, <2>4
    <3> QED BY <3>1 DEF IInv, ClosedByObjectsOnly
  <2> QED BY <2>3, <2>4
<1> QED BY <1>2, <1>3, <1>4, <1>5, <1>6

LEMMA MaskKeepsInv ==
  ASSUME IInv, NEW c \in Cells, WriteMask(c)
  PROVE  IInv'
<1>1. /\ c \in Open /\ job.mask[c] \in Masks /\ emergency = "preferring"
      /\ base[c] \in CorridorCosts
  BY DEF IInv, TypeOK, BaseInv, JobInv, WriteMask
<1>2. Lowered(base[c], job.mask[c]) \in CorridorCosts
  BY <1>1, LoweredIsOpen
<1> DEFINE b == Lowered(base[c], job.mask[c])
           written == [base EXCEPT ![c] = b]
<1>6. /\ base' = written
      /\ Rewrite(Global, {c}, written, objects[Global])
      /\ UNCHANGED <<original, objects, watch, emergency, seen, early>>
      /\ job' = [job EXCEPT !.todo = job.todo \ {c}]
  <2>1. Rewrite(Global, {c}, base', objects[Global]) /\ base' = written
    BY DEF WriteMask
  <2>2. Rewrite(Global, {c}, written, objects[Global])
    BY <2>1 DEF Rewrite
  <2> QED BY <2>1, <2>2 DEF WriteMask
<1>3. /\ base' \in [Cells -> Costs]
      /\ final' \in [Grids -> [Cells -> Costs]]
      /\ changed' \in [Grids -> [Cells -> Costs \cup {Unrecorded}]]
      /\ BaseInv' /\ NoChangeIsLost' /\ ReplayedCostWasUsed'
      /\ GlobalFinalIsSum' /\ ClosedByObjectsOnly'
  <2>1. /\ b \in CorridorCosts /\ base' \in [Cells -> Costs]
        /\ \A d \in Cells : base'[d] = IF d = c THEN b ELSE base[d]
        /\ \A d \in {c} : written[d] = base'[d]
    BY <1>2, <1>6, GridAssumption DEF IInv, TypeOK, Costs, CorridorCosts
  <2> HIDE DEF b, written
  <2>2. UNCHANGED <<original, objects, watch, emergency, seen, early>>
    BY <1>6
  <2> QED BY <1>1, <1>6, <2>1, <2>2, BaseWriteKeeps
<1> HIDE DEF b, written
<1>4. TypeOK'
  BY <1>3, <1>6 DEF IInv, TypeOK
<1>5. JobInv' /\ ResetLeavesNoDiscount'
  <2>1. job.kind = "mask"
    BY DEF WriteMask
  <2> QED BY <1>1, <1>6, <2>1 DEF IInv, TypeOK, JobInv, ResetLeavesNoDiscount
<1> QED BY <1>3, <1>4, <1>5 DEF IInv

(* A reset that skips a cell finds it at the cost of empty space, or under *)
(* an impassable object.                                                   *)
LEMMA ResetKeepsInv ==
  ASSUME IInv, NEW c \in Cells, WriteReset(c)
  PROVE  IInv'
<1>1. /\ c \in Open /\ emergency = "stopping" /\ job.kind = "reset"
      /\ base[c] \in CorridorCosts /\ base \in [Cells -> Costs]
      /\ EmptySpace \in CorridorCosts
      /\ \A d \in Open : objects[Global][d] \in ObjectCosts
  BY GridAssumption DEF IInv, TypeOK, BaseInv, JobInv, WriteReset, Grids, Objects, Open, CorridorCosts
<1> DEFINE b == IF Reset(c) THEN EmptySpace ELSE base[c]
           S == IF Reset(c) THEN {c} ELSE {}
           written == [base EXCEPT ![c] = b]
<1>2. /\ b \in CorridorCosts /\ (S = {c} \/ (S = {} /\ b = base[c]))
      /\ base' = written
      /\ Rewrite(Global, S, written, objects[Global])
      /\ UNCHANGED <<original, objects, watch, emergency, seen, early>>
  <2>1. /\ Rewrite(Global, S, base', objects[Global])
        /\ base' = IF Reset(c) THEN [base EXCEPT ![c] = EmptySpace] ELSE base
        /\ UNCHANGED <<original, objects, watch, emergency, seen, early>>
    BY DEF WriteReset
  <2>2. base' = written
    BY <1>1, <2>1
  <2>3. Rewrite(Global, S, written, objects[Global])
    <3> HIDE DEF written, S
    <3> QED BY <2>1, <2>2 DEF Rewrite
  <2>4. b \in CorridorCosts /\ (S = {c} \/ (S = {} /\ b = base[c]))
    BY <1>1
  <2> QED BY <2>1, <2>2, <2>3, <2>4
<1>3. b = EmptySpace \/ IsUnreachable(objects[Global][c])
  <2>1. CASE ~Reset(c)
    <3>1. AddCost(base[c], objects[Global][c]) = AddCost(EmptySpace, objects[Global][c])
      BY <1>1, <2>1 DEF IInv, GlobalFinalIsSum, Reset
    <3> QED BY <1>1, <2>1, <3>1, EqualSums
  <2> QED BY <2>1
<1>9. /\ base' \in [Cells -> Costs]
      /\ \A d \in Cells : base'[d] = IF d = c THEN b ELSE base[d]
      /\ \A d \in S : written[d] = base'[d]
  BY <1>1, <1>2, GridAssumption DEF Costs, CorridorCosts
<1> HIDE DEF b, S, written
<1>4. /\ base' \in [Cells -> Costs]
      /\ final' \in [Grids -> [Cells -> Costs]]
      /\ changed' \in [Grids -> [Cells -> Costs \cup {Unrecorded}]]
      /\ BaseInv' /\ NoChangeIsLost' /\ ReplayedCostWasUsed'
      /\ GlobalFinalIsSum' /\ ClosedByObjectsOnly'
  BY <1>1, <1>2, <1>9, BaseWriteKeeps
<1>5. job' = [job EXCEPT !.todo = job.todo \ {c}]
  BY DEF WriteReset
<1>6. TypeOK'
  BY <1>2, <1>4, <1>5 DEF IInv, TypeOK
<1>7. JobInv'
  <2>1. \A d \in Open \ job'.todo : base'[d] = EmptySpace \/ IsUnreachable(objects'[Global][d])
    <3>1. \A d \in Open : d # c => base'[d] = base[d]
      BY <1>1, <1>2, <1>9 DEF Open
    <3>2. base'[c] = b
      BY <1>1, <1>2, <1>9 DEF Open
    <3> QED BY <1>1, <1>2, <1>3, <1>5, <3>1, <3>2 DEF IInv, TypeOK, JobInv
  <2> QED BY <1>1, <1>2, <1>5, <2>1 DEF IInv, TypeOK, JobInv
<1>8. ResetLeavesNoDiscount'
  BY <1>1, <1>2 DEF ResetLeavesNoDiscount
<1> QED BY <1>4, <1>6, <1>7, <1>8 DEF IInv

(* What the actions that write no layer leave as it was. *)
LayerFacts == /\ BaseInv /\ GlobalFinalIsSum /\ ClosedByObjectsOnly

LEMMA UnchangedLayers == ASSUME LayerFacts, UNCHANGED layers PROVE LayerFacts'
BY DEF LayerFacts, BaseInv, GlobalFinalIsSum, ClosedByObjectsOnly, layers

LEMMA UnchangedPlanners ==
  ASSUME NoChangeIsLost, ReplayedCostWasUsed, UNCHANGED <<layers, planners, seen, early>>
  PROVE  NoChangeIsLost' /\ ReplayedCostWasUsed'
BY DEF NoChangeIsLost, ReplayedCostWasUsed, layers, planners

(* The steps of an emergency that only begin or end a job. *)
LEMMA JobKeepsInv ==
  ASSUME IInv, ResetBase \/ EndJob \/ (\E m \in [Cells -> Masks] : MaskBaseRegion(m))
  PROVE  IInv'
<1>1. UNCHANGED <<layers, planners, seen, early>>
  BY DEF ResetBase, EndJob, MaskBaseRegion
<1>2. NoChangeIsLost' /\ ReplayedCostWasUsed' /\ LayerFacts'
  BY <1>1, UnchangedLayers, UnchangedPlanners DEF IInv, LayerFacts
<1>3. TypeOK' /\ JobInv' /\ ResetLeavesNoDiscount'
  <2>1. Nowhere \in [Cells -> Masks]
    BY GridAssumption DEF Nowhere
  <2>2. UNCHANGED <<original, base, objects, final, watch, changed, seen, early>>
    BY <1>1 DEF layers, planners
  <2>3. CASE ResetBase
    <3>1. /\ job' = [kind |-> "reset", todo |-> Open, mask |-> Nowhere]
          /\ emergency' = "stopping" /\ emergency # "running"
      BY <2>3 DEF ResetBase, Idle
    <3>2. TypeOK'
      BY <2>1, <2>2, <3>1 DEF IInv, TypeOK
    <3> QED BY <2>2, <3>1, <3>2 DEF IInv, JobInv, ResetLeavesNoDiscount
  <2>4. CASE EndJob
    <3>1. /\ job' = Idle /\ job.todo = {} /\ job.kind \in {"mask", "reset"}
          /\ emergency' = IF job.kind = "reset" THEN "stopped" ELSE emergency
      BY <2>4 DEF EndJob, IInv, TypeOK
    <3>2. TypeOK'
      BY <2>1, <2>2, <3>1 DEF IInv, TypeOK, Idle
    <3>3. JobInv'
      BY <2>2, <3>1 DEF IInv, JobInv, Idle
    <3>4. ResetLeavesNoDiscount'
      BY <2>2, <3>1 DEF IInv, JobInv, ResetLeavesNoDiscount
    <3> QED BY <3>2, <3>3, <3>4
  <2>5. ASSUME NEW m \in [Cells -> Masks], MaskBaseRegion(m)
        PROVE  TypeOK' /\ JobInv' /\ ResetLeavesNoDiscount'
    <3>1. /\ job' = [kind |-> "mask", todo |-> {c \in Open : m[c] # 0}, mask |-> m]
          /\ emergency' = "preferring" /\ emergency \in {"stopped", "preferring"}
      BY <2>5 DEF MaskBaseRegion
    <3>2. TypeOK'
      BY <2>2, <3>1 DEF IInv, TypeOK
    <3> QED BY <2>2, <3>1, <3>2 DEF IInv, JobInv, ResetLeavesNoDiscount
  <2> QED BY <2>3, <2>4, <2>5
<1> QED BY <1>2, <1>3 DEF IInv, LayerFacts

LEMMA LinkKeepsInv ==
  ASSUME IInv, NEW a \in Agents, Link(a)
  PROVE  IInv'
<1>1. /\ a \in Grids /\ a # Global
      /\ final' = [final EXCEPT ![a] = base]
      /\ objects' = [objects EXCEPT ![a] = Nowhere]
      /\ seen' = [seen EXCEPT ![a] = base]
      /\ watch' = [watch EXCEPT ![a] = "subscribed"]
      /\ early' = [early EXCEPT ![a] = {}]
      /\ UNCHANGED <<original, base, changed, emergency, job>>
  BY GridAssumption DEF Link, Subscribe, Grids
<1>2. /\ Nowhere \in Objects /\ \A c \in Cells : Nowhere[c] = 0
  BY GridAssumption DEF Nowhere, Objects
<1>3. TypeOK'
  BY <1>1, <1>2 DEF IInv, TypeOK
<1>4. /\ \A h \in Grids : h # a => /\ final'[h] = final[h] /\ objects'[h] = objects[h]
                                    /\ watch'[h] = watch[h] /\ seen'[h] = seen[h]
                                    /\ early'[h] = early[h]
      /\ final'[a] = base /\ objects'[a] = Nowhere /\ watch'[a] = "subscribed"
  BY <1>1 DEF IInv, TypeOK
<1>5. BaseInv'
  BY <1>1, <1>4, GridAssumption DEF IInv, BaseInv
<1>6. Global \in Grids
  BY DEF Grids
<1>7. JobInv' /\ GlobalFinalIsSum' /\ ResetLeavesNoDiscount'
  BY <1>1, <1>4, <1>6 DEF IInv, JobInv, GlobalFinalIsSum, ResetLeavesNoDiscount
<1>8. NoChangeIsLost' /\ ReplayedCostWasUsed'
  BY <1>1, <1>4 DEF IInv, NoChangeIsLost, ReplayedCostWasUsed
<1>9. ClosedByObjectsOnly'
  <2>1. SUFFICES ASSUME NEW h \in Grids, NEW c \in Cells
                 PROVE  IsBlocked(final'[h][c]) <=> c \in Walls \/ IsUnreachable(objects'[h][c])
    BY DEF ClosedByObjectsOnly
  <2>2. CASE h = a
    <3>1. ~IsUnreachable(0)
      BY GridAssumption DEF IsUnreachable
    <3>2. c \in Walls => IsBlocked(base[c])
      BY DEF IInv, BaseInv, IsBlocked
    <3>3. c \in Open => ~IsBlocked(base[c])
      BY GridAssumption DEF IInv, BaseInv, IsBlocked, IsUnreachable, CorridorCosts
    <3> QED BY <1>2, <1>4, <2>2, <3>1, <3>2, <3>3 DEF Open
  <2>3. CASE h # a
    BY <1>4, <2>3 DEF IInv, ClosedByObjectsOnly
  <2> QED BY <2>2, <2>3
<1> QED BY <1>3, <1>5, <1>7, <1>8, <1>9 DEF IInv

(* The planners: they read final costs and write only what is their own. *)
LEMMA PlannerKeepsInv ==
  ASSUME IInv, NEW g \in Grids,
         (g = Global /\ Launch) \/ FirstPlan(g) \/ ApplyChanges(g) \/ Close(g)
  PROVE  IInv'
<1>1. UNCHANGED <<layers, job>>
  BY DEF Launch, FirstPlan, ApplyChanges, Close
<1>2. LayerFacts'
  BY <1>1, UnchangedLayers DEF IInv, LayerFacts
<1>3. UNCHANGED <<original, base, objects, final, job>>
  BY <1>1 DEF layers
<1>4. NoRecord \in [Cells -> Costs \cup {Unrecorded}] /\ \A c \in Cells : NoRecord[c] = Unrecorded
  BY DEF NoRecord
<1>5. CASE g = Global /\ Launch
  <2>1. /\ emergency \in {"stopped", "preferring"} /\ job = Idle /\ emergency' = "running"
        /\ seen' = [seen EXCEPT ![Global] = final[Global]]
        /\ watch' = [watch EXCEPT ![Global] = "subscribed"]
        /\ early' = [early EXCEPT ![Global] = {}]
        /\ UNCHANGED changed
    BY <1>5 DEF Launch, Subscribe
  <2>2. TypeOK'
    BY <1>3, <1>5, <2>1 DEF IInv, TypeOK
  <2>3. JobInv' /\ ResetLeavesNoDiscount'
    BY <1>3, <2>1 DEF IInv, JobInv, ResetLeavesNoDiscount, Idle
  <2>4. NoChangeIsLost' /\ ReplayedCostWasUsed'
    BY <1>3, <1>5, <2>1 DEF IInv, TypeOK, NoChangeIsLost, ReplayedCostWasUsed
  <2> QED BY <1>2, <2>2, <2>3, <2>4 DEF IInv, LayerFacts
<1>6. CASE FirstPlan(g)
  <2>1. /\ watch[g] = "subscribed" /\ watch' = [watch EXCEPT ![g] = "planned"]
        /\ seen' = [seen EXCEPT ![g] = final[g]]
        /\ early' = [early EXCEPT ![g] = {c \in Cells : changed[g][c] # Unrecorded}]
        /\ UNCHANGED <<changed, emergency>>
    BY <1>6 DEF FirstPlan
  <2>2. TypeOK'
    BY <1>3, <2>1 DEF IInv, TypeOK
  <2>3. JobInv' /\ ResetLeavesNoDiscount'
    BY <1>3, <2>1 DEF IInv, TypeOK, JobInv, ResetLeavesNoDiscount
  <2>4. NoChangeIsLost' /\ ReplayedCostWasUsed'
    BY <1>3, <2>1 DEF IInv, TypeOK, NoChangeIsLost, ReplayedCostWasUsed
  <2> QED BY <1>2, <2>2, <2>3, <2>4 DEF IInv, LayerFacts
<1>7. CASE ApplyChanges(g)
  <2>1. /\ changed' = [changed EXCEPT ![g] = NoRecord]
        /\ seen' = [seen EXCEPT ![g] = [c \in Cells |->
                      IF changed[g][c] # Unrecorded THEN final[g][c] ELSE seen[g][c]]]
        /\ early' = [early EXCEPT ![g] = {}]
        /\ UNCHANGED <<watch, emergency>>
    BY <1>7 DEF ApplyChanges
  <2>2. TypeOK'
    BY <1>3, <1>4, <2>1 DEF IInv, TypeOK
  <2>3. JobInv' /\ ResetLeavesNoDiscount'
    BY <1>3, <2>1 DEF IInv, JobInv, ResetLeavesNoDiscount
  <2>4. NoChangeIsLost' /\ ReplayedCostWasUsed'
    BY <1>3, <1>4, <2>1 DEF IInv, TypeOK, NoChangeIsLost, ReplayedCostWasUsed
  <2> QED BY <1>2, <2>2, <2>3, <2>4 DEF IInv, LayerFacts
<1>8. CASE Close(g)
  <2>1. /\ watch' = [watch EXCEPT ![g] = "off"] /\ watch[g] # "off"
        /\ changed' = [changed EXCEPT ![g] = NoRecord]
        /\ emergency' = IF g = Global THEN "stopping" ELSE emergency
        /\ UNCHANGED <<seen, early>>
    BY <1>8 DEF Close
  <2>2. TypeOK'
    BY <1>3, <1>4, <2>1 DEF IInv, TypeOK
  <2>3. JobInv' /\ ResetLeavesNoDiscount'
    BY <1>3, <2>1 DEF IInv, TypeOK, JobInv, ResetLeavesNoDiscount
  <2>4. NoChangeIsLost' /\ ReplayedCostWasUsed'
    BY <1>3, <1>4, <2>1 DEF IInv, TypeOK, NoChangeIsLost, ReplayedCostWasUsed
  <2> QED BY <1>2, <2>2, <2>3, <2>4 DEF IInv, LayerFacts
<1> QED BY <1>5, <1>6, <1>7, <1>8

LEMMA NextKeepsInv == IInv /\ [Next]_vars => IInv'
<1> SUFFICES ASSUME IInv, [Next]_vars PROVE IInv'
  OBVIOUS
<1>1. ASSUME NEW a \in Agents, Link(a) PROVE IInv'
  BY <1>1, LinkKeepsInv
<1>2. ASSUME NEW a \in Agents, NEW o \in Regions, ReplaceObjectRegion(a, o) PROVE IInv'
  BY <1>2, VisionKeepsInv
<1>3. ASSUME NEW o \in Objects, UpdateFinal(o) PROVE IInv'
  BY <1>3, RefreshKeepsInv
<1>4. ASSUME NEW m \in [Cells -> Masks], MaskBaseRegion(m) PROVE IInv'
  BY <1>4, JobKeepsInv
<1>5. ASSUME NEW c \in Cells, WriteMask(c) \/ WriteReset(c) PROVE IInv'
  BY <1>5, MaskKeepsInv, ResetKeepsInv
<1>6. CASE ResetBase \/ EndJob
  BY <1>6, JobKeepsInv
<1>7. CASE Launch
  BY <1>7, PlannerKeepsInv DEF Grids
<1>8. ASSUME NEW g \in Grids, FirstPlan(g) \/ ApplyChanges(g) \/ Close(g) PROVE IInv'
  BY <1>8, PlannerKeepsInv
<1>9. CASE UNCHANGED vars
  <2>1. UNCHANGED <<original, base, objects, final, watch, changed, emergency, job, seen, early>>
    BY <1>9 DEF vars, layers, planners
  <2>2. LayerFacts' /\ NoChangeIsLost' /\ ReplayedCostWasUsed'
    BY <1>9, UnchangedLayers, UnchangedPlanners DEF IInv, LayerFacts, vars
  <2>3. TypeOK' /\ JobInv' /\ ResetLeavesNoDiscount'
    BY <2>1 DEF IInv, TypeOK, JobInv, ResetLeavesNoDiscount
  <2> QED BY <2>2, <2>3 DEF IInv, LayerFacts
<1> QED BY <1>1, <1>2, <1>3, <1>4, <1>5, <1>6, <1>7, <1>8, <1>9 DEF Next

LEMMA Invariance == Spec => []IInv
BY InitInv, NextKeepsInv, PTL DEF Spec

(* The layers, the records of the planners and the jobs keep their types.  *)
THEOREM TypeCorrect == Spec => []TypeOK
<1>1. IInv => TypeOK
  BY DEF IInv
<1> QED BY <1>1, Invariance, PTL

(* Every cell whose cost differs from the one its planner last used waits  *)
(* in Changed, whatever vision, refreshes, masks and resets interleave.    *)
THEOREM NoChangeLost == Spec => []NoChangeIsLost
<1>1. IInv => NoChangeIsLost
  BY DEF IInv
<1> QED BY <1>1, Invariance, PTL

(* applyChanges replays a cell with the cost that the planner used.        *)
THEOREM ReplayIsFaithful == Spec => []ReplayedCostWasUsed
<1>1. IInv => ReplayedCostWasUsed
  BY DEF IInv
<1> QED BY <1>1, Invariance, PTL

(* The global floor's final costs are the sum of its layers.               *)
THEOREM FinalIsSum == Spec => []GlobalFinalIsSum
<1>1. IInv => GlobalFinalIsSum
  BY DEF IInv
<1> QED BY <1>1, Invariance, PTL

(* Only walls and impassable objects close a cell, on every grid.          *)
THEOREM ObjectsClose == Spec => []ClosedByObjectsOnly
<1>1. IInv => ClosedByObjectsOnly
  BY DEF IInv
<1> QED BY <1>1, Invariance, PTL

(* A stopped emergency leaves no discount, except under an object: the     *)
(* base is the map's, or empty space wherever no impassable object stands. *)
THEOREM ResetIsComplete == Spec => []ResetLeavesNoDiscount
<1>1. IInv => ResetLeavesNoDiscount
  BY DEF IInv
<1> QED BY <1>1, Invariance, PTL
=============================================================================
