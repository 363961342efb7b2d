------------------------------- MODULE Grid --------------------------------
(* The cost layers of a floor and the planners that watch them             *)
(* (internal/grid/grid.go): the floor of the global world with the         *)
(* preference costs of an emergency, and the floors that agents link to    *)
(* it, which share its base layer but own their objects and final costs.   *)
(* A planner remembers in Changed which cells it has to replay.            *)
EXTENDS Integers

CONSTANTS
  Cells,         \* the cells of the floor
  Agents,        \* runs, each of which links the floor when it needs it
  Global,        \* the grid of the global world, used by the emergency planner
  Walls,         \* the cells that cannot be walked at all
  EmptySpace,    \* EMPTY_SPACE_COST
  Unreachable,   \* UNREACHABLE_COST
  ObjectCosts,   \* what an object adds to its cells, 0 for no object
  Masks,         \* the discounts of preference paths, 0 for no path
  Unrecorded     \* marks a cell that Changed does not hold

ASSUME GridAssumption ==
  /\ Global \notin Agents
  /\ Walls \subseteq Cells
  /\ EmptySpace \in Nat \ {0} /\ Unreachable \in Nat /\ 2 * EmptySpace < Unreachable
  /\ ObjectCosts \subseteq Nat /\ 0 \in ObjectCosts
  /\ \A o \in ObjectCosts : o < Unreachable => o + 2 * EmptySpace < Unreachable
  /\ Masks \subseteq Int /\ 0 \in Masks /\ \A m \in Masks : m <= 0
  /\ Unrecorded \notin Int

Grids == Agents \cup {Global}
Open == Cells \ Walls

VARIABLES
  original,    \* the base layer that the floor was made with
  base,        \* the base layer, one slice for all grids
  objects,     \* the object layer of each grid
  final,       \* the costs that planners read
  watch,       \* a grid's planner: "off", "subscribed", "planned"
  changed,     \* Changed of each planner: a cell's first previous cost
  emergency,   \* "stopped", "preferring", "running", "stopping"
  job,         \* the cells a mask or a reset of the base has still to write
  seen,        \* history: the cost of each cell when the planner last used it
  early        \* history: cells recorded before the planner's first plan

layers == <<original, base, objects, final>>
planners == <<watch, changed>>
vars == <<layers, planners, emergency, job, seen, early>>

-----------------------------------------------------------------------------
IsUnreachable(a) == a >= Unreachable
IsBlocked(a) == a <= 0 \/ IsUnreachable(a)

AddCost(a, b) == IF IsUnreachable(a) \/ IsUnreachable(b) \/ (b > 0 /\ a > Unreachable - b)
                 THEN Unreachable ELSE a + b

(* FromImg: the rasterized map, dearer along walls (with the aura).        *)
FloorMaps == {m \in [Cells -> {0, EmptySpace, 2 * EmptySpace}] :
                \A c \in Cells : m[c] = 0 <=> c \in Walls}

Nowhere == [c \in Cells |-> 0]
NoRecord == [c \in Cells |-> Unrecorded]
Idle == [kind |-> "none", todo |-> {}, mask |-> Nowhere]

Init == /\ original \in FloorMaps /\ base = original
        /\ objects = [g \in Grids |-> Nowhere]
        /\ final = [g \in Grids |-> original]
        /\ watch = [g \in Grids |-> "off"]
        /\ changed = [g \in Grids |-> NoRecord]
        /\ emergency = "stopped"
        /\ job = Idle
        /\ seen = [g \in Grids |-> original]
        /\ early = [g \in Grids |-> {}]

\* Mutant: a later change overwrites what was recorded.
RecordLatest(g, S) ==
  changed' = [changed EXCEPT ![g] = [c \in Cells |->
                IF watch[g] # "off" /\ c \in S THEN final[g][c] ELSE changed[g][c]]]

(* The callback of a planner keeps the first previous cost of a cell.      *)
Record(g, S) ==
  changed' = [changed EXCEPT ![g] = [c \in Cells |->
                IF watch[g] # "off" /\ c \in S /\ changed[g][c] = Unrecorded
                THEN final[g][c] ELSE changed[g][c]]]

(* The cells of S get a new final cost from base b and objects o.          *)
Rewrite(g, S, b, o) ==
  /\ Record(g, S)
  /\ final' = [final EXCEPT ![g] = [c \in Cells |->
                 IF c \in S THEN AddCost(b[c], o[c]) ELSE final[g][c]]]

-----------------------------------------------------------------------------
(* ReplaceObjectRegion: the agent's vision of a region. The base of other  *)
(* cells may be written meanwhile: the grids share it without a lock.      *)
ReplaceObjectRegion(a, o) ==
  LET S == {c \in Open \cap DOMAIN o : objects[a][c] # o[c]} IN
  /\ watch[a] # "off"
  /\ objects' = [objects EXCEPT ![a] = [c \in Cells |-> IF c \in S THEN o[c] ELSE objects[a][c]]]
  /\ Rewrite(a, S, base, o)
  /\ UNCHANGED <<original, base, watch, emergency, job, seen, early>>

\* Mutant: the recomputed costs are not reported to the planner.
UpdateFinalSilently(o) ==
  /\ emergency = "running"
  /\ objects' = [objects EXCEPT ![Global] = o]
  /\ final' = [final EXCEPT ![Global] = [c \in Cells |-> AddCost(base[c], o[c])]]
  /\ UNCHANGED <<original, base, watch, changed, emergency, job, seen, early>>

(* applyEnvironmentObjects: the loop of the emergency writes all objects   *)
(* and recomputes the final costs (UpdateFinal).                           *)
UpdateFinal(o) ==
  /\ emergency = "running"
  /\ objects' = [objects EXCEPT ![Global] = o]
  /\ Rewrite(Global, {c \in Open : final[Global][c] # AddCost(base[c], o[c])}, base, o)
  /\ UNCHANGED <<original, base, watch, emergency, job, seen, early>>

(* MaskBaseRegion: a preference path of the start request; one write of    *)
(* the base at a time, since runs may read it in between.                  *)
MaskBaseRegion(m) ==
  /\ emergency \in {"stopped", "preferring"} /\ job = Idle
  /\ emergency' = "preferring"
  /\ job' = [kind |-> "mask", todo |-> {c \in Open : m[c] # 0}, mask |-> m]
  /\ UNCHANGED <<layers, planners, seen, early>>

\* Mutant: nothing keeps a discount from lowering a cost below one.
LoweredUnclamped(b, m) == AddCost(b, m)

Lowered(b, m) == LET sum == AddCost(b, m) IN IF sum < 1 THEN 1 ELSE sum

\* Mutant: the mask forgets the objects on the cell.
WriteMaskBare(c) ==
  /\ job.kind = "mask" /\ c \in job.todo
  /\ base' = [base EXCEPT ![c] = Lowered(base[c], job.mask[c])]
  /\ Rewrite(Global, {c}, base', Nowhere)
  /\ job' = [job EXCEPT !.todo = job.todo \ {c}]
  /\ UNCHANGED <<original, objects, watch, emergency, seen, early>>

WriteMask(c) ==
  /\ job.kind = "mask" /\ c \in job.todo
  /\ base' = [base EXCEPT ![c] = Lowered(base[c], job.mask[c])]
  /\ Rewrite(Global, {c}, base', objects[Global])
  /\ job' = [job EXCEPT !.todo = job.todo \ {c}]
  /\ UNCHANGED <<original, objects, watch, emergency, seen, early>>

(* ResetBase: the end of an emergency, or a start that failed. The base of *)
(* a cell is written only when its final cost changes.                     *)
ResetBase ==
  /\ emergency # "running" /\ job = Idle
  /\ emergency' = "stopping"
  /\ job' = [Idle EXCEPT !.kind = "reset", !.todo = Open]
  /\ UNCHANGED <<layers, planners, seen, early>>

\* Mutant: the reset tests, like UpdateFinal, whether the sum is up to date.
ResetOutdated(c) == final[Global][c] # AddCost(base[c], objects[Global][c])

Reset(c) == final[Global][c] # AddCost(EmptySpace, objects[Global][c])

WriteReset(c) ==
  /\ job.kind = "reset" /\ c \in job.todo
  /\ base' = IF Reset(c) THEN [base EXCEPT ![c] = EmptySpace] ELSE base
  /\ Rewrite(Global, IF Reset(c) THEN {c} ELSE {}, base', objects[Global])
  /\ job' = [job EXCEPT !.todo = job.todo \ {c}]
  /\ UNCHANGED <<original, objects, watch, emergency, seen, early>>

EndJob == /\ job.kind # "none" /\ job.todo = {}
          /\ job' = Idle
          /\ emergency' = IF job.kind = "reset" THEN "stopped" ELSE emergency
          /\ UNCHANGED <<layers, planners, seen, early>>

-----------------------------------------------------------------------------
(* A planner subscribes (World.SubChanges).                                *)
Subscribe(g) == /\ watch' = [watch EXCEPT ![g] = "subscribed"]
                /\ early' = [early EXCEPT ![g] = {}]

\* Mutant: a pooled floor keeps the objects of the run before.
LinkDirty(a) == /\ watch[a] = "off" /\ job = Idle
                /\ final' = [final EXCEPT ![a] = base]
                /\ seen' = [seen EXCEPT ![a] = base]
                /\ Subscribe(a)
                /\ UNCHANGED <<original, base, objects, changed, emergency, job>>

(* An agent links the floor and subscribes: newLinkedGrid and resetLinked  *)
(* copy the base under the lock of the global grid and drop all objects.   *)
Link(a) == /\ watch[a] = "off" /\ job = Idle
           /\ final' = [final EXCEPT ![a] = base]
           /\ objects' = [objects EXCEPT ![a] = Nowhere]
           /\ seen' = [seen EXCEPT ![a] = base]
           /\ Subscribe(a)
           /\ UNCHANGED <<original, base, changed, emergency, job>>

(* The planner of an emergency starts on the global world.                 *)
Launch == /\ emergency \in {"stopped", "preferring"} /\ job = Idle
          /\ emergency' = "running"
          /\ seen' = [seen EXCEPT ![Global] = final[Global]]
          /\ Subscribe(Global)
          /\ UNCHANGED <<layers, changed, job>>

(* The first computeShortestPath reads the costs and leaves Changed alone. *)
FirstPlan(g) == /\ watch[g] = "subscribed"
                /\ watch' = [watch EXCEPT ![g] = "planned"]
                /\ seen' = [seen EXCEPT ![g] = final[g]]
                /\ early' = [early EXCEPT ![g] = {c \in Cells : changed[g][c] # Unrecorded}]
                /\ UNCHANGED <<layers, changed, emergency, job>>

(* applyChanges: every recorded cell is replayed and forgotten.            *)
ApplyChanges(g) ==
  /\ watch[g] = "planned" /\ changed[g] # NoRecord
  /\ changed' = [changed EXCEPT ![g] = NoRecord]
  /\ seen' = [seen EXCEPT ![g] = [c \in Cells |->
                IF changed[g][c] # Unrecorded THEN final[g][c] ELSE seen[g][c]]]
  /\ early' = [early EXCEPT ![g] = {}]
  /\ UNCHANGED <<layers, watch, emergency, job>>

(* The planner closes its subscription; its Changed is cleared (Reset) or  *)
(* is left to the collector with it.                                       *)
Close(g) == /\ watch[g] # "off"
            /\ watch' = [watch EXCEPT ![g] = "off"]
            /\ changed' = [changed EXCEPT ![g] = NoRecord]
            /\ emergency' = IF g = Global THEN "stopping" ELSE emergency
            /\ UNCHANGED <<layers, job, seen, early>>

-----------------------------------------------------------------------------
Objects == [Cells -> ObjectCosts]

Regions == UNION {[R -> ObjectCosts] : R \in SUBSET Cells}

Next == \/ \E a \in Agents : Link(a) \/ \E o \in Regions : ReplaceObjectRegion(a, o)
        \/ \E o \in Objects : UpdateFinal(o)
        \/ \E m \in [Cells -> Masks] : MaskBaseRegion(m)
        \/ \E c \in Cells : WriteMask(c) \/ WriteReset(c)
        \/ ResetBase \/ EndJob \/ Launch
        \/ \E g \in Grids : FirstPlan(g) \/ ApplyChanges(g) \/ Close(g)

Spec == Init /\ [][Next]_vars

-----------------------------------------------------------------------------
Costs == 0..Unreachable

TypeOK == /\ original \in FloorMaps /\ base \in [Cells -> Costs]
          /\ objects \in [Grids -> Objects]
          /\ final \in [Grids -> [Cells -> Costs]]
          /\ watch \in [Grids -> {"off", "subscribed", "planned"}]
          /\ changed \in [Grids -> [Cells -> Costs \cup {Unrecorded}]]
          /\ emergency \in {"stopped", "preferring", "running", "stopping"}
          /\ job \in [kind : {"none", "mask", "reset"}, todo : SUBSET Open,
                      mask : [Cells -> Masks]]
          /\ seen \in [Grids -> [Cells -> Costs]]
          /\ early \in [Grids -> SUBSET Cells]

(* No change is lost: a cell whose cost differs from the one its planner   *)
(* last used is waiting in Changed (the callbacks of SubChanges).          *)
NoChangeIsLost == \A g \in Grids, c \in Cells :
  watch[g] = "planned" /\ final[g][c] # seen[g][c] => changed[g][c] # Unrecorded

(* What applyChanges replays is the cost that the planner used before,     *)
(* unless the cell was recorded before the first plan (dstar.go:57-58).    *)
ReplayedCostWasUsed == \A g \in Grids, c \in Cells :
  watch[g] = "planned" /\ changed[g][c] # Unrecorded
    => changed[g][c] = seen[g][c] \/ c \in early[g]

(* The final costs of the global floor are the sum of its layers, after    *)
(* every refresh, mask and reset, of whatever cells.                       *)
GlobalFinalIsSum == \A c \in Open :
  final[Global][c] = AddCost(base[c], objects[Global][c])

(* A cell is closed to planners exactly if it is a wall or an object on it *)
(* cannot be passed: no discount opens a wall or closes a corridor, and a  *)
(* linked floor does not forget an object while its base changes.          *)
ClosedByObjectsOnly == \A g \in Grids, c \in Cells :
  IsBlocked(final[g][c]) <=> c \in Walls \/ IsUnreachable(objects[g][c])

(* The end of an emergency withdraws its discounts: until the first one    *)
(* the base is that of the map, afterwards each corridor has the cost of   *)
(* empty space, except under an impassable object, where a discount stays  *)
(* (ResetBase).  That is less than the map: ResetRestoresBase.             *)
ResetLeavesNoDiscount == emergency = "stopped" =>
  \/ base = original
  \/ \A c \in Open : base[c] = EmptySpace \/ IsUnreachable(objects[Global][c])

(* What the documents say of the end of an emergency: "RemovePreferencePaths *)
(* restores each floor base cost after an emergency run" (flowfield.go:794). *)
ResetRestoresBase == emergency = "stopped" => base = original

-----------------------------------------------------------------------------
(* The inductive invariant: the properties and what they rest on.          *)

CorridorCosts == 1..2 * EmptySpace

(* Walls cost nothing and are never written; corridors cost something.     *)
BaseInv == /\ \A c \in Walls : base[c] = 0 /\ \A g \in Grids : final[g][c] = 0
           /\ \A c \in Open : base[c] \in CorridorCosts

(* Who may write the base, and how far a reset has come.                   *)
JobInv == /\ job.kind = "none" => job = Idle
          /\ job.kind = "mask" => emergency = "preferring"
          /\ job.kind = "reset" => /\ emergency = "stopping"
                                   /\ \A c \in Open \ job.todo :
                                        \/ base[c] = EmptySpace
                                        \/ IsUnreachable(objects[Global][c])
          /\ watch[Global] # "off" => emergency = "running"

IInv == /\ TypeOK /\ BaseInv /\ JobInv
        /\ NoChangeIsLost /\ ReplayedCostWasUsed /\ GlobalFinalIsSum
        /\ ClosedByObjectsOnly /\ ResetLeavesNoDiscount

=============================================================================
