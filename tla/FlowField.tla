------------------------------ MODULE FlowField ------------------------------
(* The planner of an emergency (internal/pathfinding/emergency/            *)
(* flowfield.go): D* Lite from a fake goal, to which every exit is linked, *)
(* to all cells of the global world, and the light nodes that are told to  *)
(* turn when the cost at their cell has changed enough. Emergency has the  *)
(* life of its loop, Grid the recording of changes.                        *)
EXTENDS Costs

CONSTANTS
  FakeGoal,      \* SentinelGlobalCoords, a cell of no floor
  Exits,         \* the goals of the emergency
  Lights,        \* the cells that have a light node
  Hysteresis,    \* LightingHystheresis
  Movable,       \* the cells that an object may stand on
  Sights,        \* the objects that a look may find, by the cost they add
  MaxLooks,      \* bound: looks of an emergency that find something new
  Unrecorded,    \* marks a cell that Changed does not hold
  Unqueued       \* marks a cell that is not in the queue

ASSUME FlowFieldAssumption ==
  /\ FakeGoal \in Cells /\ Base[FakeGoal] = 0
  /\ \A c \in Cells : ~Adjacent(FakeGoal, c)
  /\ Exits \subseteq Cells \ {FakeGoal}
  /\ \A e \in Exits : Portal[<<e, FakeGoal>>] = 1 /\ Portal[<<FakeGoal, e>>] = 1
  /\ Lights \subseteq Cells \ {FakeGoal} /\ Movable \subseteq Cells \ {FakeGoal}
  /\ Hysteresis \in Nat \ {0} /\ MaxLooks \in Nat
  /\ Sights \subseteq [Movable -> Nat]
  /\ Unrecorded \notin Int /\ Unqueued \notin Int

VARIABLES
  mode,       \* where the loop's goroutine is, "off" without an emergency
  objects,    \* the objects on the global floors
  changed,    \* Changed: the first previous cost of a cell to be replayed
  g, rhs,     \* the two estimates of a cell's distance to an exit
  queue,      \* the key of each cell in the queue (K1 and K2 are equal)
  oldG,       \* what a light's cell cost when the light was last turned
  outdated,   \* outdatedLightNodes
  looks,      \* bound: looks that found something new
  used,       \* history: the cost the planner last used for a cell
  misled,     \* history: a change was replayed with a cost never used
  touched,    \* history: what has changed in this round, with its cost before
  failed      \* history: the lights whose last call failed

estimates == <<g, rhs, queue>>
lights == <<oldG, outdated>>
history == <<looks, used, misled, touched, failed>>
vars == <<mode, objects, changed, estimates, lights, history>>

-----------------------------------------------------------------------------
Clean == [c \in Cells |-> 0]
NoRecord == [c \in Cells |-> Unrecorded]
EmptyQueue == [c \in Cells |-> Unqueued]

Init == /\ mode = "off" /\ objects = Clean /\ changed = NoRecord
        /\ g = Far /\ rhs = Far /\ queue = EmptyQueue
        /\ oldG = [l \in Lights |-> Unreachable] /\ outdated = {}
        /\ looks = 0 /\ used = Base /\ misled = FALSE /\ touched = {} /\ failed = {}

OpenExits == \A e \in Exits : ~IsBlocked(Value(objects, e))

(* newSysDStarLite, on floors that may carry the objects of an earlier     *)
(* emergency: the planner starts from nothing, with all lights outdated.   *)
Launch ==
  /\ mode = "off" /\ OpenExits
  /\ mode' = "starting"
  /\ changed' = NoRecord /\ g' = Far
  /\ rhs' = [Far EXCEPT ![FakeGoal] = 0] /\ queue' = [EmptyQueue EXCEPT ![FakeGoal] = 0]
  /\ oldG' = [l \in Lights |-> Unreachable] /\ outdated' = Lights
  /\ looks' = 0 /\ misled' = FALSE /\ touched' = {} /\ failed' = {}
  /\ UNCHANGED <<objects, used>>

(* applyEnvironmentObjects: the objects of all floors are replaced. The    *)
(* callback of the subscription keeps the first previous cost of a changed *)
(* cell, and marks the light at a cell that it records.                    *)
Look(o) ==
  LET S == {c \in DOMAIN o : Value(o, c) # Value(objects, c)}
      fresh == {c \in S : changed[c] = Unrecorded}
  IN /\ S # {} => looks < MaxLooks
     /\ looks' = IF S = {} THEN looks ELSE looks + 1
     /\ objects' = [c \in Cells |-> IF c \in DOMAIN o THEN o[c] ELSE 0]
     /\ changed' = [c \in Cells |-> IF c \in fresh THEN Value(objects, c) ELSE changed[c]]
     /\ outdated' = outdated \cup (fresh \cap Lights)

LookFails == UNCHANGED <<objects, changed, looks, outdated>>

(* An exit counts as blocked by what an earlier emergency last saw.        *)
RefuseLaunch == mode = "off" /\ ~OpenExits /\ UNCHANGED vars

(* The first look of the loop; the first plan does not clear the record.   *)
FirstLook(o) ==
  /\ mode = "starting" /\ mode' = "planning"
  /\ Look(o) \/ LookFails
  /\ used' = [c \in Cells |-> Value(objects', c)]
  /\ UNCHANGED <<estimates, oldG, misled, touched, failed>>

-----------------------------------------------------------------------------
(* One iteration of computeShortestPath each.                              *)

Queued == {c \in Cells : queue[c] # Unqueued}
Key(gc, rc) == Smaller(gc, rc)
Top(u) == u \in Queued /\ \A c \in Queued : queue[u] <= queue[c]

(* updateVertex for the cells of S, after g and rhs have become gs and rs. *)
Update(S, gs, rs) ==
  /\ g' = gs /\ rhs' = rs
  /\ queue' = [c \in Cells |-> IF c \notin S THEN queue[c]
                               ELSE IF gs[c] # rs[c] THEN Key(gs[c], rs[c]) ELSE Unqueued]

\* Mutant: the cell stays in the queue.
LowerQueued(u) ==
  /\ queue[u] >= Key(g[u], rhs[u]) /\ g[u] > rhs[u]
  /\ Update(Preds(objects, u), [g EXCEPT ![u] = rhs[u]],
            [c \in Cells |-> IF c \in Preds(objects, u)
                             THEN Smaller(rhs[c], AddCost(Edge(objects, c, u), rhs[u])) ELSE rhs[c]])

(* The cell is nearer than was thought. (No key is ever older than the     *)
(* estimates of its cell, so that the branch that renews a key is not      *)
(* taken; with an old key the computation would not end here.)             *)
Lower(u) ==
  /\ queue[u] >= Key(g[u], rhs[u]) /\ g[u] > rhs[u]
  /\ Update(Preds(objects, u) \cup {u}, [g EXCEPT ![u] = rhs[u]],
            [c \in Cells |-> IF c \in Preds(objects, u)
                             THEN Smaller(rhs[c], AddCost(Edge(objects, c, u), rhs[u])) ELSE rhs[c]])

(* The cells whose look-ahead was what u promised have to look again.      *)
Dependent(u, old) == {c \in Preds(objects, u) : rhs[c] = AddCost(Edge(objects, c, u), old)}

(* The cell is farther than was thought.                                   *)
Raise(u) ==
  /\ queue[u] >= Key(g[u], rhs[u]) /\ g[u] <= rhs[u]
  /\ LET gs == [g EXCEPT ![u] = Unreachable] IN
     Update(Preds(objects, u) \cup {u}, gs,
            [c \in Cells |-> IF c \in (Dependent(u, g[u]) \cup {u}) \ {FakeGoal}
                             THEN LookAhead(objects, gs, c) ELSE rhs[c]])

Expand(u) == /\ mode = "planning" /\ Top(u)
             /\ Lower(u) \/ Raise(u)
             /\ UNCHANGED <<mode, objects, changed, lights, history>>

PlanDone == /\ mode = "planning" /\ Queued = {}
            /\ mode' = "signaling"
            /\ UNCHANGED <<objects, changed, estimates, lights, history>>

(* updateSignaling: the outdated lights whose cost has moved by the        *)
(* hysteresis are turned; the calls for F fail.                            *)
Due == {l \in outdated : Abs(g[l] - oldG[l]) >= Hysteresis}

UpdateSignaling(F) ==
  /\ mode = "signaling" /\ mode' = "waiting"
  /\ F \subseteq Due
  /\ oldG' = [l \in Lights |-> IF l \in Due \ F THEN g[l] ELSE oldG[l]]
  /\ outdated' = {}
  /\ failed' = (failed \ Due) \cup F
  /\ UNCHANGED <<objects, changed, estimates, looks, used, misled, touched>>

-----------------------------------------------------------------------------
(* A tick of the loop: changes are replayed, those that an earlier look    *)
(* has recorded among them even if this one fails.                         *)
Tick(o) ==
  /\ mode = "waiting"
  /\ Look(o) \/ LookFails
  /\ mode' = IF changed' = NoRecord THEN "waiting" ELSE "repairing"
  /\ touched' = {}
  /\ UNCHANGED <<estimates, oldG, used, misled, failed>>

(* The cells whose edge to v has or had a cost (appendPredChangeCosts).    *)
Affected(v) == {u \in Cells : \/ ~IsUnreachable(OldEdge(u, v, changed[v]))
                              \/ ~IsUnreachable(Edge(objects, u, v))}

\* Mutant: the cell itself does not look at its successors.
LookAgainNot(v) == IF Value(objects, v) <= 0 THEN [rhs EXCEPT ![v] = Unreachable] ELSE rhs

(* The cell itself; only a wall loses its estimates, a cell under an       *)
(* object can still be left through its portals.                           *)
LookAgain(v) == [rhs EXCEPT ![v] = IF Value(objects, v) <= 0 THEN Unreachable
                                   ELSE LookAhead(objects, g, v)]

(* What u has to expect after the cost of v has changed.                   *)
Repaired(u, v, gs, rs) ==
  LET old == OldEdge(u, v, changed[v]) new == Edge(objects, u, v) IN
  IF old > new THEN Smaller(rs[u], AddCost(new, gs[v]))
  ELSE IF rs[u] = AddCost(old, g[v]) /\ u # FakeGoal THEN LookAhead(objects, gs, u)
  ELSE rs[u]

\* Mutant: only cells that can be entered now are looked at.
MarkedEntering(v) == Lights \cap Preds(objects, v)

(* The lights that applyChanges marks.                                     *)
Marked(v) == Lights \cap Affected(v)

(* applyChanges for one cell, in the order of a Go map.                    *)
ApplyChange(v) ==
  /\ mode = "repairing" /\ changed[v] # Unrecorded
  /\ LET gs == IF Value(objects, v) <= 0 THEN [g EXCEPT ![v] = Unreachable] ELSE g
         rs == LookAgain(v)
     IN Update(Affected(v) \cup {v}, gs,
               [c \in Cells |-> IF c \in Affected(v) THEN Repaired(c, v, gs, rs) ELSE rs[c]])
  /\ outdated' = outdated \cup Marked(v)
  /\ changed' = [changed EXCEPT ![v] = Unrecorded]
  /\ misled' = (misled \/ (changed[v] # used[v] /\ Value(objects, v) # used[v]))
  /\ used' = [used EXCEPT ![v] = Value(objects, v)]
  /\ touched' = IF Value(objects, v) = used[v] THEN touched ELSE touched \cup {<<v, used[v]>>}
  /\ UNCHANGED <<mode, objects, oldG, looks, failed>>

ChangesApplied == /\ mode = "repairing" /\ changed = NoRecord
                  /\ mode' = "planning"
                  /\ UNCHANGED <<objects, changed, estimates, lights, history>>

(* quit is closed; the objects stay on the floors.                         *)
Quit == /\ mode = "waiting" /\ mode' = "off"
        /\ changed' = NoRecord /\ g' = Far /\ rhs' = Far /\ queue' = EmptyQueue
        /\ oldG' = [l \in Lights |-> Unreachable] /\ outdated' = {}
        /\ looks' = 0 /\ used' = Base /\ misled' = FALSE /\ touched' = {} /\ failed' = {}
        /\ UNCHANGED objects

Compute == \/ \E u \in Cells : Expand(u) \/ ApplyChange(u)
           \/ \E F \in SUBSET Lights : UpdateSignaling(F)
           \/ PlanDone \/ ChangesApplied

Next == \/ \E o \in Sights : FirstLook(o) \/ Tick(o)
        \/ Launch \/ RefuseLaunch \/ Compute \/ Quit

Spec == Init /\ [][Next]_vars

(* The loop's goroutine goes on while it has something to compute.         *)
FairSpec == Spec /\ WF_vars(Compute)

-----------------------------------------------------------------------------
(* The reference: the cost of the cheapest way to an exit and out of it. A *)
(* cell under an object can be left through a portal, so all cells count.  *)
Distance(objs) == DistanceWithin(objs, FakeGoal, Cells)

(* Between two rounds, every cell has the cost of its cheapest way out,    *)
(* whatever has come, gone and changed since the first plan, unless a cell *)
(* was recorded before that plan and changed again before its replay.      *)
FlowIsDistance == mode = "waiting" /\ ~misled => g = Distance(objects)

(* The lights at a cell that has changed in this round, or from which a    *)
(* step to it was or is within reach.                                      *)
LightsNearChanges ==
  {l \in Lights : \E t \in touched : \/ l = t[1]
                                     \/ ~IsUnreachable(OldEdge(l, t[1], t[2]))
                                     \/ ~IsUnreachable(Edge(objects, l, t[1]))}

(* A light at or next to a cell that has changed is up to date when the    *)
(* round is over, unless the call that turns it has failed, or, once more, *)
(* a cell was recorded before the first plan and has changed again.        *)
LightsNearChangesFollow ==
  mode = "waiting" /\ ~misled =>
    \A l \in LightsNearChanges \ failed : Abs(g[l] - oldG[l]) < Hysteresis

(* Every round comes to an end: the queue runs empty.                      *)
RoundsEnd == mode \in {"planning", "repairing", "signaling"} ~> mode = "waiting"
=============================================================================
