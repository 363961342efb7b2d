------------------------------ MODULE Planner -------------------------------
(* The planner of an agent's run (internal/pathfinding/agent/dstar.go):    *)
(* D* Lite from the goal back to the agent, on the agent's own virtual     *)
(* world, repaired when the agent sees that objects have moved. The        *)
(* commands that let the agent walk are the matter of AgentComm; here the  *)
(* agent may walk, wait or end whenever the loop asks.                     *)
EXTENDS Costs

CONSTANTS
  Goal,          \* the goal of the run
  Starts,        \* where the agent may be when a run starts
  Movable,       \* the cells that an object may stand on
  ObjectCosts,   \* what an object adds to its cells, 0 for no object
  Radius,        \* VisionRadiusCells
  UpdateEvery,   \* CellsForRealUpdate
  MaxLooks,      \* bound: visions of a run that find something new
  Unrecorded,    \* marks a cell that Changed does not hold
  Unqueued       \* marks a cell that is not in the queue

ASSUME PlannerAssumption ==
  /\ Goal \in Cells /\ Starts \subseteq Cells /\ Movable \subseteq Cells
  /\ ObjectCosts \subseteq Nat /\ 0 \in ObjectCosts
  /\ Radius \in Nat /\ UpdateEvery \in Nat \ {0} /\ MaxLooks \in Nat
  /\ Unrecorded \notin Int /\ Unqueued \notin Int \X Int
  /\ \A a, b \in Cells : Dx(a, b) < Unreachable /\ Dy(a, b) < Unreachable

VARIABLES
  mode,       \* where the run's goroutine is
  start,      \* the agent's cell
  prevPos,    \* its cell when km was last raised
  km,         \* what the keys have been raised by
  steps,      \* steps made, modulo UpdateEvery
  objects,    \* the objects the agent knows of
  changed,    \* Changed: the first previous cost of a cell to be replayed
  g, rhs,     \* the two estimates of a cell's distance to the goal
  queue,      \* the key of each cell in the queue
  looks,      \* bound: visions that found something new
  used,       \* history: the cost the planner last used for a cell
  misled      \* history: a cell was replayed with a cost never used

position == <<start, prevPos, km, steps>>
estimates == <<g, rhs, queue>>
history == <<looks, used, misled>>
vars == <<mode, position, objects, changed, estimates, history>>

-----------------------------------------------------------------------------
(* Keys.                                                                   *)

Heuristic(a, b) ==
  LET min == Smaller(Dx(a, b), Dy(a, b)) max == Dx(a, b) + Dy(a, b) - min
  IN DiagonalCost(min) + max - min + Abs(a[3] - b[3])

Less(k, l) == k[1] < l[1] \/ (k[1] = l[1] /\ k[2] < l[2])

Key(c, gc, rc) == LET min == Smaller(gc, rc) IN <<min + Heuristic(start, c) + km, min>>

Queued == {c \in Cells : queue[c] # Unqueued}

(* updateVertex: a cell is queued, with a key of now, iff inconsistent.    *)
Requeued(gs, rs, c) == IF gs[c] # rs[c] THEN Key(c, gs[c], rs[c]) ELSE Unqueued

(* The estimates and the queue after the cells of S were updated.          *)
Update(S, gs, rs) ==
  /\ g' = gs /\ rhs' = rs
  /\ queue' = [c \in Cells |-> IF c \in S THEN Requeued(gs, rs, c) ELSE queue[c]]

-----------------------------------------------------------------------------
Clean == [c \in Cells |-> 0]
NoRecord == [c \in Cells |-> Unrecorded]
EmptyQueue == [c \in Cells |-> Unqueued]

Init == /\ mode = "pooled" /\ start = Goal /\ prevPos = Goal /\ km = 0 /\ steps = 0
        /\ objects = Clean /\ changed = NoRecord
        /\ g = Far /\ rhs = Far /\ queue = EmptyQueue
        /\ looks = 0 /\ used = Base /\ misled = FALSE

(* initialize: a planner of the pool gets a start and a world without      *)
(* objects; the goal is the only cell with a look-ahead.                   *)
Acquire(s) ==
  /\ mode = "pooled" /\ mode' = "starting"
  /\ ~IsBlocked(Base[s]) /\ ~IsBlocked(Base[Goal])
  /\ start' = s /\ prevPos' = s
  /\ rhs' = [rhs EXCEPT ![Goal] = 0]
  /\ queue' = [queue EXCEPT ![Goal] = <<Heuristic(s, Goal), 0>>]
  /\ UNCHANGED <<km, steps, objects, changed, g, history>>

Visible == {c \in Movable : /\ Base[c] # 0 /\ c[3] = start[3]
                            /\ Dx(c, start) <= Radius /\ Dy(c, start) <= Radius}

(* applyLocalVision: the known objects around the agent are replaced, and  *)
(* recordWorldChanges keeps the first previous cost of what has changed.   *)
Look(o) ==
  LET S == {c \in DOMAIN o : o[c] # objects[c]} IN
  /\ S # {} => looks < MaxLooks
  /\ looks' = IF S = {} THEN looks ELSE looks + 1
  /\ objects' = [c \in Cells |-> IF c \in S THEN o[c] ELSE objects[c]]
  /\ changed' = [c \in Cells |-> IF c \in S /\ changed[c] = Unrecorded
                                 THEN Value(objects, c) ELSE changed[c]]

Visions == [Visible -> ObjectCosts]

(* The first vision; if it fails, nothing is seen.                         *)
FirstVision(o) ==
  /\ mode = "starting" /\ mode' = "planning"
  /\ Look(o)
  /\ used' = [c \in Cells |-> Value(objects', c)]
  /\ UNCHANGED <<position, estimates, misled>>

(* InternalAgentNaivePathCost: a planner that computes the cost of a path  *)
(* over the map and answers without looking or walking.                    *)
AskCost == /\ mode = "starting" /\ mode' = "costing"
           /\ UNCHANGED <<position, objects, changed, estimates, history>>

-----------------------------------------------------------------------------
(* One iteration of computeShortestPath each.                              *)

Planning == mode \in {"planning", "replanning", "costing"}

Top(u) == u \in Queued /\ \A c \in Queued : ~Less(queue[c], queue[u])

Unfinished(u) == \/ Less(queue[u], Key(start, g[start], rhs[start]))
                 \/ g[start] # rhs[start]

(* The key is older than the agent's last move.                            *)
Refresh(u) == /\ Less(queue[u], Key(u, g[u], rhs[u]))
              /\ queue' = [queue EXCEPT ![u] = Key(u, g[u], rhs[u])]
              /\ UNCHANGED <<g, rhs>>

\* Mutant: the cell stays in the queue.
LowerQueued(u) ==
  /\ ~Less(queue[u], Key(u, g[u], rhs[u])) /\ g[u] > rhs[u]
  /\ Update(Preds(objects, u), [g EXCEPT ![u] = rhs[u]],
            [c \in Cells |-> IF c \in Preds(objects, u)
                             THEN Smaller(rhs[c], AddCost(Edge(objects, c, u), rhs[u])) ELSE rhs[c]])

(* The cell is nearer than was thought: its predecessors may be, too.      *)
Lower(u) ==
  /\ ~Less(queue[u], Key(u, g[u], rhs[u])) /\ g[u] > rhs[u]
  /\ Update(Preds(objects, u) \cup {u}, [g EXCEPT ![u] = rhs[u]],
            [c \in Cells |-> IF c \in Preds(objects, u)
                             THEN Smaller(rhs[c], AddCost(Edge(objects, c, u), rhs[u])) ELSE rhs[c]])

(* The cells whose look-ahead was what u promised have to look again.      *)
Dependent(u, old) == {c \in Preds(objects, u) : rhs[c] = AddCost(Edge(objects, c, u), old)}

(* The cell is farther than was thought.                                   *)
Raise(u) ==
  /\ ~Less(queue[u], Key(u, g[u], rhs[u])) /\ g[u] <= rhs[u]
  /\ LET gs == [g EXCEPT ![u] = Unreachable] IN
     Update(Preds(objects, u) \cup {u}, gs,
            [c \in Cells |-> IF c \in (Dependent(u, g[u]) \cup {u}) \ {Goal}
                             THEN LookAhead(objects, gs, c) ELSE rhs[c]])

Expand(u) == /\ Planning /\ Top(u) /\ Unfinished(u)
             /\ Refresh(u) \/ Lower(u) \/ Raise(u)
             /\ UNCHANGED <<mode, position, objects, changed, history>>

PlanDone == /\ Planning /\ ~\E u \in Cells : Top(u) /\ Unfinished(u)
            /\ mode' = CASE mode = "planning" -> "waiting"
                         [] mode = "replanning" -> "walking"
                         [] mode = "costing" -> "answered"
            /\ UNCHANGED <<position, objects, changed, estimates, history>>

-----------------------------------------------------------------------------
(* The loop of InternalAgentFindPathContext.                               *)

Arrive == /\ mode = "waiting" /\ start = Goal
          /\ mode' = "ended"
          /\ UNCHANGED <<position, objects, changed, estimates, history>>

(* waitUntilStep says that the run was cancelled.                          *)
Cancelled == /\ mode = "waiting" /\ start # Goal
             /\ mode' = "ended"
             /\ UNCHANGED <<position, objects, changed, estimates, history>>

(* Between position updates the agent walks on without looking.            *)
WalkOn == /\ mode = "waiting" /\ start # Goal /\ steps # 0
          /\ mode' = "walking"
          /\ UNCHANGED <<position, objects, changed, estimates, history>>

\* Mutant: the keys are not raised when the agent has moved.
LookAroundUnraised(o) ==
  /\ mode = "waiting" /\ start # Goal /\ steps = 0
  /\ Look(o)
  /\ IF changed' = NoRecord THEN mode' = "walking" /\ UNCHANGED <<km, prevPos>>
     ELSE mode' = "repairing" /\ prevPos' = start /\ UNCHANGED km
  /\ UNCHANGED <<start, steps, estimates, used, misled>>

(* At a position update the agent looks around; if something has changed,  *)
(* the keys are raised by its way since the last time.                     *)
LookAround(o) ==
  /\ mode = "waiting" /\ start # Goal /\ steps = 0
  /\ Look(o)
  /\ IF changed' = NoRecord THEN mode' = "walking" /\ UNCHANGED <<km, prevPos>>
     ELSE /\ mode' = "repairing"
          /\ km' = km + Heuristic(prevPos, start)
          /\ prevPos' = start
  /\ UNCHANGED <<start, steps, estimates, used, misled>>

(* The cells whose edge to v has or had a cost (appendPredChangeCosts).    *)
Affected(v) == {u \in Cells : \/ ~IsUnreachable(OldEdge(u, v, changed[v]))
                              \/ ~IsUnreachable(Edge(objects, u, v))}

\* Mutant: g is read after it was cleared.
RepairedLate(u, v, gs, rs, oldG) ==
  LET old == OldEdge(u, v, changed[v]) new == Edge(objects, u, v) IN
  IF old > new THEN Smaller(rs[u], AddCost(new, gs[v]))
  ELSE IF rs[u] = AddCost(old, gs[v]) /\ u # Goal THEN LookAhead(objects, gs, u)
  ELSE rs[u]

(* What u has to expect after the cost of v has changed.                   *)
Repaired(u, v, gs, rs, oldG) ==
  LET old == OldEdge(u, v, changed[v]) new == Edge(objects, u, v) IN
  IF old > new THEN Smaller(rs[u], AddCost(new, gs[v]))
  ELSE IF rs[u] = AddCost(old, oldG) /\ u # Goal THEN LookAhead(objects, gs, u)
  ELSE rs[u]

\* Mutant: a cell that opens does not look at its successors.
LookAgainNot(v) == IF IsBlocked(Value(objects, v)) THEN [rhs EXCEPT ![v] = Unreachable] ELSE rhs

LookAgain(v) == IF IsBlocked(Value(objects, v)) THEN [rhs EXCEPT ![v] = Unreachable]
                ELSE IF v = Goal THEN rhs ELSE [rhs EXCEPT ![v] = LookAhead(objects, g, v)]

(* applyChanges for one cell: first the cell itself, then its neighbours.  *)
ApplyChange(v) ==
  /\ mode = "repairing" /\ changed[v] # Unrecorded
  /\ LET gs == IF IsBlocked(Value(objects, v)) THEN [g EXCEPT ![v] = Unreachable] ELSE g
         rs == LookAgain(v)
     IN Update(Affected(v) \cup {v}, gs,
               [c \in Cells |-> IF c \in Affected(v) THEN Repaired(c, v, gs, rs, g[v]) ELSE rs[c]])
  /\ changed' = [changed EXCEPT ![v] = Unrecorded]
  /\ misled' = (misled \/ changed[v] # used[v])
  /\ used' = [used EXCEPT ![v] = Value(objects, v)]
  /\ UNCHANGED <<mode, position, objects, looks>>

ChangesApplied == /\ mode = "repairing" /\ changed = NoRecord
                  /\ mode' = "replanning"
                  /\ UNCHANGED <<position, objects, changed, estimates, history>>

NoPath == /\ mode = "walking"
          /\ IsUnreachable(rhs[start]) \/ IsUnreachable(LookAhead(objects, g, start))
          /\ mode' = "noPath"
          /\ UNCHANGED <<position, objects, changed, estimates, history>>

(* tryReduceMetersMovement does not grant the step.                        *)
StayHere == /\ mode = "walking" /\ ~IsUnreachable(rhs[start])
            /\ ~IsUnreachable(LookAhead(objects, g, start))
            /\ mode' = "waiting"
            /\ UNCHANGED <<position, objects, changed, estimates, history>>

TakeStep(n) ==
  /\ mode = "walking" /\ ~IsUnreachable(rhs[start])
  /\ ~IsUnreachable(LookAhead(objects, g, start))
  /\ AddCost(Edge(objects, start, n), g[n]) = LookAhead(objects, g, start)
  /\ mode' = "waiting"
  /\ start' = n
  /\ steps' = (steps + 1) % UpdateEvery
  /\ UNCHANGED <<prevPos, km, objects, changed, estimates, history>>

(* releaseAgentDStarLite: the planner is cleared and goes back to the pool.*)
Release == /\ mode \in {"ended", "noPath", "answered"}
           /\ mode' = "pooled" /\ start' = Goal /\ prevPos' = Goal /\ km' = 0 /\ steps' = 0
           /\ objects' = Clean /\ changed' = NoRecord
           /\ g' = Far /\ rhs' = Far /\ queue' = EmptyQueue
           /\ looks' = 0 /\ used' = Base /\ misled' = FALSE

Next == \/ \E s \in Starts : Acquire(s)
        \/ \E o \in Visions : FirstVision(o) \/ LookAround(o)
        \/ \E u \in Cells : Expand(u) \/ ApplyChange(u) \/ TakeStep(u)
        \/ AskCost \/ PlanDone \/ ChangesApplied \/ Arrive \/ Cancelled \/ WalkOn
        \/ NoPath \/ StayHere \/ Release

Spec == Init /\ [][Next]_vars

(* The run's goroutine goes on planning while there is something to do.    *)
FairSpec == Spec /\ WF_vars((\E u \in Cells : Expand(u)) \/ PlanDone)

-----------------------------------------------------------------------------
(* The reference: the cost of the cheapest path to the goal over cells     *)
(* that are open.                                                          *)
Distance(objs) == IF Goal \in OpenCells(objs) THEN DistanceWithin(objs, Goal, OpenCells(objs)) ELSE Far

(* The queue holds exactly the cells whose two estimates differ, and while *)
(* the planner works, no key in it exceeds the one its cell would get now: *)
(* nothing is passed over because it was forgotten or its key is old.      *)
QueueIsCurrent ==
  /\ mode # "pooled" => \A c \in Cells : (queue[c] # Unqueued <=> g[c] # rhs[c])
  /\ Planning => \A c \in Queued : ~Less(Key(c, g[c], rhs[c]), queue[c])

(* Every open cell's look-ahead is what its successors promise, however    *)
(* many costs have changed since the plan was made.                        *)
RhsFollowsSuccessors ==
  mode \in {"planning", "waiting", "replanning", "walking"} /\ ~misled =>
    \A c \in OpenCells(objects) \ {Goal} : rhs[c] = LookAhead(objects, g, c)

(* Both, which D* Lite needs of each other.                                *)
EstimatesAreCurrent == QueueIsCurrent /\ RhsFollowsSuccessors

(* The agent only makes steps of a cheapest path over what it knows, unless*)
(* an object stands on it: it may then leave through a portal.             *)
StepsAreOptimal == [][ mode = "walking" /\ start' # start /\ ~misled /\ start \in OpenCells(objects) =>
  LET d == Distance(objects) IN d[start] = AddCost(Edge(objects, start, start'), d[start']) ]_vars

(* A run that gives up has no path over what it knows, and the answer to a*)
(* request for the cost is that of a cheapest path.                        *)
AnswersAreTrue ==
  /\ mode = "noPath" /\ ~misled => IsUnreachable(Distance(objects)[start])
  /\ mode = "answered" => g[start] = Distance(objects)[start]

(* What these answers and steps ask of the portals. The code leaves both to*)
(* its configuration, whose portals (config/config.yaml) keep them: none is*)
(* cheaper than the heuristic thinks, and from its far end no portal leads *)
(* on but back.                                                            *)
PortalsFair == \A p \in DOMAIN Portal : Heuristic(p[1], p[2]) <= Portal[p]
PortalsReturn == \A p, q \in DOMAIN Portal : p[2] = q[1] => q[2] = p[1]

(* Every computation of the shortest path comes to an end.                 *)
PlanningEnds == Planning ~> ~Planning

-----------------------------------------------------------------------------
(* errors.go:17: ErrAgentNoPath reports that no traversable route exists   *)
(* to the requested goal.                                                  *)
NoPathIsTrue == mode = "noPath" => IsUnreachable(Distance(objects)[start])
=============================================================================
