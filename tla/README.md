# LifeRouter: formal models and proofs

LifeRouter is a Go service that moves agents over a multi-floor grid and computes
evacuation flow fields. Clients talk to it over NATS; it reads object positions from
*geotruth* and publishes agent positions to it. This directory holds TLA+ models of its
concurrent core, the TLC configurations that check them on small instances, and TLAPS
proofs for every instance. Paths below are relative to the repository.

## 1. The system

| Component | Source | State it keeps | Operations |
|---|---|---|---|
| Agent communicator and run loop | `internal/pathfinding/agent/agent_comm.go`, `dstar.go:583-683` | speed, steps and meters left, `movementMu`, five channels, context, `endedCh`, exit error | `UpdateMovementSpeed`/`Stop`, `MoveNCells`, `MoveFMeters`, `Terminate`, `BlockingWait`, `IsMoving`, `ExitError`; one goroutine per run |
| Session table | `internal/app/dispatcher.go`, `handlers.go`, `app.go:213-241` | dispatcher state, active communicators, retained results, timers | `handleAgentFindPath`, `completeComm`, `addCommIfRunning`, the lookups, `stopActiveAgents` |
| Emergency lifecycle | `handlers.go:202-310`, `app.go:178-211`, `flowfield.go:673-729` | emergency state, `quit`/`done`/`stopDone`, preference costs | `handleEmergencyStart`, `handleEmergencyStop`, `stopCurrentEmergency`, the loop goroutine |
| Flow publisher | `flowfield.go:35-95`, `handlers.go:312-347` | one channel, a request flag | `SetFlowPublisher`, `publish`, `publishIfRequested`, `close`; one streaming goroutine per subscriber |
| Grid layers | `internal/grid/grid.go` | base, object and final costs, subscribers | `ReplaceObjectRegion`, `MaskBaseRegion`, `UpdateFinal`, `ResetBase`, `SubChanges` |
| World | `internal/grid/worldGrid.go` | floors, dirty flags, portals, subscriptions, a pool | `NewVirtualWorld`, `Floor`, `SubChanges`, portals, `ReleaseVirtualWorld` |
| Agent planner | `agent/dstar.go`, `paged_values.go` | g, rhs, queue, `Changed`, km | `computeShortestPath`, `applyChanges` |
| Flow field and light nodes | `emergency/flowfield.go`, `node.go` | g, rhs, queue, `Changed`, outdated nodes | `applyEnvironmentObjects`, `applyChanges`, `updateSignaling` |
| Priority queue | `core/priority_queue.go` | heap, keys, position map | `Insert`, `Update`, `Remove` |
| Path publisher and stream | `agent_comm.go:172-181,297-328`, `handlers.go:126-190`, `pkg/pathfinding/pathfinding.go` | channel, request flag, inbox of a client | `SetPathPublisher`, `publishPath`, `handleAgentPathSub`, `AgentPathSub` |
| Snapshot codec | `pkg/snapshotstream` | chunks of one snapshot | `MarshalSnapshot`, `Assembler.Add` |
| Bounded handlers | `app/concurrent_handler.go` | a semaphore | wraps blocking handlers |
| Geotruth pools, rasterizer, configuration, clients, entry points | `internal/geotruthpool`, `internal/raster`, `internal/config`, `pkg/*`, `main.go`, `embedded` | little or none | I/O, geometry, parsing |

How they interact. A NATS subscription delivers its messages one at a time to its
handler; handlers of different subscriptions run concurrently, and some are wrapped by
`concurrentHandler`, which gives every message a goroutine. `handleAgentFindPath` leases a
virtual world, starts a planner and its run goroutine, and registers the communicator in
the table; a second goroutine waits for the end of the run and moves its result to the
retained results. The movement handlers look a communicator up and call it; the run
goroutine receives the commands on channels while it plans, publishes positions, and ends
at the goal, on *no path*, or when cancelled. The emergency handlers own one loop goroutine
at a time, which plans on the global world, and bracket it by preference costs on the base
layer of the floors. `Shutdown` stops the agents, then the emergency, then drains NATS.

What is hard here, and what makes each part correct:

- *Agent run.* Commands and cancellation race with a loop that looks at its channels at a
  few points only and holds `movementMu` between them. A command must be served completely
  before the next, its caller answered once and with what was really not walked, and a
  cancelled run must end whatever it was doing.
- *Session table.* Requests, completions, timers, lookups and shutdown interleave under
  short critical sections. No run may be lost, the retained result must be the latest one
  and live as long as promised, and nothing may be left behind by shutdown.
- *Emergency.* Stop and Shutdown both wait for the loop outside the lock. Costs must be
  restored, no channel closed twice, and a Stop answered only after the run is gone.
- *Flow publisher.* Subscribers replace one another while the loop publishes.
- *Grid, world, planners, queue, streams.* Derived state (the final layer, `Changed`, the
  position map, linked floors, assembled chunks) must follow what it is derived from.

## 2. The modules

| Contract | Model | Checked by | Proved in |
|---|---|---|---|
| `AgentRun` | `AgentComm` | `MCAgentComm` | `AgentCommProofs` |
| | `Dispatcher` | `MCDispatcher` | `DispatcherProofs` |
| `EmergencyContract` | `Emergency` | `MCEmergency` | `EmergencyProofs` |
| | `Grid` | `MCGrid` | `GridProofs` |
| | `World` | `MCWorld` | `WorldProofs` |
| `QueueContract` | `PrioQueue` | `MCWorld` | |
| | `Planner` (extends `Costs`) | `MCPlanner` | `PlannerProofs` |
| | `FlowField` (extends `Costs`) | `MCFlowField` | `FlowFieldProofs` |
| | `PathStream` | `MCPathStream` | `PathStreamProofs` |

How they fit together: `AgentComm` decides when a step is granted and `Planner` which step it is;
`Grid` is the record of changes that both planners replay; `World` hands out the floors on which
agents plan and carries the subscriptions of `Grid`; `Emergency` is the life of the loop whose work
is `FlowField`; `Dispatcher` holds the runs that `AgentComm` describes; `PathStream` watches one.

### AgentRun
What observers of a run may rely on: a reason is recorded at most once, the context is
cancelled only when the agent has arrived, has ended or a reason is recorded, and the
completion channel closes once, after cancellation. `EndIsExplained` follows from it.

### AgentComm
`run` is the control point of the goroutine in `InternalAgentFindPathContext` and, inside
it, of `waitUntilStep` and `tryReduceMetersMovement`. `speed`, `stepsLeft`, `metersLeft`,
`movementMu` are the fields of the same name; `nSteps` is the buffer of `nStepsCh`; a
rendezvous on an unbuffered channel is one step of both sides (`ReceiveMeters`,
`ReceiveSpeed`, `Respond`). `ctxDone`, `ended`, `respClosed`, `exitErr` are the context, the
two channels closed by `destroy`, and the error. A caller inside a method that blocks or
has several steps is recorded in `call`; Terminate is three steps (`IsMoving`,
`setExitError`, `cancel`).
The planner is reduced to what the loop learns from it: the number of cells left (which a
replanning may change, `MaxDetours` times), the cost of the next cell, or *no path*.
Distances are integers in units in which a cell of `EMPTY_SPACE_COST` is `EmptyCost`. `Tolerance`
is the thousandth of a cell up to which `tryReduceMetersMovement` takes a rest for nothing
(`FinishMeters`; a greater rest goes on in `UseMeters`): any number of units below `EmptyCost`, 0 included.
A position update may fail at any time. `grant`, `owed`, `metersUsed`, `coast` are history
variables that the actions never read; `owed` starts with what the constructor leaves of the initial
request, one cell less than was asked for.

### Dispatcher
A request is named by the run it makes. `stage` walks through `handleAgentFindPath` and then
through the completion goroutine; every critical section of `dispatcher.mu` is one action,
and what happens between two of them is a step of its own (`StampExpiry` before the lock of
`completeComm`, `ArmTimer` after it, the two halves of Terminate). A run is a black box with
the behaviour of `AgentRun`: it may end by itself at any time, and ends after cancellation.
`shutdown` walks through `stopActiveAgents` with its snapshot `comms`. Clients execute the
lookups of `handleExitError`, `handleBlockingWait` and `handleTerminate`, whose `dispatch` and
`completedExitError` are separate actions. `latest`, `absent`, `renewed` are history variables.

### Emergency
`mu` and `state` are the manager's lock and state; runs are numbered and their three
channels named by the number, 0 being nil. The Start handler holds the lock through all of
its steps; Stop and Shutdown release it while they wait. `masked` is one bit for the
preference costs of all floors. The loop's deferred calls are the actions `ClosePublisher`,
`CleanupPortals` and `CloseDone`, in that order. The publisher's channel is a subscriber's
name; `box` counts the snapshots buffered. An operation that panics in Go sets `panic`. One
Start and one Stop handler are at work at a time, because NATS delivers one message of a
subscription at a time and neither is wrapped by `concurrentHandler`.

### EmergencyContract
Runs never overlap, a run computes on preferred costs only, and the costs are restored
between runs. `Emergency` implements it with `live` as the set of loops that have not ended.

### Grid
One floor, as the global world has it and as agents link it. `original` is the base layer that `FromImg` made
of the map (an open cell costs `EmptySpace`, or twice that along a wall), `base` what has become of it: one slice that the
linked grids share, as in `newLinkedGrid`; `objects` and `final` are a grid's own. `watch` and
`changed` are the subscription and the `Changed` map of the planner that reads the grid.
`emergency` and `job` bring in the handlers that write the base layer: `job.todo` holds the cells
that a `MaskBaseRegion` or a `ResetBase` has still to write. Each cell is a step of its own, because
linked grids read the base without the lock of the global grid. `UpdateFinal` (together with
`applyEnvironmentObjects`) is one step, because nobody but the loop touches the global objects while
an emergency runs. `Link` is `newLinkedGrid`/`resetLinked` with the subscription that
follows at once. `FirstPlan` and `ApplyChanges` are what a planner does with its record; `Close` ends
a run or an emergency loop. `seen` and `early` are history variables: the cost of a cell at the
planner's last use of it, and the cells that were recorded before the planner's first plan.

### QueueContract and PrioQueue
The contract is a map from elements to keys that shows an element whose key is least.
`PrioQueue` is the binary heap with its position map: `heap` is the slice of entries (places are
counted from 1, so that the children of i are 2i and 2i+1), `pos` the map. Keys are numbers, standing for the
total order of `Key_comparator`. Every operation is one action with the
sifting it ends in; the loops of the code are recursive operators. Ties among equal keys are decided
as the code decides them.

### Costs
What both planners compute with: saturating sums, the cost of an edge between neighbours or along a
portal, now and with the cost a cell had before a change, the look-ahead `minCostSucc`, and as a
reference `DistanceWithin`, the cheapest path by its number of steps.

### Planner
The planner of one run, on one agent's world with objects. `mode` is where the goroutine of
`InternalAgentFindPathContext` is; one `Expand` is one iteration of `computeShortestPath`, split
into its three branches `Refresh`, `Lower` and `Raise`; `ApplyChange` is the work of `applyChanges` for one
changed cell, and cells may come in any order, as from a Go map. The queue is the contract of
`PrioQueue`, with ties left open. What the agent sees is any assignment of object
costs to the movable cells in its vision: `Look` is `applyLocalVision` with the recording of changes by the
grid (`Grid` has the details). Whether a step is granted, refused or the run cancelled is
open (`TakeStep`, `StayHere`, `Cancelled`); `AgentComm` decides that. `AskCost` is
`InternalAgentNaivePathCost`, which plans on a world without objects; `Release` returns the planner
cleared to its pool. `used` and `misled` are history variables: the cost the planner last used for a
cell, and whether a change was replayed with another. The first vision lays that trap: it happens
before the first plan, its changes are recorded, and the next replay takes them for
changes since that plan. The properties about later plans are stated for runs that were not misled.

### FlowField
The same algorithm backwards from a fake goal to which every exit is linked, over all cells of the
global world, without a heuristic and with many rounds: `Launch` (`newSysDStarLite`), `FirstLook` and
`Tick` (`applyEnvironmentObjects`, which may fail), `ApplyChange`, `Expand`, `UpdateSignaling`, `Quit`.
Objects stay on the floors after a `Quit`, as in the code, so that the next emergency starts on them.
`oldG` and `outdated` are the fields of the light nodes; a call that turns a light may fail (`F`). The
directions that `getFlow` reads off the estimates are left out: they change nothing.
`used`, `misled`, `touched` and `failed` are history variables; `touched` holds the cells whose cost has really
changed in the round, with the cost that was used for them. The first plan misleads an emergency as it misleads a
run: a cell that the first look recorded, and that changes again before the first replay, is replayed with a cost
the plan never used. Estimates may then stay wrong, and a light that only the old cost of that cell had in reach is
not marked; both properties leave such emergencies out.

### World
One struct of the pool per element of `Worlds`. `status` follows it through lease, release (which
closes subscriptions without the lock, and then clears under it), the pool, and the garbage
collector. `worldSubs` is the slice of subscriptions, from which one is removed by moving the last into its
place; `gridSubs` and `nextGridId` are the subscriptions of each linked floor; `handles` the floor
subscriptions a world's subscription holds. `content` tells the objects of the lease from those left over.
`TakeSub` and the `CloseFloorSub`s are one `Close`, in the pieces its locks leave; it may go on
while the struct is released and leased again. Both maps of portals count the copies of each.

### PathStream
One run and its watchers: the publisher of the communicator (`Take...`, `Send...`, with `publishMu` held
as long as `pending` is set), the goroutine of `handleAgentPathSub` (`SetPathPublisher`, `Confirm`,
`Receive`, `PublishPayload`, `Finish`, and for failing publishes `ConfirmFails`, `PublishFails`, `FinishFails`), the client (`AgentPathSub`, `Handshake`, `Read`) and the
assembler of chunks. NATS delivers in order; what it does not deliver is a failed publish, a message for an
inbox that is full, or one for a client that is gone. A snapshot is a number and its parts.
`spoiled`, `doneLost` and `intact` are history variables.

## 3. What TLC checks

Passing runs:

| Run | Instance | What it shows |
|---|---|---|
| `agent` | 2 callers, 2 commands, an initial request of 2 cells, routes up to 3 cells and a detour, speeds 0/1, 2 cells, meters -1/4 with steps of 1 or 3, tolerance 1; 492 k states | every earlier command is served when the loop is ready for another, the initial one as far as the constructor leaves it; MoveFMeters is answered to the one that asked, with what was not walked, up to the tolerance; a nil exit error means arrival and a published goal; after a Stop at most one timed step; the run contract; a cancelled run ends; every call returns |
| `session` | 2 requests for one agent, one client, TTL 1, clock up to 1; about 1.4 M states | no run is lost; what is retained is the end of the latest run, until it expires; a stopped table stays empty; *NotFound* has a reason; shutdown completes, and replaced and refused runs end |
| `emergency_lifecycle` | 3 runs, 2 subscribers, channel capacity 1; about 12 k states | costs follow the state, no misuse of a channel, a Stop means stopped, open streams are served, the contract; Stop is answered, Shutdown gets past the emergency, subscribers are served, streams end |
| `grid_layers` | an open cell, plain or at a margin, and a wall, one run, object costs 0/3/9, discounts 0/-3, EMPTY 2, UNREACHABLE 9; 723 k states | no change escapes a planner, it replays the cost it used, sums agree with layers, only objects close cells; with the emergency stopped the base is the map's or all empty space, except under an impassable object |
| `planner` | a 3x3 floor with a pillar, a corridor above, two portals; 2 starts, 4 cells where objects come and go, three changed visions; about 34 k states | queue and look-aheads are consistent, keys never too large, steps and answers optimal, *no path* is right, planning ends |
| `flow_field` | two floors, two exits, two lights, seven visions, four looks an emergency, emergencies without end; about 49 k states | between two rounds every cell has the cost of its cheapest way out; lights near a change are up to date unless their call failed; every round ends |
| `world_and_queue` | one struct leased again and again, 2 floors of which one may stay in the pool, 3 subscriptions, 2 portals of cost 1 or 2; in behaviours of its own the queue with 6 elements, three of them declared symmetric, and keys 1 to 3; together 291 k states | every open subscription hears each change of a floor of its lease once, and no other; a lease finds no objects of an earlier one; both portal maps agree. The queue implements the contract: keys are kept, and a least one is on top after every operation |
| `path_stream` | 2 watchers, channels of 1, inboxes of 2, snapshots in one message or two chunks, 2 snapshots; 161 k states | no channel is used after its close; the caller sees exactly the snapshots that came through in full; a stream that is over is closed |

Runs that show where a comment or manual and the code disagree (each checks one property
that states the quoted text; TLC finds the counterexample):

| Run | Statement refuted |
|---|---|
| `agent_zero_meters` | Terminate cancels the run (`agent_comm.go:122`): after `MoveFMeters(0)` and another movement command the goroutine waits for `movementMu` for ever |
| `agent_initial_cells` | `moveNSteps` requests an initial number of cells (`user_manual.tex:441`): the constructor takes the first one off before any step is made, so that one cell less is walked |
| `grid_reset` | `RemovePreferencePaths` restores each floor's base cost (`flowfield.go:794`, `technical_manual.tex:707`): a cell at the margin of a wall, dearer on the map, costs what empty space costs from the first emergency on. A cell under an impassable object keeps its discount, against `grid.go:540` |
| `planner_no_path` | ErrAgentNoPath reports that no traversable route exists (`pkg/domain/errors.go:17`): changes recorded before the first plan mislead the first repair, and a run gives up although a route is open |

Other disagreements were met and have no run of their own.

- *Shutdown.* Shutdown stops active jobs (`app.go:120`); a start request that arrives between
  `stopCurrentEmergency` and the drain runs on, and `stopActiveAgents` does not wait for a run that was just
  replaced (`app.go:213`).
- *Lookups.* The active and the retained results are read under two locks, so that *NotFound* is also answered
  when a restart falls between them (`pkg/domain/errors.go:14`; `NotFoundIsJustified` is what does hold).
- *Planner.* The heuristic ignores portals, so that a portal whose ends are farther apart than it costs may
  end a computation before the shortest path is found (`technical_manual.tex:555`). In a run that was misled the
  path may hold a cycle, on which `extractPath` does not end.
- *Flow field.* Only lights next to a changed cell are marked outdated, although a change moves the costs of cells
  far away (`technical_manual.tex:737`); a light whose call failed is not tried again until a cell near it changes
  (`flowfield.go:353`); of two nodes on one cell only the last is kept in `lightNodes`; a start may be
  refused because of an object that stood on the exit in an earlier emergency (`flowfield.go:192`); the first
  look is recorded before the first plan here, too, and `FlowIsDistance` is stated for emergencies it did not mislead.
- *Path stream.* A subscription whose confirmation fails leaves its channel with the publisher: once it is full,
  each publish costs the run its 200 ms; and if the inbox of a client is full when the last
  message comes, or that message is not published (`FinishFails`), its channel is never closed. `StreamsEnd`
  leaves a lost last message out.
- *Runs.* Terminate may
  record its error after the end of the run, although the manual says *if the route was still active*
  (`technical_manual.tex:675`); a position update that failed on the way stays the exit error of a run that
  arrived (`pkg/pathfinding/agent_comm.go:100`).

### Bounds and why they are enough
`MaxCalls = 2` lets one command follow another, or two meet, in every state of the loop;
Terminate is not counted and may come at any time. Routes of three cells have a first, a
middle and a last cell, and reports every second cell give both parities at the goal.
Meter requests below, at and above the cost of a step, with rests of 0, 1 (the tolerance) and more, reach each
branch of `tryReduceMetersMovement`. An initial request of two cells leaves one to the loop. Two requests for one agent are the least in which a run that
completes late meets a newer one; agents share nothing in the table but its lock, which the
one-agent instance exercises. TTL 1 with a clock to 1 has a
first result before and at its expiry, and its timer against a second result that expires later; that
the second one expires, too, is beyond the clock (`ResultsAreRetained` is proved for every clock). Two clients in the lookups would not interact: a lookup changes
the table only through Terminate, which `RunEnds` subsumes. Three emergency runs let a Stop be
overtaken by Shutdown, or by a later run; a channel of capacity 1 is full after one snapshot. Cells of a floor do not
influence one another in `Grid`, so an open cell, of either cost, and a wall stand for all; the object costs are absent,
passable and impassable, and the discount takes a cost below 1. Six entries are the least
heap in which a removal moves an entry up, and three keys tell a parent from each of its children; the elements differ only in their key, and
no definition chooses one of them, so declaring some symmetric loses nothing. The queue and the world
share nothing; a state of `MCWorld` moves one of them only, so that each is explored as if alone. In the planner's world both ends of a
portal have the same place on their floors and cost no less than the layers they span, as the heuristic needs;
the loop of the floor gives two ways to nearly everywhere, objects on it close either, on a
portal's end and on the goal they close the ends of a path. Three changed visions are a first, a
change and a change back. A position update at every second step separates steps that look from steps
that do not. In the flow field an exit below and one above make two ways out of which the portal's
foot, the floor or the upper exit may be closed; the upper row is dearer, so that a passable object turns the
flow; a hysteresis of 3 lies between the changes that occur. One struct is all that a lease meets: structs share
nothing but the pool, which hands out one that is free. Three subscriptions make the removal of the
first move another one; two floors are one before and one after a subscription, and one more than may be
pooled. Two watchers let one replace the other; a channel of one and an inbox of two
are full while a snapshot of one confirmation, two chunks and an end is under way; two snapshots can be mixed.
The proofs of section 4 remove the bounds for the run, the table, the emergency, the grid, the world,
the planner, the flow field, its lights, and path streams; for the planner's answers and steps under
the conditions on portals that are named there.

### Fairness
The Go scheduler eventually runs every goroutine that stays runnable, and timers fire: weak
fairness of the run goroutine, of callers that are inside a method, of requests that have
arrived, of completions, of the loop's deferred calls and of subscribers. Stop and Shutdown need
the manager's lock, which a Start may take in between again and again; `sync.Mutex` hands over to a waiter after
a millisecond, so they have strong fairness. Nothing obliges a client to call, a run to end
by itself, or the service to shut down. `PlanningEnds` and `RoundsEnd` assume that the goroutine goes on while it plans
(`Compute`), `StreamsEnd` that the run, each stream and each reading client do (`Publishing`, `Serving`, `Reading`). In
`session` a cancelled run ends by assumption; `agent` is where that assumption is checked (and `agent_zero_meters` where it fails).

## 4. What is proved

TLAPS checks the following for all values of the constants (`AgentAssumption`, `DispatcherAssumption`,
`EmergencyAssumption`, `GridAssumption`, `WorldAssumption`, `CostsAssumption`,
`PlannerAssumption`, `FlowFieldAssumption`, `PathStreamAssumption`: the nil value is none of the others, bounds are naturals, at least one
agent identifier exists, channels have a positive capacity and the tolerance is less than a plain cell; in the grid costs are
naturals, an object below `Unreachable` leaves room for the dearest base, discounts are not positive;
for the planner a floor is narrower than `Unreachable`, which is 2^30 - 1 in the code; in the flow field every exit
has its two portals of cost 1 to the fake goal, which no floor has).

**EmergencyProofs.** The inductive invariant `IInv` joins `TypeOK` and the properties with:
`StartInv` (what the Start handler has done at each of its steps while it holds the lock),
`LoopInv` (only the latest run may be alive; a run's quit channel is closed before it leaves
its loop; portals exist until their clean-up; a closed stopDone means that the run is over),
`ManagerInv` (which channels the manager holds in each state), `CallInv` (which run Stop and
Shutdown wait for, and that the manager still knows it) and `FlowInv` (the publisher's channel
is open and its subscriber is streaming). None of the properties is inductive alone: whether
Stop may close `quit` depends on who else has. Theorems: `TypeCorrect`, `MasksAreRestored`,
`ChannelsAreSafe`, `OpenStreamsAreServed`, `StopIsReal` (an action property) and `Refinement`
(`Spec => ImplementsContract`, by a step lemma with one case for each kind of action).

**DispatcherProofs.** `IInv` joins the properties with `StageInv` (how far a request is and what
its run does), `TabInv` (the table holds the latest run of an agent until its completion),
`ShutdownInv` (shutdown's snapshot covers every later content of the table), `ExpiryInv`
(results and timers carry their run's expiry; a timer is due no earlier) and `LookupInv` (a
lookup under way that finds neither entry has met absence or a restart). The proof has one
lemma for each group of actions, and in it one step per action and per part it can disturb.
Theorems: `Invariance`, `TypeCorrect`, `NoRunEscapes`, `ResultsAreRetained`,
 `StoppedStaysEmpty`, `NotFoundHasAReason`.

**GridProofs.** `IInv` joins the properties with `BaseInv` (walls cost nothing, corridors between 1
and twice empty space) and `JobInv` (which handler may write the base in which state, and that every
cell a reset is done with costs empty space or carries an impassable object). The lemmas
`SumIsOpen` and `LoweredIsOpen` keep sums and discounts away from the two values that
close a cell; `RewriteKeeps` is the one argument for all writers of final costs, `BaseWriteKeeps` that
for writers of the shared base. Theorems: `TypeCorrect`, `NoChangeLost`, `ReplayIsFaithful`,
`FinalIsSum`, `ObjectsClose`, `ResetIsComplete`. The last one is about every map, and says what a reset leaves
(the map, or empty space), not that the map is restored, which `grid_reset` refutes.

**AgentCommProofs.** `Base` joins `TypeOK` with `EndInv` (what has happened when the context is done, the run has
ended, or an answer is closed) and `CallInv` (which calls the loop may be waiting for); the contract, a step
lemma with one case per kind of action, and `NilIsArrival` follow from it. `CoastInv` says how far a stopped agent may still go at
each point of `waitUntilStep`. For the movement commands, `Served` adds `AskedInv` (what is left of each command), `LockInv`
(who holds `movementMu`, and for whom), `OwedInv` (cells walked and cells owed) and `AwaitInv` (the one caller
that awaits an answer). It is inductive only if no caller asks for zero meters, an assumption
of `ReadyIsServed`, `Rendezvous` and `AnswersAreAccurate`; the run `agent_zero_meters` shows what happens otherwise.
Theorems without it: `BaseHolds`, `TypeCorrect`, `NilIsArrival`, `RunImplements`, `CoastsOnce`.

**WorldProofs.** The steps of a struct leave the others alone (`Elsewhere`), so that the invariant is about one.
`HandleInv` is its core: the handle of a floor subscription names the subscription it was made for, or none. It holds
because floors never count from zero again, and it is what makes a `Close` harmless that outlives its lease.
`AttachInv` (every open subscription is on every floor of the lease, once) needs it, `ListInv` (the list names each
subscription once) and `SilentInv` (nobody listens to a floor that is not the lease's). Lemmas about sequences and about what
linking a floor adds to it come first. Theorems: `Invariance`, `TypeCorrect`, `PortalsAreMirrored`,
`FloorsStayFresh`, `SubscribersFollow`.

**PlannerProofs.** On any map, with any portals: the queue holds what is inconsistent, no key in it is too large, and every
look-ahead is the best that the successors promise. `QueueInv` says that a key is at most the one the cell would have got
where the agent stood when km was last raised; raising km keeps that because the heuristic, with its rounding, obeys the triangle
inequality (`HeuristicTriangle`, by way of what diagonals save). `FollowInv` is the hard part: while `applyChanges`
replays one changed cell after another, a look-ahead is the best of a row (`Row`, `Best`) in which some of the cells still to come have
their old costs and others the new ones, because recomputing one look-ahead reads all present costs. `NeighbourFollow` shows that
the replay of a cell moves exactly that cell to its present cost, whichever of the two the row had; `LowerFollow` and
`RaiseFollow` are the two branches of `computeShortestPath`. It needs `UsedInv`, that the replay knows the
costs that were used, which is where the first vision misleads a run. Theorems: `Invariance`, `TypeCorrect`,
`EstimatesStayCurrent`. That the heuristic ignores portals does no harm here: it only matters for when a computation ends.

The answers and the steps are about what is left when `computeShortestPath` ends early, with cells still queued. `OptimalInv` is inductive beside that
invariant. Its core is `Served`: nothing inconsistent has a key less than the start's. `DoneIsServed` gets it from the
queue when a computation ends, `StepIsServed` carries it over a step, because a step saves at least what the heuristic
changes. Two arguments make of it a distance. No path is shorter (`NoShorterPath`, by induction on its length): walking
back along a path one either knows all of it or meets an inconsistent cell, whose key would have been served. And there is
a path as short (`PathIsThere`): the successor that a look-ahead leads to has a lesser key (`LedIsSettled`), so it is consistent,
too, and nearer, and the number of nearer cells bounds the path. An object on the goal is a case of its own (`GoalInv`): once it is replayed, the goal is lost,
no cell comes nearer any more (`LostStays`, `NothingLeads`), and the run gives up before its next step. Theorems: `Optimality`, `AnswersTrue` and `StepsOptimal`. They assume
of the portals what the code does not check: `PortalsFair`, that none is cheaper than the heuristic thinks (with others a
computation may end too early), and for all but *no path* also `PortalsReturn`, that from a portal's far end no portal leads
on but back. An edge along a portal is there whatever stands on its ends, so that where two portals meet
an agent is led over an object on that cell, which the reference does not count as a path. The portals of
`config/config.yaml` keep both, each between a cell and the one above it, at a cost of 15 and with no cell in common; so do those of the run, which
TLC confirms (`MCPortalsAssumption`).

**PathStreamProofs.** The run has, and has closed, only channels of calls that were installed (`GivenInv`), each once; and while
`publishPath` is sending, nobody replaces the channel it sends to (`PendingInv`), which is what `publishMu` is for.
For what a client is shown, `DeliveryInv` joins `ProtocolInv` (a stream begins with its answer, nothing follows its last
message) with `WholeInv`: the messages in an inbox, read in turn, take the client from what it has shown and begun to
assemble to exactly the snapshots that came through, and what it shows on the way is always the beginning of those
(`Chain`, `Whole`). Nothing less is inductive, because what a message in the inbox will show depends on all that lie
before it, the lost ones included. At the end of the chain the assembler has the chunks of the snapshot under way that were
delivered (`Collects`), or lacks one that was lost and will never be ready (`Misses`). The lemmas `WholeRead`, `WholeAppend`
and those on `Assembling` are about one client's reading, and the steps only have to say what they read or append.
Theorems: `Invariance`, `ChannelsAreSafe`, `Delivery`, `SnapshotsWhole`.

**FlowFieldProofs.** On any map, with any exits and portals: between two rounds every cell has exactly the cost of its cheapest
way out, unless the emergency was misled. `QueueInv` (what is inconsistent is queued), `UsedInv` and `RecordInv` (the replay knows the costs
that were used) and `FollowInv` (every look-ahead is the best of its row, in which, during a replay, some cells still have their old
costs) are inductive as for the agents' planner, with no keys to worry about because the queue runs
empty. An empty queue means that every cell has its own look-ahead (`Consistent`), and what remains is a fact about
graphs, `ConsistentIsDistance`: no path of any length is cheaper than a consistent estimate (`ConsistentIsBelow`, by induction on
its length), and a path of as many steps as there are nearer cells attains it (`ConsistentIsReached`, by induction on that
rank: a step costs at least 1, so the cell that a look-ahead leads to is nearer). The reference `DistanceWithin` is a recursive function, of
which only its unfolding is used (`Unfolds`, `DistanceIs`). `LightsInv` says that each light which has to be looked at is
still in `outdated` until it has been; it needs that `Affected` is computed from the costs that were used. Theorems: `Invariance`,
`TypeCorrect`, `FlowStaysDistance`, `LightsFollow`.

Only model-checked: `PrioQueue` (its loops are recursive operators) and all liveness properties, which TLAPS does not
reach.

## 5. What is not modelled

- The bounded handlers (`concurrent_handler.go`): a semaphore that delays requests; the models let a
  request be handled at any moment, which includes every delay.
- The geotruth pools: round robin over connections, and a close that happens once.
- The rasterizer: floating-point geometry of images, rectangles and lines, pure computation.
- Configuration and the tuning tool: parsing and validation.
- The client packages except `AgentPathSub`: each call marshals a request and maps an error text back.
- Process entry and embedding: wiring and signals.
- The directions and colours that are read off the flow field, and the text renderings of both planners.

Within the modelled parts: error texts, logs, the content of snapshots, the error channel of the communicator,
the geometry of regions and visions, and the constructors that only tests and tools call.

## 6. Plan

Done: `AgentComm`, `Dispatcher`, `Emergency`, `Grid`, `World`, `PrioQueue`, `Planner`, `FlowField` and `PathStream`, with
proofs of all but `PrioQueue`.

Left to prove: the refinement of `QueueContract`, which would need the loops of `PrioQueue` as recursive functions. Left to model: the
directions of `getFlow`.
