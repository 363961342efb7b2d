----------------------------- MODULE AgentComm ------------------------------
(***************************************************************************)
(* One pathfinding run: the goroutine of InternalAgentFindPathContext and  *)
(* the AgentCommunicator through which other goroutines steer it.          *)
(*                                                                         *)
(* The run goroutine is at one control point at a time (run).  Callers are *)
(* the goroutines that execute the public methods of the communicator; a   *)
(* method that can block is a caller waiting at a point of call.  A send   *)
(* on an unbuffered channel is one step of the run goroutine together with *)
(* the caller on the other side.                                           *)
(*                                                                         *)
(* The planner is seen through what it tells the loop: how many cells are  *)
(* left, what the next cell costs, or that there is no path.               *)
(***************************************************************************)
EXTENDS Integers, FiniteSets

CONSTANTS Callers,        \* goroutines that call the communicator
          RouteLen,       \* longest route, in cells
          MaxDetours,     \* bound: how often the world may change the route's length
          MaxCalls,       \* bound: commands other than Terminate that are issued
          ReportEvery,    \* config CellsForRealUpdate
          InitialSteps,   \* moveNSteps of the request
          InitialSpeeds,  \* possible defaultCellsPerSecondMovement
          Speeds,         \* arguments of UpdateMovementSpeed (0 is Stop)
          StepRequests,   \* arguments of MoveNCells
          MeterRequests,  \* arguments of MoveFMeters, in units of distance
          StepCosts,      \* costs of one step, in units of distance
          EmptyCost,      \* EMPTY_SPACE_COST: the cost of a plain cell
          Tolerance       \* a rest of at most this much counts as nothing left

ASSUME AgentAssumption ==
         /\ RouteLen \in Nat /\ MaxDetours \in Nat /\ MaxCalls \in Nat
         /\ ReportEvery \in Nat \ {0}
         /\ InitialSteps \in Nat
         /\ InitialSpeeds \subseteq Nat /\ Speeds \subseteq Nat
         /\ StepRequests \subseteq Nat \ {0}
         /\ MeterRequests \subseteq Int
         /\ StepCosts \subseteq Nat
         /\ EmptyCost \in Nat \ {0}
         /\ Tolerance \in Nat /\ Tolerance < EmptyCost   \* a thousandth of a cell

VARIABLES
  run,         \* control point of the pathfinding goroutine
  left,        \* cells between the agent and its goal
  steps,       \* cells walked
  reported,    \* value of steps when the position was last published
  detours,     \* route changes so far
  speed,       \* moveCellsPerSecond
  stepsLeft,   \* what is left of a MoveNCells command
  metersLeft,  \* what is left of a MoveFMeters command
  movementMu,  \* TRUE while movementMu is locked
  nSteps,      \* content of the buffered nStepsCh (0: empty)
  request,     \* command received and waiting for movementMu
  ctxDone,     \* the communicator's context is cancelled
  ended,       \* endedCh is closed
  respClosed,  \* fMetersRespCh is closed
  exitErr,     \* the exit error
  call,        \* what each caller is doing
  answer,      \* what MoveFMeters last returned to each caller
  calls,       \* commands issued so far
  (* history, read by the properties only *)
  grant,       \* why the last waitUntilStep let the agent step
  owed,        \* cells of moves that are asked for and not walked yet
  metersUsed,  \* meters consumed by the current MoveFMeters
  coast        \* steps walked on the timer since the speed became 0

agent   == <<left, steps, reported, detours>>
move    == <<speed, stepsLeft, metersLeft, movementMu, nSteps, request>>
exit    == <<ctxDone, ended, respClosed, exitErr>>
clients == <<call, answer, calls>>
history == <<grant, owed, metersUsed, coast>>
vars    == <<run, agent, move, exit, clients, history>>

Nil == "nil"
Errors == {"Terminated", "NoPath", "Position"}

Points == {"start", "top", "idle", "tick", "timed", "lockCells", "lockMeters",
           "plan", "reduce", "step", "report", "closing", "cancel", "close", "closeResp",
           "done"}

Idle == [at |-> "idle", arg |-> 0]
NoAnswer == [ok |-> FALSE, rest |-> 0]

(* How far a step of cost k takes the agent: priority paths are clamped. *)
StepMeters(k) == IF k < EmptyCost THEN EmptyCost ELSE k

(* setExitError: the first error wins. *)
WithError(e) == IF exitErr = Nil THEN e ELSE exitErr

-----------------------------------------------------------------------------
(* NewAgentCommunicator: an initial request takes movementMu and is one cell *)
(* short before the goroutine exists: owed is what it leaves to the loop.    *)
Init == /\ run = "start"
        /\ left \in 0..RouteLen
        /\ steps = 0 /\ reported = 0 /\ detours = 0
        /\ speed \in InitialSpeeds
        /\ stepsLeft = IF InitialSteps = 0 THEN 0 ELSE InitialSteps - 1
        /\ metersLeft = 0
        /\ movementMu = (InitialSteps > 1)
        /\ nSteps = 0 /\ request = 0
        /\ ctxDone = FALSE /\ ended = FALSE /\ respClosed = FALSE
        /\ exitErr = Nil
        /\ call = [c \in Callers |-> Idle]
        /\ answer = [c \in Callers |-> NoAnswer]
        /\ calls = 0
        /\ grant = "none" /\ owed = stepsLeft /\ metersUsed = 0 /\ coast = 0

-----------------------------------------------------------------------------
(* The run goroutine.                                                       *)

(* First vision, first route and first snapshot, before the loop. *)
Prepare == /\ run = "start"
           /\ run' = "top"
           /\ UNCHANGED <<agent, move, exit, clients, history>>

(* The loop ends when the agent stands on its goal. *)
LeaveLoop == /\ run = "top" /\ left = 0
             /\ run' = "closing"
             /\ UNCHANGED <<agent, move, exit, clients, history>>

(* waitUntilStep: a command in progress decides at once; the context and    *)
(* the channels are not looked at.                                          *)
ContinueMeters == /\ run = "top" /\ left # 0 /\ metersLeft > 0
                  /\ run' = "plan" /\ grant' = "meters"
                  /\ UNCHANGED <<agent, move, exit, clients, owed, metersUsed, coast>>

(* _reduceStepsMovement unlocks movementMu with the last step. *)
ContinueSteps == /\ run = "top" /\ left # 0 /\ metersLeft <= 0 /\ stepsLeft > 0
                 /\ run' = "plan" /\ grant' = "cells"
                 /\ stepsLeft' = stepsLeft - 1
                 /\ movementMu' = (stepsLeft # 1 /\ movementMu)
                 /\ UNCHANGED <<agent, speed, metersLeft, nSteps, request, exit,
                                clients, owed, metersUsed, coast>>

NoCommand == run = "top" /\ left # 0 /\ metersLeft <= 0 /\ stepsLeft = 0

\* Mutant: an agent at rest does not wait for a command.
WaitForCommandNever == /\ NoCommand
                       /\ run' = "tick"
                       /\ UNCHANGED <<agent, move, exit, clients, history>>

WaitForCommand == /\ NoCommand
                  /\ run' = IF speed = 0 THEN "idle" ELSE "tick"
                  /\ UNCHANGED <<agent, move, exit, clients, history>>

(* The tick is overdue: step without looking at any channel, or wait. *)
CheckTick == /\ run = "tick"
             /\ \/ run' = "plan" /\ grant' = "tick"
                \/ run' = "timed" /\ UNCHANGED grant
             /\ UNCHANGED <<agent, move, exit, clients, owed, metersUsed, coast>>

(* time.After, followed by a non-blocking read of the speed channel. *)
TimerFires ==
  /\ run = "timed"
  /\ run' = "plan" /\ grant' = "tick"
  /\ LET waiting == {c \in Callers : call[c].at = "speed"}
     IN  \/ /\ waiting = {}
            /\ UNCHANGED <<speed, coast, call>>
         \/ \E c \in waiting :
              /\ speed' = call[c].arg
              /\ coast' = IF call[c].arg = 0 THEN coast ELSE 0
              /\ call' = [call EXCEPT ![c] = Idle]
  /\ UNCHANGED <<agent, stepsLeft, metersLeft, movementMu, nSteps, request, exit,
                 answer, calls, owed, metersUsed>>

(* The two selects: at rest (idle) and before a tick (timed). *)
Selecting == run \in {"idle", "timed"}

ReceiveCells == /\ Selecting /\ nSteps # 0
                /\ request' = nSteps /\ nSteps' = 0
                /\ owed' = owed + nSteps
                /\ run' = "lockCells"
                /\ UNCHANGED <<agent, speed, stepsLeft, metersLeft, movementMu, exit,
                               clients, grant, metersUsed, coast>>

ReceiveMeters(c) == /\ Selecting /\ call[c].at = "meters"
                    /\ request' = call[c].arg
                    /\ call' = [call EXCEPT ![c].at = "await"]
                    /\ run' = "lockMeters"
                    /\ UNCHANGED <<agent, speed, stepsLeft, metersLeft, movementMu, nSteps,
                                   exit, answer, calls, history>>

(* At rest a speed of 0 is dropped: the agent stays at rest. *)
ReceiveSpeed(c) == /\ run = "idle" /\ call[c].at = "speed"
                   /\ call' = [call EXCEPT ![c] = Idle]
                   /\ IF call[c].arg = 0
                      THEN UNCHANGED <<run, speed, coast>>
                      ELSE run' = "tick" /\ speed' = call[c].arg /\ coast' = 0
                   /\ UNCHANGED <<agent, stepsLeft, metersLeft, movementMu, nSteps, request,
                                  exit, answer, calls, grant, owed, metersUsed>>

\* Mutant: the select of an agent at rest has no case for the context.
SeeCancelledTimed == /\ run = "timed" /\ ctxDone
                     /\ run' = "closing"
                     /\ UNCHANGED <<agent, move, exit, clients, history>>

SeeCancelled == /\ Selecting /\ ctxDone
                /\ run' = "closing"
                /\ UNCHANGED <<agent, move, exit, clients, history>>

\* Mutant: the first cell of a command is not counted.
LockCellsUncounted == /\ run = "lockCells" /\ ~movementMu
                      /\ stepsLeft' = request
                      /\ movementMu' = TRUE
                      /\ request' = 0
                      /\ run' = "plan" /\ grant' = "cells"
                      /\ UNCHANGED <<agent, speed, metersLeft, nSteps, exit, clients, owed, metersUsed, coast>>

(* _startStepsMovement *)
LockCells == /\ run = "lockCells" /\ ~movementMu
             /\ stepsLeft' = request - 1
             /\ movementMu' = (request # 1)
             /\ request' = 0
             /\ run' = "plan" /\ grant' = "cells"
             /\ UNCHANGED <<agent, speed, metersLeft, nSteps, exit, clients,
                            owed, metersUsed, coast>>

(* _startMetersMovement *)
LockMeters == /\ run = "lockMeters" /\ ~movementMu
              /\ metersLeft' = request
              /\ movementMu' = TRUE
              /\ request' = 0 /\ metersUsed' = 0
              /\ run' = "plan" /\ grant' = "meters"
              /\ UNCHANGED <<agent, speed, stepsLeft, nSteps, exit, clients, owed, coast>>

(* Vision, replanning, and the choice of the next cell.  A change of the   *)
(* world may lengthen or shorten the route, or leave no path at all.       *)
Plan == /\ run = "plan"
        /\ run' = "reduce"
        /\ \/ UNCHANGED <<left, detours>>
           \/ /\ detours < MaxDetours
              /\ detours' = detours + 1
              /\ left' \in 1..RouteLen
        /\ UNCHANGED <<steps, reported, move, exit, clients, history>>

NoPath == /\ run = "plan"
          /\ exitErr' = WithError("NoPath")
          /\ run' = "closing"
          /\ UNCHANGED <<agent, move, ctxDone, ended, respClosed, clients, history>>

(* tryReduceMetersMovement: no MoveFMeters in progress. *)
PassStep == /\ run = "reduce" /\ metersLeft = 0
            /\ run' = "step"
            /\ UNCHANGED <<agent, move, exit, clients, history>>

(* ... the step fits, and more than the tolerance remains. *)
UseMeters == /\ run = "reduce" /\ metersLeft # 0
             /\ \E k \in StepCosts :
                  /\ metersLeft - StepMeters(k) > Tolerance
                  /\ metersLeft' = metersLeft - StepMeters(k)
                  /\ metersUsed' = metersUsed + StepMeters(k)
             /\ run' = "step"
             /\ UNCHANGED <<agent, speed, stepsLeft, movementMu, nSteps, request, exit,
                            clients, grant, owed, coast>>

\* Mutant: what is left is not reset when the caller is answered.
RespondKeeping(c, rest) == /\ call[c].at = "await"
                           /\ call' = [call EXCEPT ![c] = Idle]
                           /\ answer' = [answer EXCEPT ![c] = [ok |-> TRUE, rest |-> rest]]
                           /\ UNCHANGED metersLeft
                           /\ movementMu' = FALSE

(* The send on fMetersRespCh: it meets a caller that waits for it. *)
Respond(c, rest) == /\ call[c].at = "await"
                    /\ call' = [call EXCEPT ![c] = Idle]
                    /\ answer' = [answer EXCEPT ![c] = [ok |-> TRUE, rest |-> rest]]
                    /\ metersLeft' = 0
                    /\ movementMu' = FALSE

\* Mutant: what is left counts as nothing until it reaches a whole cell.
FinishMetersCoarse == /\ run = "reduce" /\ metersLeft # 0
                      /\ \E k \in StepCosts, c \in Callers :
                           /\ metersLeft - StepMeters(k) \in 0..EmptyCost
                           /\ metersUsed' = metersUsed + StepMeters(k)
                           /\ Respond(c, 0)
                      /\ run' = "step"
                      /\ UNCHANGED <<agent, speed, stepsLeft, nSteps, request, exit, calls,
                                     grant, owed, coast>>

(* ... the step leaves nothing, or a rest within the tolerance, which is   *)
(* dropped: the command is complete.                                       *)
FinishMeters == /\ run = "reduce" /\ metersLeft # 0
                /\ \E k \in StepCosts, c \in Callers :
                     /\ metersLeft - StepMeters(k) \in 0..Tolerance
                     /\ metersUsed' = metersUsed + StepMeters(k)
                     /\ Respond(c, 0)
                /\ run' = "step"
                /\ UNCHANGED <<agent, speed, stepsLeft, nSteps, request, exit, calls,
                               grant, owed, coast>>

(* ... the step is too long: the rest is returned and no step is made. *)
ReturnMeters == /\ run = "reduce" /\ metersLeft # 0
                /\ \E k \in StepCosts, c \in Callers :
                     /\ StepMeters(k) > metersLeft
                     /\ Respond(c, metersLeft)
                /\ run' = "top"
                /\ UNCHANGED <<agent, speed, stepsLeft, nSteps, request, exit, calls, history>>

(* updateRealPosition publishes the current cell, or records why it failed. *)
PublishPosition(at) == \/ reported' = at /\ UNCHANGED exitErr
                       \/ UNCHANGED reported /\ exitErr' = WithError("Position")

(* The step itself; every ReportEvery steps the position is published. *)
TakeStep == /\ run = "step"
            /\ steps' = steps + 1 /\ left' = left - 1
            /\ run' = IF steps' % ReportEvery = 0 THEN "report" ELSE "top"
            /\ owed' = IF grant = "cells" THEN owed - 1 ELSE owed
            /\ coast' = IF grant = "tick" /\ speed = 0 THEN coast + 1 ELSE coast
            /\ UNCHANGED <<reported, detours, move, exit, clients, grant, metersUsed>>

(* A failed publication does not end the run. *)
Report == /\ run = "report"
          /\ PublishPosition(steps)
          /\ run' = "top"
          /\ UNCHANGED <<left, steps, detours, move, ctxDone, ended, respClosed, clients,
                         history>>

\* Mutant: the last cells are not published.
CloseUnreported == /\ run = "closing"
                   /\ run' = "cancel"
                   /\ UNCHANGED <<agent, move, exit, clients, history>>

(* The deferred function: a last publication, then destroy. *)
Close == /\ run = "closing"
         /\ IF steps % ReportEvery # 0
            THEN PublishPosition(steps)
            ELSE UNCHANGED <<reported, exitErr>>
         /\ run' = "cancel"
         /\ UNCHANGED <<left, steps, detours, move, ctxDone, ended, respClosed, clients,
                        history>>

DestroyCancel == /\ run = "cancel"
                 /\ ctxDone' = TRUE
                 /\ run' = "close"
                 /\ UNCHANGED <<agent, move, ended, respClosed, exitErr, clients, history>>

DestroyEnd == /\ run = "close"
              /\ ended' = TRUE
              /\ run' = "closeResp"
              /\ UNCHANGED <<agent, move, ctxDone, respClosed, exitErr, clients, history>>

\* Mutant: the response channel stays open.
DestroyResponsesNot == /\ run = "closeResp"
                       /\ run' = "done"
                       /\ UNCHANGED <<agent, move, exit, clients, history>>

DestroyResponses == /\ run = "closeResp"
                    /\ respClosed' = TRUE
                    /\ run' = "done"
                    /\ UNCHANGED <<agent, move, ctxDone, ended, exitErr, clients, history>>

-----------------------------------------------------------------------------
(* The public methods.                                                      *)

Begin(c, at, arg) == /\ call[c] = Idle /\ calls < MaxCalls
                     /\ calls' = calls + 1
                     /\ call' = [call EXCEPT ![c] = [at |-> at, arg |-> arg]]
                     /\ UNCHANGED <<run, agent, move, exit, answer, history>>

Return(c) == call' = [call EXCEPT ![c] = Idle]

UpdateMovementSpeed(c) == \E v \in Speeds : Begin(c, "speed", v)

(* MoveNCells looks at the context once before it offers the command. *)
MoveNCells(c) == ~ctxDone /\ \E n \in StepRequests : Begin(c, "cells", n)

(* The buffered send succeeds when the buffer is free, even after the run's *)
(* context is done.                                                         *)
SendCells(c) == /\ call[c].at = "cells" /\ nSteps = 0
                /\ nSteps' = call[c].arg
                /\ Return(c)
                /\ UNCHANGED <<run, agent, speed, stepsLeft, metersLeft, movementMu,
                               request, exit, answer, calls, history>>

MoveFMeters(c) == \E f \in MeterRequests : Begin(c, "meters", f)

(* A blocked sender gives up when the context is done. *)
GiveUp(c) == /\ call[c].at \in {"speed", "cells", "meters"} /\ ctxDone
             /\ Return(c)
             /\ answer' = IF call[c].at = "meters"
                          THEN [answer EXCEPT ![c] = [ok |-> FALSE, rest |-> call[c].arg]]
                          ELSE answer
             /\ UNCHANGED <<run, agent, move, exit, calls, history>>

(* A closed response channel: the run ended with distance left. *)
MetersUnfinished(c) == /\ call[c].at = "await" /\ respClosed
                       /\ Return(c)
                       /\ answer' = [answer EXCEPT ![c] = NoAnswer]
                       /\ UNCHANGED <<run, agent, move, exit, calls, history>>

\* Mutant: the context is cancelled without a recorded error.
TerminateSilently(c) == /\ call[c] = Idle
                        /\ call' = [call EXCEPT ![c].at = "cancel"]
                        /\ UNCHANGED <<run, agent, move, exit, answer, calls, history>>

(* Terminate: IsMoving, then setExitError, then cancel. *)
Terminate(c) == /\ call[c] = Idle
                /\ call' = [call EXCEPT ![c].at = IF ended THEN "cancel" ELSE "record"]
                /\ UNCHANGED <<run, agent, move, exit, answer, calls, history>>

RecordTerminated(c) == /\ call[c].at = "record"
                       /\ exitErr' = WithError("Terminated")
                       /\ call' = [call EXCEPT ![c].at = "cancel"]
                       /\ UNCHANGED <<run, agent, move, ctxDone, ended, respClosed,
                                      answer, calls, history>>

CancelRun(c) == /\ call[c].at = "cancel"
                /\ ctxDone' = TRUE
                /\ Return(c)
                /\ UNCHANGED <<run, agent, move, ended, respClosed, exitErr,
                               answer, calls, history>>

-----------------------------------------------------------------------------
RunStep == \/ Prepare \/ LeaveLoop
           \/ ContinueMeters \/ ContinueSteps \/ WaitForCommand
           \/ CheckTick \/ TimerFires
           \/ ReceiveCells \/ SeeCancelled
           \/ \E c \in Callers : ReceiveMeters(c)
           \/ \E c \in Callers : ReceiveSpeed(c)
           \/ LockCells \/ LockMeters
           \/ Plan \/ NoPath
           \/ PassStep \/ UseMeters \/ FinishMeters \/ ReturnMeters
           \/ TakeStep \/ Report
           \/ Close \/ DestroyCancel \/ DestroyEnd \/ DestroyResponses

(* What a caller does once it is inside a method. *)
Proceed(c) == SendCells(c) \/ GiveUp(c) \/ MetersUnfinished(c)
              \/ RecordTerminated(c) \/ CancelRun(c)

Issue(c) == UpdateMovementSpeed(c) \/ MoveNCells(c) \/ MoveFMeters(c) \/ Terminate(c)

Next == RunStep \/ \E c \in Callers : Proceed(c) \/ Issue(c)

Spec == Init /\ [][Next]_vars

(* The Go scheduler runs every goroutine that can run, and timers fire;    *)
(* nothing obliges a client to call.                                       *)
FairSpec == Spec /\ WF_vars(RunStep) /\ \A c \in Callers : WF_vars(Proceed(c))

-----------------------------------------------------------------------------
Awaiting == {c \in Callers : call[c].at = "await"}

(* When the run goroutine is ready for a command, every earlier command is *)
(* served: the cells of every MoveNCells, and those that the constructor   *)
(* left of the initial request, are walked, the caller of MoveFMeters is   *)
(* answered, and movementMu is free (agent_comm.go waitUntilStep and       *)
(* _start*Movement).  Of the initial request the constructor leaves one    *)
(* cell less than was asked for: InitialCellsAreWalked.                    *)
ReadyMeansServed == Selecting => /\ owed = 0
                                 /\ metersLeft = 0
                                 /\ Awaiting = {}
                                 /\ ~movementMu

(* The initial request, as the manual states it: "moveNSteps requests an   *)
(* initial number of cells to move" (user_manual.tex:441).  The agent does *)
(* not wait for a command before it has walked them.                       *)
InitialCellsAreWalked == Selecting => steps >= InitialSteps

(* A response finds the caller that asked: while the run lives at most one *)
(* MoveFMeters waits for an answer, what is left and what was used add up  *)
(* to its request, and a run about to answer has someone to answer.        *)
MetersRendezvous ==
  /\ metersLeft # 0 /\ ~respClosed => Awaiting # {}
  /\ \A c, d \in Awaiting : c = d
  /\ \A c \in Awaiting : \/ run = "lockMeters" /\ request = call[c].arg
                         \/ metersLeft + metersUsed = call[c].arg

(* What MoveFMeters answers is the distance asked for less the distance    *)
(* used, to the last unit; only a rest within the tolerance is reported as *)
(* nothing (agent_comm.go tryReduceMetersMovement).                        *)
AnswersRight(c) ==
  LET missing == call[c].arg - metersUsed'
  IN  answer'[c].rest = missing \/ (answer'[c].rest = 0 /\ missing \in 1..Tolerance)

AnswerIsAccurate ==
  [][\A c \in Callers :
       call[c].at = "await" /\ call'[c] = Idle /\ answer'[c].ok => AnswersRight(c)]_vars

(* A nil exit error of an ended run means that the agent stands on its     *)
(* goal and that its last published position is the goal (user_manual:     *)
(* "the session ended without a domain error").                            *)
NilMeansArrived == ended /\ exitErr = Nil => left = 0 /\ reported = steps

(* Stop is not immediate, but after the speed became 0 the timer moves the *)
(* agent by at most the one step that was already due.                     *)
StopCoastsOneStep == coast <= 1

(* The contract of AgentRun. *)
Run == INSTANCE AgentRun WITH Reasons <- Errors, NoReason <- Nil,
         arrived <- left = 0, cancelled <- ctxDone, reason <- exitErr

ImplementsRun == Run!Spec

(* A cancelled run ends, whatever command was being served. *)
CancelledRunEnds == ctxDone ~> run = "done"

(* Every call on the communicator returns. *)
CallsReturn == \A c \in Callers : call[c] # Idle ~> call[c] = Idle
-----------------------------------------------------------------------------
(* What the proofs of AgentCommProofs rest on.                              *)

TypeOK ==
  /\ run \in Points
  /\ left \in Nat /\ steps \in Nat /\ reported \in Nat /\ detours \in Nat
  /\ speed \in Nat /\ stepsLeft \in Nat /\ metersLeft \in Int /\ movementMu \in BOOLEAN
  /\ nSteps \in Nat /\ request \in Int
  /\ ctxDone \in BOOLEAN /\ ended \in BOOLEAN /\ respClosed \in BOOLEAN
  /\ exitErr \in Errors \cup {Nil}
  /\ call \in [Callers -> [at : {"idle", "speed", "cells", "meters", "await", "record", "cancel"},
                           arg : Int]]
  /\ answer \in [Callers -> [ok : BOOLEAN, rest : Int]]
  /\ calls \in Nat
  /\ grant \in {"none", "meters", "cells", "tick"}
  /\ owed \in Int /\ metersUsed \in Int /\ coast \in Nat

Waiting == {"idle", "tick", "timed", "lockCells", "lockMeters"}  \* no command is being served
Granted == {"plan", "reduce", "step"}
Ending == {"closing", "cancel", "close", "closeResp", "done"}

(* Whoever ends the run, or cancels it, has something to tell, and the     *)
(* channels are closed in their order.                                     *)
EndInv ==
  /\ run \in Waiting \cup Granted => left # 0
  /\ run \in Ending /\ exitErr = Nil => left = 0
  /\ run \in Ending \ {"closing"} /\ exitErr = Nil => reported = steps
  /\ steps % ReportEvery = 0 /\ run # "report" /\ exitErr = Nil => reported = steps
  /\ ended <=> run \in {"closeResp", "done"}
  /\ respClosed <=> run = "done"
  /\ ctxDone /\ exitErr = Nil => run \in {"close", "closeResp", "done"}
  /\ run \in {"close", "closeResp", "done"} => ctxDone
  /\ \A c \in Callers : call[c].at = "cancel" /\ exitErr = Nil => ended

(* At rest the timer is not running; the step that coasts is the first.    *)
CoastInv ==
  /\ coast <= 1
  /\ run \in {"tick", "timed"} => speed # 0
  /\ speed # 0 => coast = 0
  /\ run \in Granted /\ grant = "tick" => coast = 0

(* movementMu is locked exactly while a command is being served, and one   *)
(* command is served at a time.                                            *)
LockInv ==
  /\ movementMu <=> (stepsLeft > 0 \/ metersLeft # 0)
  /\ stepsLeft > 0 => metersLeft = 0
  /\ run \in Waiting => stepsLeft = 0 /\ metersLeft = 0
  /\ run \in {"start", "top", "step", "report"} => metersLeft >= 0
  /\ run \in Granted /\ grant = "cells" => metersLeft = 0
  /\ run = "lockMeters" => request # 0

(* The cells that are asked for are on their way to be walked.             *)
OwedInv ==
  run \notin Ending =>
    owed = stepsLeft + CASE run = "lockCells" -> request
                         [] run \in Granted /\ grant = "cells" -> 1
                         [] OTHER -> 0

CallInv == /\ \A c \in Callers : /\ call[c].at = "cells" => call[c].arg > 0
                                 /\ call[c].at = "speed" => call[c].arg >= 0
           /\ run = "lockCells" => request > 0

AskedInv == \A c \in Callers : call[c].at \in {"meters", "await"} => call[c].arg # 0

AwaitInv ==
  /\ run = "lockMeters" \/ metersLeft # 0 => respClosed \/ Awaiting # {}
  /\ \A c, d \in Awaiting : c = d
  /\ \A c \in Awaiting : IF run = "lockMeters" THEN request = call[c].arg
                         ELSE metersLeft # 0 /\ metersLeft + metersUsed = call[c].arg
=============================================================================
