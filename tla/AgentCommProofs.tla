-------------------------- MODULE AgentCommProofs --------------------------
(***************************************************************************)
(* Proofs about AgentComm, for every number of callers and commands, every *)
(* route and every cost of its cells. The end of a run and its timer need  *)
(* no assumption beyond AgentAssumption; serving a command to the end needs *)
(* that no caller asks for zero meters.                                    *)
(***************************************************************************)
EXTENDS AgentComm, TLAPS

-----------------------------------------------------------------------------
(* Types.                                                                   *)

LEMMA InitType == ASSUME Init PROVE TypeOK
<1> USE AgentAssumption DEF Init
<1>1. /\ run \in Points /\ exitErr \in Errors \cup {Nil} /\ grant \in {"none", "meters", "cells", "tick"}
      /\ ctxDone \in BOOLEAN /\ ended \in BOOLEAN /\ respClosed \in BOOLEAN
  BY DEF Points
<1>2. movementMu \in BOOLEAN
  OBVIOUS
<1>3. /\ left \in Nat /\ steps \in Nat /\ reported \in Nat /\ detours \in Nat
      /\ speed \in Nat /\ stepsLeft \in Nat /\ metersLeft \in Int /\ nSteps \in Nat /\ request \in Int
      /\ calls \in Nat /\ owed \in Int /\ metersUsed \in Int /\ coast \in Nat
  OBVIOUS
<1>4. call \in [Callers -> [at : {"idle", "speed", "cells", "meters", "await", "record", "cancel"},
                           arg : Int]]
  BY DEF Idle
<1>5. answer \in [Callers -> [ok : BOOLEAN, rest : Int]]
  BY DEF NoAnswer
<1> QED BY <1>1, <1>2, <1>3, <1>4, <1>5 DEF TypeOK

(* What concerns the callers, and the rest of TypeOK.                       *)
Calls == [Callers -> [at : {"idle", "speed", "cells", "meters", "await", "record", "cancel"},
                      arg : Int]]
Answers == [Callers -> [ok : BOOLEAN, rest : Int]]

RunOK ==
  /\ run \in Points
  /\ left \in Nat /\ steps \in Nat /\ reported \in Nat /\ detours \in Nat
  /\ speed \in Nat /\ stepsLeft \in Nat /\ metersLeft \in Int /\ movementMu \in BOOLEAN
  /\ nSteps \in Nat /\ request \in Int
  /\ ctxDone \in BOOLEAN /\ ended \in BOOLEAN /\ respClosed \in BOOLEAN
  /\ exitErr \in Errors \cup {Nil}
  /\ calls \in Nat
  /\ grant \in {"none", "meters", "cells", "tick"}
  /\ owed \in Int /\ metersUsed \in Int /\ coast \in Nat

LEMMA TypeParts == ASSUME TypeOK PROVE RunOK /\ call \in Calls /\ answer \in Answers
BY DEF TypeOK, RunOK, Calls, Answers

LEMMA TypePartsNext == ASSUME RunOK', call' \in Calls, answer' \in Answers PROVE TypeOK'
BY DEF TypeOK, RunOK, Calls, Answers

(* Any answer has its type.                                                 *)
LEMMA AnswerType ==
  ASSUME answer \in Answers, NEW c \in Callers, NEW ok \in BOOLEAN, NEW rest \in Int
  PROVE  [answer EXCEPT ![c] = [ok |-> ok, rest |-> rest]] \in Answers
<1> DEFINE a == [ok |-> ok, rest |-> rest]
           A == [ok : BOOLEAN, rest : Int]
<1>1. a \in A
  OBVIOUS
<1>2. answer \in [Callers -> A]
  BY DEF Answers
<1> HIDE DEF a, A
<1>3. [answer EXCEPT ![c] = a] \in [Callers -> A]
  BY <1>1, <1>2
<1> QED BY <1>3 DEF a, A, Answers

(* A caller is answered.                                                    *)
LEMMA RespondType ==
  ASSUME call \in Calls, answer \in Answers, NEW c \in Callers, NEW rest \in Int, Respond(c, rest)
  PROVE  /\ call' \in Calls /\ answer' \in Answers
         /\ metersLeft' \in Int /\ movementMu' \in BOOLEAN
<1>1. call' \in Calls
  BY DEF Respond, Calls, Idle
<1>2. answer' = [answer EXCEPT ![c] = [ok |-> TRUE, rest |-> rest]]
  BY DEF Respond
<1>3. answer' \in Answers
  BY <1>2, AnswerType
<1>4. metersLeft' \in Int
  BY DEF Respond
<1>5. movementMu' \in BOOLEAN
  BY DEF Respond
<1> QED BY <1>1, <1>3, <1>4, <1>5

(* The steps of the run goroutine that do not meet a caller.                *)
LEMMA RunType ==
  ASSUME TypeOK,
         CallInv,
         \/ Prepare \/ LeaveLoop \/ ContinueMeters \/ ContinueSteps \/ WaitForCommand \/ CheckTick
         \/ ReceiveCells \/ SeeCancelled \/ LockCells \/ LockMeters \/ Plan \/ NoPath
         \/ PassStep \/ UseMeters \/ Report \/ Close
         \/ DestroyCancel \/ DestroyEnd \/ DestroyResponses
  PROVE  TypeOK'
<1> USE AgentAssumption DEF TypeOK, Points, agent, move, exit, clients, history
<1>1. CASE Prepare \/ LeaveLoop \/ ContinueMeters \/ WaitForCommand \/ CheckTick \/ SeeCancelled
  BY <1>1 DEF Prepare, LeaveLoop, ContinueMeters, NoCommand, WaitForCommand, CheckTick, SeeCancelled
<1>2. CASE ContinueSteps
  BY <1>2 DEF ContinueSteps
<1>3. CASE ReceiveCells
  BY <1>3 DEF ReceiveCells
<1>4. CASE LockCells
  BY <1>4 DEF LockCells, CallInv
<1>5. CASE LockMeters
  BY <1>5 DEF LockMeters
<1>6. CASE Plan
  BY <1>6 DEF Plan
<1>7. CASE NoPath \/ Report \/ Close
  BY <1>7 DEF NoPath, Report, Close, PublishPosition, WithError, Errors
<1>8. CASE PassStep \/ UseMeters
  BY <1>8 DEF PassStep, UseMeters, StepMeters
<1>9. CASE DestroyCancel \/ DestroyEnd \/ DestroyResponses
  BY <1>9 DEF DestroyCancel, DestroyEnd, DestroyResponses
<1> QED BY <1>1, <1>2, <1>3, <1>4, <1>5, <1>6, <1>7, <1>8, <1>9

(* The step itself: an agent that may step is not at its goal.              *)
LEMMA StepType == ASSUME TypeOK, EndInv, TakeStep PROVE TypeOK'
BY AgentAssumption DEF TypeOK, EndInv, Granted, TakeStep, Points, agent, move, exit, clients, history

(* A MoveFMeters is answered, or its caller is left without an answer.      *)
LEMMA AnsweredType == ASSUME TypeOK, FinishMeters \/ ReturnMeters PROVE TypeOK'
<1>0. RunOK /\ call \in Calls /\ answer \in Answers
  BY TypeParts
<1>1. PICK c \in Callers, rest \in Int : Respond(c, rest)
  BY <1>0 DEF FinishMeters, ReturnMeters, RunOK
<1>2. /\ call' \in Calls /\ answer' \in Answers
      /\ metersLeft' \in Int /\ movementMu' \in BOOLEAN
  BY <1>0, <1>1, RespondType
<1>3. run' \in Points
  BY DEF FinishMeters, ReturnMeters, Points
<1>4. metersUsed' \in Int
  <2>1. CASE FinishMeters
    <3>1. PICK k \in StepCosts : metersUsed' = metersUsed + StepMeters(k)
      BY <2>1 DEF FinishMeters
    <3> QED BY <1>0, <3>1, AgentAssumption DEF RunOK, StepMeters
  <2>2. CASE ReturnMeters
    BY <1>0, <2>2 DEF ReturnMeters, RunOK, history
  <2> QED BY <2>1, <2>2
<1>5. UNCHANGED <<left, steps, reported, detours, speed, stepsLeft, nSteps, request,
                  ctxDone, ended, respClosed, exitErr, calls, grant, owed, coast>>
  BY DEF FinishMeters, ReturnMeters, agent, exit, history
<1>6. RunOK'
  BY <1>0, <1>2, <1>3, <1>4, <1>5 DEF RunOK
<1> QED BY <1>2, <1>6, TypePartsNext

LEMMA UnansweredType ==
  ASSUME TypeOK, NEW c \in Callers, GiveUp(c) \/ MetersUnfinished(c) PROVE TypeOK'
<1>0. RunOK /\ call \in Calls /\ answer \in Answers
  BY TypeParts
<1>1. call' \in Calls
  BY <1>0 DEF GiveUp, MetersUnfinished, Return, Calls, Idle
<1>2. call[c].arg \in Int
  BY <1>0 DEF Calls
<1>3. answer' \in Answers
  <2>1. CASE GiveUp(c) /\ call[c].at # "meters"
    BY <1>0, <2>1 DEF GiveUp
  <2>2. CASE GiveUp(c) /\ call[c].at = "meters"
    <3>1. answer' = [answer EXCEPT ![c] = [ok |-> FALSE, rest |-> call[c].arg]]
      BY <2>2 DEF GiveUp
    <3> QED BY <1>0, <1>2, <3>1, AnswerType
  <2>3. CASE MetersUnfinished(c)
    <3>1. NoAnswer \in [ok : BOOLEAN, rest : Int]
      BY DEF NoAnswer
    <3> QED BY <1>0, <2>3, <3>1 DEF MetersUnfinished, Answers
  <2> QED BY <2>1, <2>2, <2>3
<1>4. RunOK'
  <2>1. UNCHANGED <<run, agent, move, exit, calls, history>>
    BY DEF GiveUp, MetersUnfinished
  <2> QED BY <1>0, <2>1 DEF RunOK, agent, move, exit, history
<1> QED BY <1>1, <1>3, <1>4, TypePartsNext

(* The timer, which may find a caller with a new speed.                     *)
LEMMA TimerType == ASSUME TypeOK, CallInv, TimerFires PROVE TypeOK'
<1>0. RunOK /\ call \in Calls /\ answer \in Answers
  BY TypeParts
<1>1. /\ run' = "plan" /\ grant' = "tick"
      /\ UNCHANGED <<left, steps, reported, detours, stepsLeft, metersLeft, movementMu, nSteps,
                     request, ctxDone, ended, respClosed, exitErr, answer, calls, owed, metersUsed>>
  BY DEF TimerFires, agent, exit
<1>2. speed' \in Nat /\ coast' \in Nat /\ call' \in Calls
  <2>1. CASE UNCHANGED <<speed, coast, call>>
    BY <1>0, <2>1 DEF RunOK
  <2>2. ASSUME NEW c \in Callers, call[c].at = "speed", speed' = call[c].arg,
               coast' = IF call[c].arg = 0 THEN coast ELSE 0,
               call' = [call EXCEPT ![c] = Idle]
        PROVE  speed' \in Nat /\ coast' \in Nat /\ call' \in Calls
    <3>1. call[c].arg \in Int /\ call[c].arg >= 0
      BY <1>0, <2>2 DEF CallInv, Calls
    <3>2. speed' \in Nat /\ coast' \in Nat
      BY <1>0, <2>2, <3>1 DEF RunOK
    <3>3. Idle \in [at : {"idle", "speed", "cells", "meters", "await", "record", "cancel"}, arg : Int]
      BY DEF Idle
    <3>4. call' \in Calls
      BY <1>0, <2>2, <3>3 DEF Calls
    <3> QED BY <3>2, <3>4
  <2> QED BY <2>1, <2>2 DEF TimerFires
<1>3. RunOK'
  BY <1>0, <1>1, <1>2 DEF RunOK, Points
<1> QED BY <1>0, <1>1, <1>2, <1>3, TypePartsNext

(* The steps that meet a caller.                                            *)
LEMMA MeetType ==
  ASSUME TypeOK,
         \/ TimerFires \/ FinishMeters \/ ReturnMeters
         \/ \E c \in Callers : ReceiveMeters(c) \/ ReceiveSpeed(c),
         CallInv
  PROVE  TypeOK'
<1> USE AgentAssumption DEF CallInv, Points, Idle, agent, move, exit, clients, history
<1>1. CASE TimerFires
  BY <1>1, TimerType
<1>2. CASE FinishMeters \/ ReturnMeters
  BY <1>2, AnsweredType
<1>3. ASSUME NEW c \in Callers, ReceiveMeters(c) PROVE TypeOK'
  BY <1>3 DEF TypeOK, ReceiveMeters
<1>4. ASSUME NEW c \in Callers, ReceiveSpeed(c) PROVE TypeOK'
  BY <1>4 DEF TypeOK, ReceiveSpeed
<1> QED BY <1>1, <1>2, <1>3, <1>4

(* What callers do alone.                                                   *)
LEMMA CallerType ==
  ASSUME TypeOK, CallInv, NEW c \in Callers, Proceed(c) \/ Issue(c) PROVE TypeOK'
<1> USE AgentAssumption DEF CallInv, Idle, agent, move, exit, clients, history
<1>1. CASE SendCells(c)
  BY <1>1 DEF TypeOK, SendCells, Return
<1>2. CASE GiveUp(c) \/ MetersUnfinished(c)
  BY <1>2, UnansweredType
<1>3. CASE RecordTerminated(c)
  BY <1>3 DEF TypeOK, RecordTerminated, WithError, Errors
<1>4. CASE CancelRun(c)
  BY <1>4 DEF TypeOK, CancelRun, Return
<1>5. CASE UpdateMovementSpeed(c)
  BY <1>5 DEF TypeOK, UpdateMovementSpeed, Begin
<1>6. CASE MoveNCells(c)
  BY <1>6 DEF TypeOK, MoveNCells, Begin
<1>7. CASE MoveFMeters(c)
  BY <1>7 DEF TypeOK, MoveFMeters, Begin
<1>8. CASE Terminate(c)
  BY <1>8 DEF TypeOK, Terminate
<1> QED BY <1>1, <1>2, <1>3, <1>4, <1>5, <1>6, <1>7, <1>8 DEF Proceed, Issue

-----------------------------------------------------------------------------
(* The end of a run.                                                        *)

(* The loop of the run.                                                     *)
LEMMA LoopEnd ==
  ASSUME TypeOK, EndInv,
         \/ Prepare \/ LeaveLoop \/ ContinueMeters \/ ContinueSteps \/ WaitForCommand \/ CheckTick
         \/ TimerFires \/ ReceiveCells \/ SeeCancelled \/ LockCells \/ LockMeters
         \/ \E c \in Callers : ReceiveMeters(c) \/ ReceiveSpeed(c)
  PROVE  EndInv'
<1> USE DEF EndInv, Waiting, Granted, Ending, agent, move, exit, clients, history
<1>1. CASE Prepare \/ LeaveLoop \/ ContinueMeters \/ WaitForCommand \/ CheckTick
  BY <1>1 DEF Prepare, LeaveLoop, ContinueMeters, NoCommand, WaitForCommand, CheckTick
<1>2. CASE ContinueSteps \/ ReceiveCells \/ LockCells \/ LockMeters
  BY <1>2 DEF ContinueSteps, ReceiveCells, LockCells, LockMeters, Selecting
<1>3. CASE SeeCancelled
  BY <1>3 DEF SeeCancelled, Selecting
<1>4. CASE TimerFires
  <2>1. /\ run = "timed" /\ run' = "plan" /\ UNCHANGED <<agent, exit>>
        /\ \A c \in Callers : call'[c].at = "cancel" => call[c].at = "cancel"
    BY <1>4 DEF TimerFires, Idle, TypeOK
  <2> QED BY <2>1
<1>5. ASSUME NEW c \in Callers, ReceiveMeters(c) \/ ReceiveSpeed(c) PROVE EndInv'
  <2>1. /\ run \in Waiting /\ run' \in Waiting /\ UNCHANGED <<agent, exit>>
        /\ \A d \in Callers : call'[d].at = "cancel" => call[d].at = "cancel"
    BY <1>5 DEF ReceiveMeters, ReceiveSpeed, Selecting, Idle, TypeOK
  <2> QED BY <2>1
<1> QED BY <1>1, <1>2, <1>3, <1>4, <1>5

(* A step, its publication, and the deferred function.                      *)
LEMMA StepEnd ==
  ASSUME TypeOK, EndInv,
         \/ Plan \/ NoPath \/ PassStep \/ UseMeters \/ FinishMeters \/ ReturnMeters
         \/ TakeStep \/ Report \/ Close \/ DestroyCancel \/ DestroyEnd \/ DestroyResponses
  PROVE  EndInv'
<1> USE DEF EndInv, Waiting, Granted, Ending, agent, move, exit, clients, history
<1>1. CASE Plan
  BY <1>1 DEF Plan
<1>2. CASE NoPath
  BY <1>2 DEF NoPath, WithError, Nil
<1>3. CASE PassStep \/ UseMeters
  BY <1>3 DEF PassStep, UseMeters
<1>4. CASE FinishMeters \/ ReturnMeters
  <2>1. /\ run = "reduce" /\ run' \in {"step", "top"} /\ UNCHANGED <<agent, exit>>
        /\ \A c \in Callers : call'[c].at = "cancel" => call[c].at = "cancel"
    BY <1>4 DEF FinishMeters, ReturnMeters, Respond, Idle, TypeOK
  <2> QED BY <2>1
<1>5. CASE TakeStep
  BY <1>5 DEF TakeStep, TypeOK
<1>6. CASE Report
  BY <1>6 DEF Report, PublishPosition, WithError, Nil
<1>7. CASE Close
  BY <1>7 DEF Close, PublishPosition, WithError, Nil
<1>8. CASE DestroyCancel
  BY <1>8 DEF DestroyCancel
<1>9. CASE DestroyEnd \/ DestroyResponses
  BY <1>9 DEF DestroyEnd, DestroyResponses
<1> QED BY <1>1, <1>2, <1>3, <1>4, <1>5, <1>6, <1>7, <1>8, <1>9

(* The methods: Terminate records its error before it cancels.              *)
LEMMA CallerEnd ==
  ASSUME TypeOK, EndInv, NEW c \in Callers, Proceed(c) \/ Issue(c) PROVE EndInv'
<1> USE DEF EndInv, agent, move, exit, clients, history
<1>1. CASE SendCells(c) \/ GiveUp(c) \/ MetersUnfinished(c) \/ UpdateMovementSpeed(c)
           \/ MoveNCells(c) \/ MoveFMeters(c)
  <2>1. /\ UNCHANGED <<run, agent, exit>>
        /\ \A d \in Callers : call'[d].at = "cancel" => call[d].at = "cancel"
    BY <1>1 DEF SendCells, GiveUp, MetersUnfinished, UpdateMovementSpeed, MoveNCells, MoveFMeters,
                Begin, Return, Idle, TypeOK
  <2> QED BY <2>1
<1>2. CASE Terminate(c)
  BY <1>2 DEF Terminate, TypeOK
<1>3. CASE RecordTerminated(c)
  BY <1>3 DEF RecordTerminated, WithError, Nil, TypeOK
<1>4. CASE CancelRun(c)
  BY <1>4 DEF CancelRun, Return, Idle, TypeOK
<1> QED BY <1>1, <1>2, <1>3, <1>4 DEF Proceed, Issue

-----------------------------------------------------------------------------
(* What callers ask for.                                                    *)

LEMMA RunCalls ==
  ASSUME TypeOK, CallInv, RunStep PROVE CallInv'
<1> USE AgentAssumption DEF CallInv, agent, move, exit, clients, history
<1>1. CASE \/ Prepare \/ LeaveLoop \/ ContinueMeters \/ ContinueSteps \/ WaitForCommand \/ CheckTick
           \/ SeeCancelled \/ LockCells \/ LockMeters \/ Plan \/ NoPath
           \/ PassStep \/ UseMeters \/ TakeStep \/ Report \/ Close
           \/ DestroyCancel \/ DestroyEnd \/ DestroyResponses
  <2>1. run' # "lockCells" /\ UNCHANGED call
    BY <1>1 DEF Prepare, LeaveLoop, ContinueMeters, ContinueSteps, WaitForCommand, CheckTick,
                SeeCancelled, LockCells, LockMeters, Plan, NoPath, PassStep, UseMeters, TakeStep,
                Report, Close, DestroyCancel, DestroyEnd, DestroyResponses
  <2> QED BY <2>1
<1>2. CASE TimerFires \/ FinishMeters \/ ReturnMeters \/ \E c \in Callers : ReceiveMeters(c) \/ ReceiveSpeed(c)
  <2>1. /\ run' # "lockCells"
        /\ \A c \in Callers : call'[c].at \in {"cells", "speed"} => call'[c] = call[c]
    BY <1>2 DEF TimerFires, FinishMeters, ReturnMeters, Respond, ReceiveMeters, ReceiveSpeed, Idle, TypeOK
  <2> QED BY <2>1
<1>3. CASE ReceiveCells
  BY <1>3 DEF ReceiveCells, TypeOK
<1> QED BY <1>1, <1>2, <1>3 DEF RunStep

LEMMA CallerCalls ==
  ASSUME TypeOK, CallInv, NEW c \in Callers, Proceed(c) \/ Issue(c) PROVE CallInv'
<1> USE AgentAssumption DEF CallInv, move, Idle, TypeOK
<1>1. UNCHANGED run /\ (run = "lockCells" => UNCHANGED request)
  BY DEF Proceed, Issue, SendCells, GiveUp, MetersUnfinished, UpdateMovementSpeed, MoveNCells,
         MoveFMeters, Begin, RecordTerminated, CancelRun, Terminate
<1>2. CASE Proceed(c) \/ Terminate(c) \/ MoveFMeters(c)
  <2>1. \A d \in Callers : call'[d].at \in {"cells", "speed"} => call'[d] = call[d]
    BY <1>2 DEF Proceed, SendCells, GiveUp, MetersUnfinished, RecordTerminated, CancelRun, Return,
                Terminate, MoveFMeters, Begin
  <2> QED BY <1>1, <2>1
<1>3. CASE UpdateMovementSpeed(c) \/ MoveNCells(c)
  BY <1>1, <1>3 DEF UpdateMovementSpeed, MoveNCells, Begin
<1> QED BY <1>2, <1>3 DEF Issue

-----------------------------------------------------------------------------
(* The invariant of every run.                                              *)

Base == TypeOK /\ EndInv /\ CallInv

LEMMA BaseInit == ASSUME Init PROVE Base
<1>1. TypeOK
  BY InitType
<1>2. EndInv /\ CallInv
  BY AgentAssumption DEF Init, EndInv, CallInv, Waiting, Granted, Ending, Idle, Nil
<1> QED BY <1>1, <1>2 DEF Base

LEMMA BaseStep == ASSUME Base, [Next]_vars PROVE Base'
<1> USE DEF Base
<1>1. CASE RunStep
  <2>1. TypeOK'
    BY <1>1, RunType, StepType, MeetType DEF RunStep
  <2>2. EndInv'
    BY <1>1, LoopEnd, StepEnd DEF RunStep
  <2>3. CallInv'
    BY <1>1, RunCalls
  <2> QED BY <2>1, <2>2, <2>3
<1>2. ASSUME NEW c \in Callers, Proceed(c) \/ Issue(c) PROVE Base'
  <2>1. TypeOK'
    BY <1>2, CallerType
  <2>2. EndInv'
    BY <1>2, CallerEnd
  <2>3. CallInv'
    BY <1>2, CallerCalls
  <2> QED BY <2>1, <2>2, <2>3
<1>3. CASE UNCHANGED vars
  BY <1>3 DEF vars, agent, move, exit, clients, history, TypeOK, EndInv, CallInv, Waiting, Granted, Ending
<1> QED BY <1>1, <1>2, <1>3 DEF Next

(* Types, how a run ends, and which calls wait for it.                       *)
THEOREM BaseHolds == Spec => []Base
<1> QED BY BaseInit, BaseStep, PTL DEF Spec

(* Every variable keeps its type, for every number of callers and commands, *)
(* every route and every cost of its cells.                                 *)
THEOREM TypeCorrect == Spec => []TypeOK
<1>1. Base => TypeOK
  BY DEF Base
<1> QED BY <1>1, BaseHolds, PTL

(* A run that ended without an error has arrived and published its goal     *)
(* (destroy in agent_comm.go and the deferred function of agent.go).        *)
THEOREM NilIsArrival == Spec => []NilMeansArrived
<1>1. Base => NilMeansArrived
  BY DEF Base, EndInv, NilMeansArrived, Ending
<1> QED BY <1>1, BaseHolds, PTL

-----------------------------------------------------------------------------
(* A run implements its contract.                                           *)

LEMMA RunRefines ==
  ASSUME Base, RunStep PROVE [Run!Next]_(Run!runVars)
<1> USE DEF Base, Run!runVars, Run!Next, agent, move, exit, clients, history
<1>1. CASE \/ Prepare \/ LeaveLoop \/ ContinueMeters \/ ContinueSteps \/ WaitForCommand \/ CheckTick
           \/ SeeCancelled \/ LockCells \/ LockMeters \/ ReceiveCells \/ PassStep \/ UseMeters
           \/ DestroyResponses
  BY <1>1 DEF Prepare, LeaveLoop, ContinueMeters, ContinueSteps, WaitForCommand, CheckTick,
              SeeCancelled, LockCells, LockMeters, ReceiveCells, PassStep, UseMeters, DestroyResponses
<1>2. CASE TimerFires \/ FinishMeters \/ ReturnMeters \/ \E c \in Callers : ReceiveMeters(c) \/ ReceiveSpeed(c)
  BY <1>2 DEF TimerFires, FinishMeters, ReturnMeters, ReceiveMeters, ReceiveSpeed
<1>3. CASE Plan
  <2>1. left # 0 /\ left' # 0
    BY <1>3, AgentAssumption DEF Plan, EndInv, Granted, TypeOK
  <2> QED BY <1>3, <2>1 DEF Plan
<1>4. CASE NoPath \/ Report \/ Close
  <2>1. UNCHANGED <<left, ctxDone, ended>>
    BY <1>4 DEF NoPath, Report, Close, PublishPosition
  <2>2. exitErr' = exitErr \/ (exitErr = Nil /\ exitErr' \in Errors)
    BY <1>4 DEF NoPath, Report, Close, PublishPosition, WithError, Errors
  <2> QED BY <2>1, <2>2 DEF Run!Record
<1>5. CASE TakeStep
  <2>1. left # 0 /\ ~ended
    BY <1>5 DEF TakeStep, EndInv, Granted
  <2> QED BY <1>5, <2>1 DEF TakeStep, Run!Arrive
<1>6. CASE DestroyCancel
  <2>1. left = 0 \/ exitErr # Nil
    BY <1>6 DEF DestroyCancel, EndInv, Ending
  <2> QED BY <1>6, <2>1 DEF DestroyCancel, Run!Cancel
<1>7. CASE DestroyEnd
  <2>1. ctxDone /\ ~ended
    BY <1>7 DEF DestroyEnd, EndInv, TypeOK
  <2> QED BY <1>7, <2>1 DEF DestroyEnd, Run!Finish
<1> QED BY <1>1, <1>2, <1>3, <1>4, <1>5, <1>6, <1>7 DEF RunStep

LEMMA CallerRefines ==
  ASSUME Base, NEW c \in Callers, Proceed(c) \/ Issue(c) PROVE [Run!Next]_(Run!runVars)
<1> USE DEF Base, Run!runVars, Run!Next, agent, exit
<1>1. CASE RecordTerminated(c)
  <2>1. UNCHANGED <<left, ctxDone, ended>>
    BY <1>1 DEF RecordTerminated
  <2>2. exitErr' = exitErr \/ (exitErr = Nil /\ exitErr' \in Errors)
    BY <1>1 DEF RecordTerminated, WithError, Errors
  <2> QED BY <2>1, <2>2 DEF Run!Record
<1>2. CASE CancelRun(c)
  <2>1. ended \/ exitErr # Nil
    BY <1>2 DEF CancelRun, EndInv
  <2> QED BY <1>2, <2>1 DEF CancelRun, Run!Cancel
<1>3. CASE SendCells(c) \/ GiveUp(c) \/ MetersUnfinished(c) \/ Issue(c)
  BY <1>3 DEF SendCells, GiveUp, MetersUnfinished, Issue, UpdateMovementSpeed, MoveNCells,
              MoveFMeters, Begin, Terminate
<1> QED BY <1>1, <1>2, <1>3 DEF Proceed

(* The run keeps the contract its observers rely on: the first error stays, *)
(* the context is cancelled only with something to tell, and completion is  *)
(* announced once, after the cancellation.                                  *)
THEOREM RunImplements == Spec => ImplementsRun
<1>1. Init => Run!Init
  BY DEF Init, Run!Init
<1>2. Base /\ [Next]_vars => [Run!Next]_(Run!runVars)
  <2>1. ASSUME Base, UNCHANGED vars PROVE UNCHANGED Run!runVars
    BY <2>1 DEF vars, agent, exit, Run!runVars
  <2> QED BY <2>1, RunRefines, CallerRefines DEF Next
<1> QED BY BaseHolds, <1>1, <1>2, PTL DEF Spec, ImplementsRun, Run!Spec

-----------------------------------------------------------------------------
(* The timer.                                                               *)

LEMMA CoastStep == ASSUME Base, CoastInv, [Next]_vars PROVE CoastInv'
<1> USE DEF Base, CoastInv, Granted, agent, move, exit, clients, history
<1>1. CASE \/ Prepare \/ LeaveLoop \/ ContinueMeters \/ ContinueSteps \/ WaitForCommand \/ CheckTick
           \/ SeeCancelled \/ LockCells \/ LockMeters \/ ReceiveCells
  BY <1>1 DEF Prepare, LeaveLoop, ContinueMeters, ContinueSteps, NoCommand, WaitForCommand, CheckTick,
              SeeCancelled, LockCells, LockMeters, ReceiveCells
<1>2. CASE Plan \/ NoPath \/ PassStep \/ UseMeters \/ FinishMeters \/ ReturnMeters
  BY <1>2 DEF Plan, NoPath, PassStep, UseMeters, FinishMeters, ReturnMeters
<1>3. CASE Report \/ Close \/ DestroyCancel \/ DestroyEnd \/ DestroyResponses
  BY <1>3 DEF Report, Close, DestroyCancel, DestroyEnd, DestroyResponses
<1>4. CASE TimerFires
  BY <1>4 DEF TimerFires, CallInv
<1>5. CASE TakeStep
  BY <1>5 DEF TakeStep, TypeOK
<1>6. ASSUME NEW c \in Callers, ReceiveMeters(c) \/ ReceiveSpeed(c) PROVE CoastInv'
  BY <1>6 DEF ReceiveMeters, ReceiveSpeed, Selecting
<1>7. ASSUME NEW c \in Callers, Proceed(c) \/ Issue(c) PROVE CoastInv'
  BY <1>7 DEF Proceed, Issue, SendCells, GiveUp, MetersUnfinished, RecordTerminated, CancelRun,
              UpdateMovementSpeed, MoveNCells, MoveFMeters, Begin, Terminate
<1>8. CASE UNCHANGED vars
  BY <1>8 DEF vars
<1> QED BY <1>1, <1>2, <1>3, <1>4, <1>5, <1>6, <1>7, <1>8 DEF Next, RunStep

(* Once the speed is 0 the timer moves the agent by at most one more step,  *)
(* the one that was due (waitUntilStep in agent_comm.go).                   *)
THEOREM CoastsOnce == Spec => []StopCoastsOneStep
<1>1. Init => CoastInv
  BY AgentAssumption DEF Init, CoastInv, Granted
<1>2. Base /\ CoastInv /\ [Next]_vars => CoastInv'
  BY CoastStep
<1>3. CoastInv => StopCoastsOneStep
  BY DEF CoastInv, StopCoastsOneStep
<1> QED BY BaseHolds, <1>1, <1>2, <1>3, PTL DEF Spec

-----------------------------------------------------------------------------
(* Commands, when no caller asks for zero meters.                           *)

Steady == \/ Prepare \/ LeaveLoop \/ ContinueMeters \/ WaitForCommand \/ CheckTick \/ SeeCancelled
          \/ Plan \/ NoPath \/ PassStep \/ Report \/ Close
          \/ DestroyCancel \/ DestroyEnd \/ DestroyResponses

(* The steps of the run that leave every command as it is.                  *)
LEMMA SteadySteps ==
  ASSUME Steady
  PROVE  UNCHANGED <<stepsLeft, metersLeft, movementMu, request, owed, metersUsed, call, answer>>
BY DEF Steady, Prepare, LeaveLoop, ContinueMeters, WaitForCommand, CheckTick, SeeCancelled, Plan, NoPath,
       PassStep, Report, Close, DestroyCancel, DestroyEnd, DestroyResponses, move, clients, history

LEMMA AskedStep ==
  ASSUME 0 \notin MeterRequests, TypeOK, AskedInv, [Next]_vars PROVE AskedInv'
<1> USE DEF AskedInv, TypeOK, Idle
<1>1. CASE Steady
  BY <1>1, SteadySteps
<1>2. CASE ContinueSteps \/ ReceiveCells \/ LockCells \/ LockMeters \/ UseMeters \/ TakeStep
  BY <1>2 DEF ContinueSteps, ReceiveCells, LockCells, LockMeters, UseMeters, TakeStep, clients
<1>3. CASE TimerFires \/ FinishMeters \/ ReturnMeters
  BY <1>3 DEF TimerFires, FinishMeters, ReturnMeters, Respond
<1>4. ASSUME NEW c \in Callers, ReceiveMeters(c) \/ ReceiveSpeed(c) PROVE AskedInv'
  BY <1>4 DEF ReceiveMeters, ReceiveSpeed
<1>5. ASSUME NEW c \in Callers, Proceed(c) PROVE AskedInv'
  BY <1>5 DEF Proceed, SendCells, GiveUp, MetersUnfinished, RecordTerminated, CancelRun, Return
<1>6. ASSUME NEW c \in Callers, Issue(c) PROVE AskedInv'
  <2>1. CASE MoveFMeters(c)
    <3>1. PICK f \in MeterRequests : call' = [call EXCEPT ![c] = [at |-> "meters", arg |-> f]]
      BY <2>1 DEF MoveFMeters, Begin
    <3>2. f # 0
      OBVIOUS
    <3> QED BY <3>1, <3>2
  <2>2. CASE UpdateMovementSpeed(c) \/ MoveNCells(c)
    BY <2>2 DEF UpdateMovementSpeed, MoveNCells, Begin
  <2>3. CASE Terminate(c)
    BY <2>3 DEF Terminate
  <2> QED BY <1>6, <2>1, <2>2, <2>3 DEF Issue
<1>7. CASE UNCHANGED vars
  BY <1>7 DEF vars, clients
<1> QED BY <1>1, <1>2, <1>3, <1>4, <1>5, <1>6, <1>7 DEF Next, RunStep, Steady

(* What callers do leaves the commands alone.                               *)
LEMMA CallersLeave ==
  ASSUME NEW c \in Callers, Proceed(c) \/ Issue(c)
  PROVE  UNCHANGED <<run, grant, stepsLeft, metersLeft, movementMu, owed, metersUsed, respClosed, request>>
BY DEF Proceed, Issue, SendCells, GiveUp, MetersUnfinished, RecordTerminated, CancelRun, UpdateMovementSpeed,
       MoveNCells, MoveFMeters, Begin, Terminate, move, exit, history

LEMMA LockStep ==
  ASSUME TypeOK, CallInv, AskedInv, LockInv, [Next]_vars PROVE LockInv'
<1> USE DEF LockInv, TypeOK, Waiting, Granted
<1>1. CASE Steady
  <2>1. run' \in Waiting => run \in Waiting \/ (stepsLeft = 0 /\ metersLeft = 0)
    BY <1>1 DEF Steady, Prepare, LeaveLoop, ContinueMeters, NoCommand, WaitForCommand, CheckTick,
              SeeCancelled, Plan, NoPath, PassStep, Report, Close, DestroyCancel, DestroyEnd,
              DestroyResponses
  <2>2. run' \in {"start", "top", "step", "report"} => metersLeft >= 0
    BY <1>1 DEF Steady, Prepare, LeaveLoop, ContinueMeters, WaitForCommand, CheckTick,
              SeeCancelled, Plan, NoPath, PassStep, Report, Close, DestroyCancel, DestroyEnd,
              DestroyResponses
  <2>3. run' \in Granted /\ grant' = "cells" => run \in Granted /\ grant = "cells"
    BY <1>1 DEF Steady, Prepare, LeaveLoop, ContinueMeters, WaitForCommand, CheckTick,
              SeeCancelled, Plan, NoPath, PassStep, Report, Close, DestroyCancel, DestroyEnd,
              DestroyResponses, history
  <2>4. run' # "lockMeters"
    BY <1>1 DEF Steady, Prepare, LeaveLoop, ContinueMeters, WaitForCommand, CheckTick,
              SeeCancelled, Plan, NoPath, PassStep, Report, Close, DestroyCancel, DestroyEnd,
              DestroyResponses
  <2> QED BY <1>1, <2>1, <2>2, <2>3, <2>4, SteadySteps
<1>2. CASE ContinueSteps
  <2>1. /\ stepsLeft > 0 /\ metersLeft = 0 /\ movementMu
        /\ stepsLeft' = stepsLeft - 1 /\ metersLeft' = metersLeft
        /\ run' = "plan"
    BY <1>2 DEF ContinueSteps
  <2>2. movementMu' <=> stepsLeft # 1
    BY <1>2, <2>1 DEF ContinueSteps
  <2> QED BY <2>1, <2>2
<1>3. CASE ReceiveCells
  BY <1>3 DEF ReceiveCells, Selecting
<1>4. CASE LockCells
  <2>1. /\ request > 0 /\ stepsLeft' = request - 1 /\ metersLeft = 0 /\ metersLeft' = 0
        /\ run' = "plan"
    BY <1>4 DEF LockCells, CallInv
  <2>2. movementMu' <=> request # 1
    BY <1>4 DEF LockCells
  <2> QED BY <2>1, <2>2
<1>5. CASE LockMeters
  BY <1>5 DEF LockMeters
<1>6. CASE UseMeters
  BY <1>6, AgentAssumption DEF UseMeters, StepMeters
<1>7. CASE FinishMeters \/ ReturnMeters
  BY <1>7 DEF FinishMeters, ReturnMeters, Respond, history
<1>8. CASE TakeStep
  BY <1>8 DEF TakeStep, move
<1>9. CASE TimerFires
  BY <1>9 DEF TimerFires
<1>10. ASSUME NEW c \in Callers, ReceiveMeters(c) \/ ReceiveSpeed(c) PROVE LockInv'
  BY <1>10 DEF ReceiveMeters, ReceiveSpeed, Selecting, AskedInv, history
<1>11. ASSUME NEW c \in Callers, Proceed(c) \/ Issue(c) PROVE LockInv'
  BY <1>11, CallersLeave
<1>12. CASE UNCHANGED vars
  BY <1>12 DEF vars, move, history
<1> QED BY <1>1, <1>2, <1>3, <1>4, <1>5, <1>6, <1>7, <1>8, <1>9, <1>10, <1>11, <1>12
        DEF Next, RunStep, Steady

LEMMA OwedStep ==
  ASSUME TypeOK, LockInv, OwedInv, [Next]_vars PROVE OwedInv'
<1> USE DEF OwedInv, TypeOK, Granted, Ending
<1>1. CASE Steady
  <2>1. run' # "lockCells" /\ run # "lockCells"
    BY <1>1 DEF Steady, Prepare, LeaveLoop, ContinueMeters, NoCommand, WaitForCommand,
                CheckTick, SeeCancelled, Selecting, Plan, NoPath, PassStep, Report, Close, DestroyCancel, DestroyEnd,
              DestroyResponses
  <2>2. run' \notin Ending => run \notin Ending
    BY <1>1 DEF Steady, Prepare, LeaveLoop, ContinueMeters, NoCommand, WaitForCommand,
                CheckTick, SeeCancelled, Selecting, Plan, NoPath, PassStep, Report, Close, DestroyCancel, DestroyEnd,
              DestroyResponses
  <2>3. run' \notin Ending => ((run' \in Granted /\ grant' = "cells") <=> (run \in Granted /\ grant = "cells"))
    BY <1>1 DEF Steady, Prepare, LeaveLoop, ContinueMeters, NoCommand, WaitForCommand,
                CheckTick, SeeCancelled, Selecting, Plan, NoPath, PassStep, Report, Close, DestroyCancel, DestroyEnd,
              DestroyResponses, history
  <2> QED BY <1>1, <2>1, <2>2, <2>3, SteadySteps
<1>2. CASE ContinueSteps
  BY <1>2 DEF ContinueSteps
<1>3. CASE ReceiveCells
  BY <1>3 DEF ReceiveCells, Selecting, LockInv, Waiting
<1>4. CASE LockCells
  BY <1>4 DEF LockCells, LockInv, Waiting
<1>5. CASE LockMeters
  BY <1>5 DEF LockMeters, history
<1>6. CASE UseMeters
  BY <1>6 DEF UseMeters
<1>7. CASE FinishMeters \/ ReturnMeters
  BY <1>7 DEF FinishMeters, ReturnMeters, LockInv, history
<1>8. CASE TakeStep
  BY <1>8 DEF TakeStep, move
<1>9. CASE TimerFires
  BY <1>9 DEF TimerFires
<1>10. ASSUME NEW c \in Callers, ReceiveMeters(c) \/ ReceiveSpeed(c) PROVE OwedInv'
  BY <1>10 DEF ReceiveMeters, ReceiveSpeed, Selecting, history
<1>11. ASSUME NEW c \in Callers, Proceed(c) \/ Issue(c) PROVE OwedInv'
  BY <1>11, CallersLeave
<1>12. CASE UNCHANGED vars
  BY <1>12 DEF vars, move, history
<1> QED BY <1>1, <1>2, <1>3, <1>4, <1>5, <1>6, <1>7, <1>8, <1>9, <1>10, <1>11, <1>12
        DEF Next, RunStep, Steady

(* The callers that wait for an answer go on waiting.                       *)
Kept == \A c \in Callers : call[c].at = "await" \/ call'[c].at = "await" => call'[c] = call[c]

LEMMA KeptAwait ==
  ASSUME TypeOK, AwaitInv, Kept, UNCHANGED <<metersLeft, metersUsed>>,
         respClosed => respClosed',
         run # "lockMeters", run' # "lockMeters"
  PROVE  AwaitInv'
BY DEF AwaitInv, Kept, Awaiting, TypeOK

LEMMA AwaitStep ==
  ASSUME TypeOK, AskedInv, LockInv, AwaitInv, [Next]_vars PROVE AwaitInv'
<1> USE DEF TypeOK, Idle
<1>1. CASE Steady
  <2>1. run # "lockMeters" /\ run' # "lockMeters" /\ (respClosed => respClosed')
    BY <1>1 DEF Steady, Prepare, LeaveLoop, ContinueMeters, NoCommand, WaitForCommand, CheckTick,
                SeeCancelled, Selecting, Plan, NoPath, PassStep, Report, Close, DestroyCancel, DestroyEnd,
                DestroyResponses, exit
  <2> QED BY <1>1, <2>1, SteadySteps, KeptAwait DEF Kept
<1>2. CASE ContinueSteps \/ ReceiveCells \/ LockCells \/ TakeStep
  <2>1. /\ run # "lockMeters" /\ run' # "lockMeters"
        /\ UNCHANGED <<metersLeft, metersUsed, respClosed, call>>
    BY <1>2, AgentAssumption DEF ContinueSteps, ReceiveCells, Selecting, LockCells, TakeStep,
                move, exit, clients
  <2> QED BY <2>1, KeptAwait DEF Kept
<1>3. CASE TimerFires \/ \E c \in Callers : ReceiveSpeed(c)
  <2>1. /\ run # "lockMeters" /\ run' # "lockMeters" /\ UNCHANGED <<metersLeft, metersUsed, respClosed>>
    BY <1>3 DEF TimerFires, ReceiveSpeed, exit
  <2>2. Kept
    BY <1>3 DEF TimerFires, ReceiveSpeed, Kept
  <2> QED BY <2>1, <2>2, KeptAwait
<1>4. CASE LockMeters
  BY <1>4 DEF LockMeters, LockInv, AwaitInv, Awaiting, exit, clients
<1>5. CASE UseMeters
  <2>1. PICK k \in StepCosts :
          /\ metersLeft - StepMeters(k) > Tolerance
          /\ metersLeft' = metersLeft - StepMeters(k) /\ metersUsed' = metersUsed + StepMeters(k)
    BY <1>5 DEF UseMeters
  <2>2. StepMeters(k) \in Int
    BY AgentAssumption DEF StepMeters
  <2>3. UNCHANGED <<call, respClosed>> /\ metersLeft # 0 /\ run # "lockMeters" /\ run' # "lockMeters"
    BY <1>5 DEF UseMeters, clients, exit
  <2>4. metersLeft' # 0
    BY <2>1, <2>2, AgentAssumption
  <2> QED BY <2>1, <2>2, <2>3, <2>4 DEF AwaitInv, Awaiting
<1>6. CASE FinishMeters \/ ReturnMeters
  <2>1. PICK c \in Callers, rest \in Int : Respond(c, rest)
    BY <1>6 DEF FinishMeters, ReturnMeters
  <2>2. run' # "lockMeters" /\ metersLeft' = 0
    BY <1>6 DEF FinishMeters, ReturnMeters, Respond
  <2>3. Awaiting = {c} /\ call' = [call EXCEPT ![c] = Idle]
    BY <2>1 DEF Respond, AwaitInv, Awaiting
  <2>4. Awaiting' = {}
    BY <2>3 DEF Awaiting
  <2> QED BY <2>2, <2>4 DEF AwaitInv
<1>7. ASSUME NEW c \in Callers, ReceiveMeters(c) PROVE AwaitInv'
  <2>1. Awaiting = {}
    BY <1>7 DEF ReceiveMeters, Selecting, LockInv, Waiting, AwaitInv
  <2>2. Awaiting' = {c} /\ call'[c].arg = call[c].arg
    BY <1>7, <2>1 DEF ReceiveMeters, Awaiting
  <2> QED BY <1>7, <2>2 DEF ReceiveMeters, AwaitInv
<1>8. ASSUME NEW c \in Callers, MetersUnfinished(c) PROVE AwaitInv'
  <2>1. UNCHANGED <<run, metersLeft, metersUsed, request, respClosed>> /\ respClosed
    BY <1>8, CallersLeave DEF Proceed, MetersUnfinished
  <2>2. \A d \in Callers : call'[d].at = "await" => call'[d] = call[d]
    BY <1>8 DEF MetersUnfinished, Return
  <2> QED BY <2>1, <2>2 DEF AwaitInv, Awaiting
<1>9. ASSUME NEW c \in Callers, Proceed(c) \/ Issue(c), ~MetersUnfinished(c) PROVE AwaitInv'
  <2>1. UNCHANGED <<run, metersLeft, metersUsed, request, respClosed>>
    BY <1>9, CallersLeave
  <2>2. Kept
    BY <1>9 DEF Proceed, SendCells, GiveUp, RecordTerminated, CancelRun, Return, Issue,
                UpdateMovementSpeed, MoveNCells, MoveFMeters, Begin, Terminate, Kept
  <2> QED BY <2>1, <2>2 DEF AwaitInv, Awaiting, Kept
<1>10. CASE UNCHANGED vars
  BY <1>10 DEF vars, move, exit, clients, history, AwaitInv, Awaiting
<1> QED BY <1>1, <1>2, <1>3, <1>4, <1>5, <1>6, <1>7, <1>8, <1>9, <1>10 DEF Next, RunStep, Steady

-----------------------------------------------------------------------------
(* The invariant of a run whose callers never ask for zero meters.          *)

Served == Base /\ AskedInv /\ LockInv /\ OwedInv /\ AwaitInv

LEMMA ServedInit == ASSUME Init PROVE Served
<1>1. Base
  BY BaseInit
<1>2. AskedInv /\ AwaitInv
  BY DEF Init, AskedInv, AwaitInv, Awaiting, Idle
<1>3. LockInv
  <2>1. movementMu <=> InitialSteps > 1
    BY DEF Init
  <2>2. /\ run = "start" /\ metersLeft = 0
        /\ stepsLeft = IF InitialSteps = 0 THEN 0 ELSE InitialSteps - 1
    BY DEF Init
  <2> QED BY <2>1, <2>2, AgentAssumption DEF LockInv, Waiting, Granted
<1>4. OwedInv
  BY AgentAssumption DEF Init, OwedInv, Granted, Ending
<1> QED BY <1>1, <1>2, <1>3, <1>4 DEF Served

LEMMA ServedHolds == ASSUME 0 \notin MeterRequests PROVE Spec => []Served
<1>1. Served /\ [Next]_vars => Served'
  BY BaseStep, AskedStep, LockStep, OwedStep, AwaitStep DEF Served, Base
<1> QED BY ServedInit, <1>1, PTL DEF Spec

(* When no caller asks for zero meters, the run comes back for a command    *)
(* only with every earlier one served: its cells walked, its caller         *)
(* answered and movementMu free.                                            *)
THEOREM ReadyIsServed == ASSUME 0 \notin MeterRequests PROVE Spec => []ReadyMeansServed
<1>1. ASSUME Served, Selecting PROVE owed = 0 /\ metersLeft = 0 /\ Awaiting = {} /\ ~movementMu
  <2>1. stepsLeft = 0 /\ metersLeft = 0 /\ ~movementMu
    BY <1>1 DEF Served, LockInv, Selecting, Waiting
  <2>2. Awaiting = {}
    BY <1>1, <2>1 DEF Served, AwaitInv, Selecting
  <2>3. owed = 0
    BY <1>1, <2>1 DEF Served, Base, TypeOK, OwedInv, Selecting, Granted, Ending
  <2> QED BY <2>1, <2>2, <2>3
<1>2. Served => ReadyMeansServed
  BY <1>1 DEF ReadyMeansServed
<1> QED BY <1>2, ServedHolds, PTL

(* ... and a response always finds the one caller it is for.                *)
THEOREM Rendezvous == ASSUME 0 \notin MeterRequests PROVE Spec => []MetersRendezvous
<1>1. Served => MetersRendezvous
  BY DEF Served, AwaitInv, MetersRendezvous
<1> QED BY <1>1, ServedHolds, PTL

LEMMA AnswerStep ==
  ASSUME Served, [Next]_vars, NEW c \in Callers,
         call[c].at = "await", call'[c] = Idle, answer'[c].ok
  PROVE  AnswersRight(c)
<1> USE DEF Served, Base, TypeOK, Idle
<1>1. FinishMeters \/ ReturnMeters
  <2>1. ~Steady
    BY SteadySteps
  <2>2. ~(ContinueSteps \/ ReceiveCells \/ LockCells \/ LockMeters \/ UseMeters \/ TakeStep \/ TimerFires)
    BY DEF ContinueSteps, ReceiveCells, LockCells, LockMeters, UseMeters, TakeStep, TimerFires, clients
  <2>3. ~ \E d \in Callers : ReceiveMeters(d) \/ ReceiveSpeed(d)
    BY DEF ReceiveMeters, ReceiveSpeed
  <2>4. ~ \E d \in Callers : MetersUnfinished(d)
    BY DEF MetersUnfinished, Return, NoAnswer
  <2>5. ~ \E d \in Callers : SendCells(d) \/ GiveUp(d) \/ RecordTerminated(d) \/ CancelRun(d) \/ Issue(d)
    BY DEF SendCells, GiveUp, RecordTerminated, CancelRun, Return, Issue, UpdateMovementSpeed, MoveNCells,
           MoveFMeters, Begin, Terminate
  <2>6. ~ UNCHANGED vars
    BY DEF vars, clients
  <2> QED BY <2>1, <2>2, <2>3, <2>4, <2>5, <2>6 DEF Next, RunStep, Steady, Proceed
<1>2. metersLeft + metersUsed = call[c].arg
  BY <1>1 DEF FinishMeters, ReturnMeters, AwaitInv, Awaiting
<1>3. CASE FinishMeters
  <2>1. PICK k \in StepCosts, d \in Callers :
          /\ metersLeft - StepMeters(k) \in 0..Tolerance
          /\ metersUsed' = metersUsed + StepMeters(k)
          /\ Respond(d, 0)
    BY <1>3 DEF FinishMeters
  <2>2. d = c
    BY <2>1 DEF Respond
  <2>3. answer'[c].rest = 0
    BY <2>1, <2>2 DEF Respond
  <2>4. StepMeters(k) \in Int
    BY AgentAssumption DEF StepMeters
  <2>5. call[c].arg - metersUsed' = metersLeft - StepMeters(k)
    BY <1>2, <2>1, <2>4
  <2>6. call[c].arg - metersUsed' = 0 \/ call[c].arg - metersUsed' \in 1..Tolerance
    BY <2>1, <2>4, <2>5, AgentAssumption
  <2> QED BY <2>3, <2>6 DEF AnswersRight
<1>4. CASE ReturnMeters
  <2>1. PICK d \in Callers : Respond(d, metersLeft)
    BY <1>4 DEF ReturnMeters
  <2>2. d = c
    BY <2>1 DEF Respond
  <2>3. answer'[c].rest = metersLeft /\ metersUsed' = metersUsed
    BY <1>4, <2>1, <2>2 DEF Respond, ReturnMeters, history
  <2>4. call[c].arg - metersUsed' = metersLeft
    BY <1>2, <2>3
  <2> QED BY <2>3, <2>4 DEF AnswersRight
<1> QED BY <1>1, <1>3, <1>4

(* ... and the answer tells it what was not walked, up to the tolerance.    *)
THEOREM AnswersAreAccurate == ASSUME 0 \notin MeterRequests PROVE Spec => AnswerIsAccurate
<1>1. Served /\ [Next]_vars =>
        [\A c \in Callers :
           call[c].at = "await" /\ call'[c] = Idle /\ answer'[c].ok => AnswersRight(c)]_vars
  BY AnswerStep
<1> QED BY <1>1, ServedHolds, PTL DEF Spec, AnswerIsAccurate
=============================================================================
