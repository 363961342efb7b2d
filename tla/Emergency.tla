----------------------------- MODULE Emergency ------------------------------
(***************************************************************************)
(* The emergency lifecycle: the Start and Stop handlers, shutdown, the     *)
(* loop goroutine of each run and the process-wide flow publisher with its *)
(* subscribers.                                                            *)
(*                                                                         *)
(* Runs are numbered; the quit, done and stopDone channels of run e are    *)
(* named e, and 0 is the nil channel.  Messages of one NATS subscription   *)
(* are delivered one at a time, so there is one Start handler and one Stop *)
(* handler at work.  Operations on channels that Go punishes with a panic  *)
(* set panic.                                                              *)
(***************************************************************************)
EXTENDS Integers, FiniteSets

CONSTANTS MaxRuns,      \* bound: runs that are launched
          Subscribers,  \* flow subscriptions, and their channels
          Capacity,     \* buffer of a flow channel: the number of floors
          NoChannel     \* the nil channel of the publisher

ASSUME EmergencyAssumption == /\ MaxRuns \in Nat
                              /\ Capacity \in Nat \ {0}
                              /\ NoChannel \notin Subscribers

Epochs == 1..MaxRuns

VARIABLES
  mu,          \* emergencyManager.mu: who holds it
  state,       \* emergencyState
  quit, done, stopDone,   \* the manager's channels
  quitClosed, stopDoneClosed,   \* runs whose quit, stopDone channel is closed
  epoch,       \* runs launched so far
  loop,        \* where the loop goroutine of each run is
  portals,     \* runs whose fake-goal portals are in the world
  masked,      \* preference costs are on the floors
  start,       \* where the Start handler is
  stop, stopRun,   \* where the Stop handler is, and the run it waits for
  shut, shutRun,   \* the same of Shutdown
  channel,     \* the publisher's channel
  requested,   \* the publisher's request for a snapshot
  sub,         \* where each subscriber is
  box,         \* snapshots in each flow channel
  subClosed,   \* flow channels that are closed
  panic        \* a channel was misused

manager == <<mu, state, quit, done, stopDone, quitClosed, stopDoneClosed>>
runs    == <<epoch, loop, portals>>
calls   == <<start, stop, stopRun, shut, shutRun>>
flow    == <<channel, requested, sub, box, subClosed>>
vars    == <<manager, runs, masked, calls, flow, panic>>

Init == /\ mu = "free" /\ state = "Stopped"
        /\ quit = 0 /\ done = 0 /\ stopDone = 0
        /\ quitClosed = {} /\ stopDoneClosed = {}
        /\ epoch = 0 /\ loop = [e \in Epochs |-> "none"] /\ portals = {}
        /\ masked = FALSE
        /\ start = "away"
        /\ stop = "away" /\ stopRun = 0
        /\ shut = "up" /\ shutRun = 0
        /\ channel = NoChannel /\ requested = FALSE
        /\ sub = [s \in Subscribers |-> "idle"]
        /\ box = [s \in Subscribers |-> 0] /\ subClosed = {}
        /\ panic = FALSE

(* Subscriptions deliver requests until the connection is drained. *)
Serving == shut # "drained"

-----------------------------------------------------------------------------
(* handleEmergencyStart, which holds mu from beginning to end.  A request   *)
(* that finds the state other than Stopped changes nothing.                 *)

\* Mutant: a start is accepted while the last run is being stopped.
BeginStartEarly == /\ Serving /\ start = "away" /\ mu = "free" /\ epoch < MaxRuns
                   /\ state \in {"Stopped", "Stopping"}
                   /\ mu' = "start" /\ start' = "mask"
                   /\ UNCHANGED <<state, quit, done, stopDone, quitClosed, stopDoneClosed, runs,
                                  masked, stop, stopRun, shut, shutRun, flow, panic>>

BeginStart == /\ Serving /\ start = "away" /\ mu = "free" /\ epoch < MaxRuns
              /\ state = "Stopped"
              /\ mu' = "start" /\ start' = "mask"
              /\ UNCHANGED <<state, quit, done, stopDone, quitClosed, stopDoneClosed, runs,
                             masked, stop, stopRun, shut, shutRun, flow, panic>>

ApplyPreferencePaths == /\ start = "mask"
                        /\ masked' = TRUE /\ start' = "init"
                        /\ UNCHANGED <<manager, runs, stop, stopRun, shut, shutRun, flow, panic>>

\* Mutant: a start that fails leaves the preference costs behind.
FailStartMasked == /\ start = "init"
                   /\ mu' = "free" /\ start' = "away"
                   /\ UNCHANGED <<state, quit, done, stopDone, quitClosed, stopDoneClosed, runs,
                                  masked, stop, stopRun, shut, shutRun, flow, panic>>

(* A goal that is no position, or a planner that cannot start. *)
FailStart == /\ start = "init"
             /\ masked' = FALSE
             /\ mu' = "free" /\ start' = "away"
             /\ UNCHANGED <<state, quit, done, stopDone, quitClosed, stopDoneClosed, runs,
                            stop, stopRun, shut, shutRun, flow, panic>>

(* InternalEmergencyStart: the loop lives before the manager knows it.      *)
LaunchLoop == /\ start = "init"
              /\ epoch' = epoch + 1
              /\ loop' = [loop EXCEPT ![epoch'] = "looping"]
              /\ portals' = portals \cup {epoch'}
              /\ start' = "commit"
              /\ UNCHANGED <<manager, masked, stop, stopRun, shut, shutRun, flow, panic>>

CommitStart == /\ start = "commit"
               /\ quit' = epoch /\ done' = epoch /\ stopDone' = epoch
               /\ state' = "Running"
               /\ mu' = "free" /\ start' = "away"
               /\ UNCHANGED <<quitClosed, stopDoneClosed, runs, masked, stop, stopRun,
                              shut, shutRun, flow, panic>>

-----------------------------------------------------------------------------
(* Closing a channel twice, or a nil one, panics. *)
CloseQuit == /\ quitClosed' = quitClosed \cup {quit}
             /\ panic' = (panic \/ quit = 0 \/ quit \in quitClosed)
             /\ quit' = 0

\* Mutant: those who wait for the end of the stop are not told.
CompleteStopSilently == /\ done' = 0 /\ quit' = 0 /\ stopDone' = 0
                        /\ masked' = FALSE
                        /\ state' = "Stopped"
                        /\ UNCHANGED <<stopDoneClosed, panic>>

(* completeEmergencyStopLocked *)
CompleteStop == /\ done' = 0 /\ quit' = 0
                /\ masked' = FALSE
                /\ state' = "Stopped"
                /\ stopDoneClosed' = IF stopDone = 0 THEN stopDoneClosed
                                     ELSE stopDoneClosed \cup {stopDone}
                /\ panic' = (panic \/ stopDone \in stopDoneClosed)
                /\ stopDone' = 0

LoopDone(e) == e = 0 \/ loop[e] = "done"

(* handleEmergencyStop.  With nothing to stop it answers at once.           *)
StopRunning == /\ Serving /\ stop = "away" /\ mu = "free" /\ state = "Running"
               /\ state' = "Stopping"
               /\ CloseQuit
               /\ stopRun' = done /\ stop' = "waitDone"
               /\ UNCHANGED <<mu, done, stopDone, stopDoneClosed, runs, masked, start,
                              shut, shutRun, flow>>

StopAgain == /\ Serving /\ stop = "away" /\ mu = "free"
             /\ state \in {"Stopping", "Cleanup"}
             /\ stopRun' = stopDone /\ stop' = "join"
             /\ UNCHANGED <<manager, runs, masked, start, shut, shutRun, flow, panic>>

\* Mutant: the loop is not waited for.
StopCompleteEarly == /\ stop = "waitDone" /\ mu = "free"
                     /\ state = "Stopping"
                     /\ CompleteStop
                     /\ stop' = "away"
                     /\ UNCHANGED <<mu, quitClosed, runs, stopRun, start, shut, shutRun, flow>>

StopComplete == /\ stop = "waitDone" /\ LoopDone(stopRun) /\ mu = "free"
                /\ state = "Stopping"
                /\ CompleteStop
                /\ stop' = "away"
                /\ UNCHANGED <<mu, quitClosed, runs, stopRun, start, shut, shutRun, flow>>

(* Shutdown took the cleanup over: wait for its stopDone. *)
StopOvertaken == /\ stop = "waitDone" /\ LoopDone(stopRun) /\ mu = "free"
                 /\ state # "Stopping"
                 /\ stop' = "joinLocked"
                 /\ UNCHANGED <<manager, runs, masked, stopRun, start, shut, shutRun, flow, panic>>

(* waitEmergencyStopDone; in the overtaken case mu is taken once more.      *)
StopJoined == /\ stop \in {"join", "joinLocked"}
              /\ stopRun = 0 \/ stopRun \in stopDoneClosed
              /\ stop = "joinLocked" => mu = "free"
              /\ stop' = "away"
              /\ UNCHANGED <<manager, runs, masked, stopRun, start, shut, shutRun, flow, panic>>

-----------------------------------------------------------------------------
(* stopCurrentEmergency, then the drain of the connection.                  *)

ShutNothing == /\ shut = "up" /\ mu = "free" /\ state = "Stopped"
               /\ shut' = "stopped"
               /\ UNCHANGED <<manager, runs, masked, start, stop, stopRun, shutRun, flow, panic>>

\* Mutant: the quit channel is closed even if Stop has closed it.
ShutRunningTwice == /\ shut = "up" /\ mu = "free" /\ state \in {"Running", "Stopping"}
                    /\ state' = "Cleanup"
                    /\ CloseQuit
                    /\ shutRun' = done /\ shut' = "waitDone"
                    /\ UNCHANGED <<mu, done, stopDone, stopDoneClosed, runs, masked, start,
                                   stop, stopRun, flow>>

ShutRunning == /\ shut = "up" /\ mu = "free" /\ state \in {"Running", "Stopping"}
               /\ state' = "Cleanup"
               /\ IF state = "Running"
                  THEN CloseQuit
                  ELSE UNCHANGED <<quit, quitClosed, panic>>
               /\ shutRun' = done /\ shut' = "waitDone"
               /\ UNCHANGED <<mu, done, stopDone, stopDoneClosed, runs, masked, start,
                              stop, stopRun, flow>>

ShutComplete == /\ shut = "waitDone" /\ LoopDone(shutRun) /\ mu = "free"
                /\ CompleteStop
                /\ shut' = "stopped"
                /\ UNCHANGED <<mu, quitClosed, runs, shutRun, start, stop, stopRun, flow>>

Drain == /\ shut = "stopped"
         /\ shut' = "drained"
         /\ UNCHANGED <<manager, runs, masked, start, stop, stopRun, shutRun, flow, panic>>

-----------------------------------------------------------------------------
(* The loop goroutine of run e (InternalEmergencyStart).                    *)

(* publish: a full channel costs 200 ms and the snapshot. *)
PublishFlow(e) ==
  /\ loop[e] = "looping"
  /\ requested' = FALSE
  /\ IF channel = NoChannel THEN UNCHANGED <<box, panic>>
     ELSE /\ box' = [box EXCEPT ![channel] = IF @ < Capacity THEN @ + 1 ELSE @]
          /\ panic' = (panic \/ channel \in subClosed)
  /\ UNCHANGED <<manager, runs, masked, calls, channel, sub, subClosed>>

LoopQuits(e) == /\ loop[e] = "looping" /\ e \in quitClosed
                /\ loop' = [loop EXCEPT ![e] = "closePublisher"]
                /\ UNCHANGED <<manager, epoch, portals, masked, calls, flow, panic>>

CloseChannel(s) == /\ subClosed' = subClosed \cup {s}
                   /\ panic' = (panic \/ s \in subClosed)

\* Mutant: the publisher forgets its channel without closing it.
ClosePublisherOpen(e) ==
  /\ loop[e] = "closePublisher"
  /\ channel' = NoChannel
  /\ loop' = [loop EXCEPT ![e] = "cleanup"]
  /\ UNCHANGED <<manager, epoch, portals, masked, calls, requested, sub, box, subClosed, panic>>

ClosePublisher(e) ==
  /\ loop[e] = "closePublisher"
  /\ IF channel = NoChannel
     THEN UNCHANGED <<subClosed, panic>>
     ELSE CloseChannel(channel)
  /\ channel' = NoChannel
  /\ loop' = [loop EXCEPT ![e] = "cleanup"]
  /\ UNCHANGED <<manager, epoch, portals, masked, calls, requested, sub, box>>

(* cleanupFakeGoalPortals, and the end of the world subscription. *)
CleanupPortals(e) == /\ loop[e] = "cleanup"
                     /\ portals' = portals \ {e}
                     /\ loop' = [loop EXCEPT ![e] = "closeDone"]
                     /\ UNCHANGED <<manager, epoch, masked, calls, flow, panic>>

CloseDone(e) == /\ loop[e] = "closeDone"
                /\ loop' = [loop EXCEPT ![e] = "done"]
                /\ UNCHANGED <<manager, epoch, portals, masked, calls, flow, panic>>

-----------------------------------------------------------------------------
\* Mutant: the subscriber that is replaced is not told.
SubscribeOver(s) == /\ Serving /\ sub[s] = "idle"
                    /\ channel' = s /\ requested' = TRUE
                    /\ sub' = [sub EXCEPT ![s] = "streaming"]
                    /\ UNCHANGED <<manager, runs, masked, calls, box, subClosed, panic>>

(* handleEmergencyFlowSub and SetFlowPublisher: the newest subscriber       *)
(* replaces the one before, whether or not an emergency is running.         *)
Subscribe(s) == /\ Serving /\ sub[s] = "idle"
                /\ IF channel = NoChannel
                   THEN UNCHANGED <<subClosed, panic>>
                   ELSE CloseChannel(channel)
                /\ channel' = s /\ requested' = TRUE
                /\ sub' = [sub EXCEPT ![s] = "streaming"]
                /\ UNCHANGED <<manager, runs, masked, calls, box>>

Stream(s) == /\ sub[s] = "streaming" /\ box[s] > 0
             /\ box' = [box EXCEPT ![s] = @ - 1]
             /\ UNCHANGED <<manager, runs, masked, calls, channel, requested, sub,
                            subClosed, panic>>

(* A closed channel that is empty: the last message says done=true. *)
EndStream(s) == /\ sub[s] = "streaming" /\ box[s] = 0 /\ s \in subClosed
                /\ sub' = [sub EXCEPT ![s] = "over"]
                /\ UNCHANGED <<manager, runs, masked, calls, channel, requested, box,
                               subClosed, panic>>

-----------------------------------------------------------------------------
StartStep == ApplyPreferencePaths \/ FailStart \/ LaunchLoop \/ CommitStart

StopStep == StopComplete \/ StopOvertaken \/ StopJoined

ShutStep == ShutNothing \/ ShutRunning \/ ShutComplete \/ Drain

CloseStep(e) == LoopQuits(e) \/ ClosePublisher(e) \/ CleanupPortals(e) \/ CloseDone(e)

SubscriberStep(s) == Stream(s) \/ EndStream(s)

Next == \/ BeginStart \/ StartStep
        \/ StopRunning \/ StopAgain \/ StopStep
        \/ ShutStep
        \/ \E e \in Epochs : PublishFlow(e) \/ CloseStep(e)
        \/ \E s \in Subscribers : Subscribe(s) \/ SubscriberStep(s)

Spec == Init /\ [][Next]_vars

(* Handlers that have begun go on, Shutdown too once it has begun to stop   *)
(* the emergency; the loop sees its closed quit channel, and publishes on   *)
(* request at its next tick; subscribers drain their channels.  Stop and    *)
(* Shutdown wait for mu, which start requests may take again and again:     *)
(* a sync.Mutex that is released infinitely often starves no waiter (after  *)
(* 1 ms it is handed over in order of arrival), hence strong fairness.      *)
Fairness == /\ WF_vars(StartStep)
            /\ SF_vars(StopStep)
            /\ SF_vars(shut = "waitDone" /\ ShutStep)
            /\ \A e \in Epochs : /\ WF_vars(CloseStep(e))
                                 /\ WF_vars(requested /\ PublishFlow(e))
            /\ \A s \in Subscribers : WF_vars(SubscriberStep(s))

FairSpec == Spec /\ Fairness

-----------------------------------------------------------------------------
Run0 == 0..MaxRuns

(* Every variable has its type. *)
TypeOK ==
  /\ mu \in {"free", "start"}
  /\ state \in {"Stopped", "Running", "Stopping", "Cleanup"}
  /\ quit \in Run0 /\ done \in Run0 /\ stopDone \in Run0
  /\ quitClosed \subseteq Run0 /\ stopDoneClosed \subseteq Run0
  /\ epoch \in Run0
  /\ loop \in [Epochs -> {"none", "looping", "closePublisher", "cleanup", "closeDone", "done"}]
  /\ portals \subseteq Epochs /\ masked \in BOOLEAN
  /\ start \in {"away", "mask", "init", "commit"}
  /\ stop \in {"away", "waitDone", "join", "joinLocked"} /\ stopRun \in Run0
  /\ shut \in {"up", "waitDone", "stopped", "drained"} /\ shutRun \in Run0
  /\ channel \in Subscribers \cup {NoChannel} /\ requested \in BOOLEAN
  /\ sub \in [Subscribers -> {"idle", "streaming", "over"}]
  /\ box \in [Subscribers -> 0..Capacity] /\ subClosed \subseteq Subscribers
  /\ panic \in BOOLEAN

(* Runs whose loop goroutine is alive. *)
Live == {e \in Epochs : loop[e] \notin {"none", "done"}}

(* The global floors carry preference costs exactly while an emergency is  *)
(* not Stopped, whichever of Stop and Shutdown cleans up; only a Start     *)
(* request in progress (it holds mu) may be in between.                    *)
MasksFollowState == mu = "free" => (masked <=> state # "Stopped")

(* No channel is closed twice or sent to after it was closed, and no nil   *)
(* channel is closed, whatever the order of Stop, Shutdown, a replaced     *)
(* subscription and the end of a loop.                                     *)
NoPanic == ~panic

(* A Stop that found a run to stop is answered only when that run's loop   *)
(* has ended, its portals are gone and its cleanup is over: the floors are *)
(* restored, unless a newer start has begun.                               *)
StopMeansStopped ==
  [][stop # "away" /\ stop' = "away" /\ stopRun # 0
       => /\ loop'[stopRun] = "done" /\ stopRun \notin portals'
          /\ stopRun \in stopDoneClosed'
          /\ masked' => epoch' > stopRun \/ start' # "away"]_vars

(* A subscriber whose stream is open is the one the publisher serves: a    *)
(* replaced subscriber, and the last one of a run, have been told.         *)
OpenStreamIsServed == \A s \in Subscribers :
  sub[s] = "streaming" /\ s \notin subClosed => channel = s

(* The contract with the rest of the service. *)
Contract == INSTANCE EmergencyContract WITH running <- Live

ImplementsContract == Contract!Spec

(* Every Stop is answered, and a Shutdown that has to stop a run finishes. *)
StopsFinish == /\ stop # "away" ~> stop = "away"
               /\ shut = "waitDone" ~> shut = "stopped"

(* A new subscriber of a running emergency receives a snapshot, or the end *)
(* of its stream, and the stream ends once the run is told to quit.        *)
SubscribersAreServed == \A s \in Subscribers :
  /\ channel = s /\ requested /\ (\E e \in Epochs : loop[e] = "looping")
       ~> box[s] > 0 \/ s \in subClosed
  /\ channel = s /\ (\E e \in Live \cap quitClosed : loop[e] = "looping") ~> sub[s] = "over"

-----------------------------------------------------------------------------
(* The inductive invariant behind the safety properties, in parts.         *)

(* The start handler, and nobody else across a step, holds mu; the state   *)
(* is Stopped meanwhile, and a run is left to launch.                      *)
StartInv == /\ mu = "start" <=> start # "away"
            /\ start # "away" => state = "Stopped" /\ (masked <=> start # "mask")
            /\ start \in {"mask", "init"} => epoch < MaxRuns
            /\ start = "away" => (masked <=> state # "Stopped")

(* Every run but the newest is over; a loop leaves after its quit channel  *)
(* was closed, and stopDone is closed after the loop.                      *)
LoopInv == \A e \in Epochs :
             /\ loop[e] = "none" <=> e > epoch
             /\ e < epoch => loop[e] = "done"
             /\ loop[e] \notin {"none", "looping"} => e \in quitClosed
             /\ loop[e] \in {"none", "closeDone", "done"} => e \notin portals
             /\ e \in stopDoneClosed => loop[e] = "done"

(* The manager's channels are those of the newest run, or nil.             *)
ManagerInv ==
  /\ quitClosed \subseteq 1..epoch /\ stopDoneClosed \subseteq 1..epoch
  /\ state = "Stopped" => quit = 0 /\ done = 0 /\ stopDone = 0
  /\ state = "Stopped" /\ start # "commit" => Live = {}
  /\ start = "commit" => epoch >= 1 /\ epoch \notin quitClosed
  /\ state # "Stopped" => /\ epoch >= 1 /\ done = epoch /\ stopDone = epoch
                          /\ epoch \notin stopDoneClosed
  /\ state = "Running" => quit = epoch /\ epoch \notin quitClosed
  /\ state \in {"Stopping", "Cleanup"} => quit = 0 /\ epoch \in quitClosed

(* Whoever cleans up waits for the newest run.                             *)
CallInv == /\ state = "Stopping" => stop = "waitDone" /\ stopRun = epoch
           /\ state = "Cleanup" <=> shut = "waitDone"
           /\ shut = "waitDone" => shutRun = epoch
           /\ stopRun \in 0..epoch

(* The publisher's channel is open and has a subscriber.                   *)
FlowInv == /\ channel \notin subClosed
           /\ channel # NoChannel => sub[channel] # "idle"
           /\ \A s \in subClosed : sub[s] # "idle"
           /\ OpenStreamIsServed

IInv == TypeOK /\ StartInv /\ LoopInv /\ ManagerInv /\ CallInv /\ FlowInv /\ ~panic

=============================================================================
