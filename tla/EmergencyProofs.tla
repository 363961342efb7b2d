-------------------------- MODULE EmergencyProofs ---------------------------
(***************************************************************************)
(* Proofs about Emergency, for every number of runs and subscribers: the   *)
(* inductive invariant IInv, the safety properties it implies, and the     *)
(* refinement of EmergencyContract.                                        *)
(***************************************************************************)
EXTENDS Emergency, TLAPS

LEMMA InitInv == ASSUME Init PROVE IInv
<1> USE EmergencyAssumption DEF Init
<1>1. TypeOK
  <2>1. /\ box \in [Subscribers -> 0..Capacity]
        /\ sub \in [Subscribers -> {"idle", "streaming", "over"}]
    OBVIOUS
  <2>2. loop \in [Epochs -> {"none", "looping", "closePublisher", "cleanup", "closeDone", "done"}]
    OBVIOUS
  <2>3. requested \in BOOLEAN /\ panic \in BOOLEAN /\ masked \in BOOLEAN
    OBVIOUS
  <2> QED BY <2>1, <2>2, <2>3 DEF TypeOK, Run0
<1>2. LoopInv
  BY DEF LoopInv, Epochs
<1>3. StartInv /\ ManagerInv /\ CallInv
  BY DEF StartInv, ManagerInv, CallInv, Live, Epochs
<1>4. FlowInv /\ ~panic
  BY DEF FlowInv, OpenStreamIsServed
<1> QED BY <1>1, <1>2, <1>3, <1>4 DEF IInv

(* The Start handler. *)
LEMMA StartKeepsInv == ASSUME IInv, BeginStart \/ StartStep PROVE IInv'
<1> USE EmergencyAssumption DEF Epochs, Run0, manager, runs, calls, flow
<1>1. CASE BeginStart
  <2>1. TypeOK'
    BY <1>1 DEF IInv, TypeOK, BeginStart, Serving
  <2>2. StartInv'
    BY <1>1 DEF IInv, TypeOK, StartInv, BeginStart, Serving
  <2>3. ManagerInv'
    BY <1>1 DEF IInv, TypeOK, ManagerInv, Live, StartInv, BeginStart,
        Serving
  <2>4. LoopInv' /\ CallInv' /\ FlowInv' /\ ~panic'
    BY <1>1 DEF IInv, LoopInv, CallInv, FlowInv, OpenStreamIsServed,
        BeginStart, Serving
  <2> QED BY <2>1, <2>2, <2>3, <2>4 DEF IInv
<1>2. CASE ApplyPreferencePaths
  <2>1. TypeOK'
    BY <1>2 DEF IInv, TypeOK, ApplyPreferencePaths
  <2>2. StartInv'
    BY <1>2 DEF IInv, TypeOK, StartInv, ApplyPreferencePaths
  <2>3. ManagerInv'
    BY <1>2 DEF IInv, TypeOK, ManagerInv, Live, StartInv,
        ApplyPreferencePaths
  <2>4. LoopInv' /\ CallInv' /\ FlowInv' /\ ~panic'
    BY <1>2 DEF IInv, LoopInv, CallInv, FlowInv, OpenStreamIsServed,
        ApplyPreferencePaths
  <2> QED BY <2>1, <2>2, <2>3, <2>4 DEF IInv
<1>3. CASE FailStart
  <2>1. TypeOK'
    BY <1>3 DEF IInv, TypeOK, FailStart
  <2>2. StartInv'
    BY <1>3 DEF IInv, TypeOK, StartInv, FailStart
  <2>3. ManagerInv'
    BY <1>3 DEF IInv, TypeOK, ManagerInv, Live, StartInv, FailStart
  <2>4. LoopInv' /\ CallInv' /\ FlowInv' /\ ~panic'
    BY <1>3 DEF IInv, LoopInv, CallInv, FlowInv, OpenStreamIsServed,
        FailStart
  <2> QED BY <2>1, <2>2, <2>3, <2>4 DEF IInv
<1>4. CASE LaunchLoop
  <2>1. TypeOK'
    BY <1>4 DEF IInv, TypeOK, StartInv, LaunchLoop
  <2>2. StartInv'
    BY <1>4 DEF IInv, TypeOK, StartInv, LaunchLoop
  <2>3. LoopInv'
    <3>1. /\ epoch \in Nat /\ epoch + 1 \in Epochs
          /\ \A e \in Epochs : loop[e] \in {"none", "done"}
      BY <1>4 DEF LaunchLoop, IInv, TypeOK, StartInv, ManagerInv, Live
    <3>2. SUFFICES ASSUME NEW e \in Epochs
                   PROVE  /\ loop'[e] = "none" <=> e > epoch'
                          /\ e < epoch' => loop'[e] = "done"
                          /\ loop'[e] \notin {"none", "looping"} => e \in quitClosed'
                          /\ loop'[e] \in {"none", "closeDone", "done"} => e \notin portals'
                          /\ e \in stopDoneClosed' => loop'[e] = "done"
      BY DEF LoopInv
    <3>3. CASE e = epoch + 1
      BY <1>4, <3>1, <3>3 DEF LaunchLoop, IInv, TypeOK, LoopInv, ManagerInv
    <3>4. CASE e # epoch + 1
      BY <1>4, <3>1, <3>4 DEF LaunchLoop, IInv, TypeOK, LoopInv
    <3> QED BY <3>3, <3>4
  <2>4. ManagerInv'
    BY <1>4 DEF IInv, TypeOK, ManagerInv, Live, StartInv, LoopInv,
        LaunchLoop
  <2>5. CallInv'
    BY <1>4 DEF IInv, TypeOK, CallInv, StartInv, LaunchLoop
  <2>6. FlowInv' /\ ~panic'
    BY <1>4 DEF IInv, FlowInv, OpenStreamIsServed, LaunchLoop
  <2> QED BY <2>1, <2>2, <2>3, <2>4, <2>5, <2>6 DEF IInv
<1>5. CASE CommitStart
  <2>1. TypeOK'
    BY <1>5 DEF IInv, TypeOK, CommitStart
  <2>2. StartInv'
    BY <1>5 DEF IInv, TypeOK, StartInv, CommitStart
  <2>3. ManagerInv'
    BY <1>5 DEF IInv, TypeOK, ManagerInv, Live, StartInv, LoopInv,
        CommitStart
  <2>4. CallInv'
    BY <1>5 DEF IInv, TypeOK, CallInv, StartInv, CommitStart
  <2>5. LoopInv' /\ FlowInv' /\ ~panic'
    BY <1>5 DEF IInv, LoopInv, FlowInv, OpenStreamIsServed, CommitStart
  <2> QED BY <2>1, <2>2, <2>3, <2>4, <2>5 DEF IInv
<1> QED BY <1>1, <1>2, <1>3, <1>4, <1>5 DEF StartStep

(* The Stop handler. *)
LEMMA StopKeepsInv == ASSUME IInv, StopRunning \/ StopAgain \/ StopStep PROVE IInv'
<1> USE EmergencyAssumption DEF Epochs, Run0, manager, runs, calls, flow
<1>1. CASE StopRunning
  <2>1. TypeOK'
    BY <1>1 DEF IInv, TypeOK, StopRunning, CloseQuit
  <2>2. StartInv'
    BY <1>1 DEF IInv, TypeOK, StartInv, StopRunning, CloseQuit
  <2>3. LoopInv'
    BY <1>1 DEF IInv, TypeOK, LoopInv, ManagerInv, StopRunning, CloseQuit
  <2>4. ManagerInv'
    BY <1>1 DEF IInv, TypeOK, ManagerInv, Live, StartInv, StopRunning,
        CloseQuit
  <2>5. CallInv'
    BY <1>1 DEF IInv, TypeOK, CallInv, ManagerInv, StopRunning, CloseQuit
  <2>6. ~panic'
    BY <1>1 DEF IInv, TypeOK, ManagerInv, StopRunning, CloseQuit
  <2>7. FlowInv'
    BY <1>1 DEF IInv, FlowInv, OpenStreamIsServed, StopRunning, CloseQuit
  <2> QED BY <2>1, <2>2, <2>3, <2>4, <2>5, <2>6, <2>7 DEF IInv
<1>2. CASE StopAgain
  <2>1. TypeOK'
    BY <1>2 DEF IInv, TypeOK, StopAgain
  <2>2. CallInv'
    BY <1>2 DEF IInv, TypeOK, CallInv, ManagerInv, StopAgain
  <2>3. StartInv' /\ LoopInv' /\ ManagerInv' /\ FlowInv' /\ ~panic'
    BY <1>2 DEF IInv, StartInv, LoopInv, ManagerInv, FlowInv,
        OpenStreamIsServed, Live, StopAgain
  <2> QED BY <2>1, <2>2, <2>3 DEF IInv
<1>3. CASE StopComplete
  <2>1. TypeOK'
    <3>1. stopDoneClosed' \subseteq Run0
      BY <1>3 DEF IInv, TypeOK, StopComplete, CompleteStop
    <3>2. panic' \in BOOLEAN /\ masked' \in BOOLEAN
      BY <1>3, Zenon DEF StopComplete, CompleteStop
    <3>3. /\ done' = 0 /\ quit' = 0 /\ stopDone' = 0 /\ state' = "Stopped"
          /\ stop' = "away" /\ UNCHANGED <<mu, quitClosed, runs, stopRun, start, shut, shutRun, flow>>
      BY <1>3 DEF StopComplete, CompleteStop
    <3> QED BY <3>1, <3>2, <3>3 DEF IInv, TypeOK
  <2>2. StartInv'
    BY <1>3 DEF IInv, TypeOK, StartInv, StopComplete, CompleteStop, LoopDone
  <2>3. LoopInv'
    BY <1>3 DEF IInv, TypeOK, LoopInv, ManagerInv, CallInv, StopComplete,
        CompleteStop, LoopDone
  <2>4. ManagerInv'
    BY <1>3 DEF IInv, TypeOK, ManagerInv, Live, LoopInv, CallInv, StartInv,
        StopComplete, CompleteStop, LoopDone
  <2>5. CallInv'
    BY <1>3 DEF IInv, TypeOK, CallInv, StopComplete, CompleteStop, LoopDone
  <2>6. ~panic'
    BY <1>3 DEF IInv, TypeOK, ManagerInv, StopComplete, CompleteStop,
        LoopDone
  <2>7. FlowInv'
    BY <1>3 DEF IInv, FlowInv, OpenStreamIsServed, StopComplete,
        CompleteStop, LoopDone
  <2> QED BY <2>1, <2>2, <2>3, <2>4, <2>5, <2>6, <2>7 DEF IInv
<1>4. CASE StopOvertaken
  <2>1. TypeOK'
    BY <1>4 DEF IInv, TypeOK, StopOvertaken
  <2>2. CallInv'
    BY <1>4 DEF IInv, TypeOK, CallInv, StopOvertaken
  <2>3. StartInv' /\ LoopInv' /\ ManagerInv' /\ FlowInv' /\ ~panic'
    BY <1>4 DEF IInv, StartInv, LoopInv, ManagerInv, FlowInv,
        OpenStreamIsServed, Live, StopOvertaken
  <2> QED BY <2>1, <2>2, <2>3 DEF IInv
<1>5. CASE StopJoined
  <2>1. TypeOK'
    BY <1>5 DEF IInv, TypeOK, StopJoined
  <2>2. CallInv'
    BY <1>5 DEF IInv, TypeOK, CallInv, StopJoined
  <2>3. StartInv' /\ LoopInv' /\ ManagerInv' /\ FlowInv' /\ ~panic'
    BY <1>5 DEF IInv, StartInv, LoopInv, ManagerInv, FlowInv,
        OpenStreamIsServed, Live, StopJoined
  <2> QED BY <2>1, <2>2, <2>3 DEF IInv
<1> QED BY <1>1, <1>2, <1>3, <1>4, <1>5 DEF StopStep

(* Shutdown. *)
LEMMA ShutKeepsInv == ASSUME IInv, ShutStep PROVE IInv'
<1> USE EmergencyAssumption DEF Epochs, Run0, manager, runs, calls, flow
<1>1. CASE ShutNothing
  <2>1. TypeOK'
    BY <1>1 DEF IInv, TypeOK, ShutNothing
  <2>2. CallInv'
    BY <1>1 DEF IInv, TypeOK, CallInv, ShutNothing
  <2>3. StartInv' /\ LoopInv' /\ ManagerInv' /\ FlowInv' /\ ~panic'
    BY <1>1 DEF IInv, StartInv, LoopInv, ManagerInv, FlowInv,
        OpenStreamIsServed, Live, ShutNothing
  <2> QED BY <2>1, <2>2, <2>3 DEF IInv
<1>2. CASE ShutRunning
  <2>1. TypeOK'
    <3>1. CASE state = "Running"
      <4>1. quitClosed' \subseteq Run0
        BY <1>2, <3>1 DEF IInv, TypeOK, ShutRunning, CloseQuit
      <4>2. panic' \in BOOLEAN
        BY <1>2, <3>1 DEF ShutRunning, CloseQuit
      <4> QED BY <1>2, <3>1, <4>1, <4>2 DEF IInv, TypeOK, ShutRunning, CloseQuit
    <3>2. CASE state # "Running"
      BY <1>2, <3>2 DEF IInv, TypeOK, ShutRunning
    <3> QED BY <3>1, <3>2
  <2>2. StartInv'
    BY <1>2 DEF IInv, TypeOK, StartInv, ShutRunning, CloseQuit
  <2>3. LoopInv'
    BY <1>2 DEF IInv, TypeOK, LoopInv, ManagerInv, ShutRunning, CloseQuit
  <2>4. ManagerInv'
    <3>1. CASE state = "Running"
      <4>1. epoch \in Nat /\ epoch >= 1 /\ quit = epoch /\ start = "away"
        BY <3>1 DEF IInv, TypeOK, StartInv, ManagerInv
      <4>2. quitClosed' = quitClosed \cup {epoch} /\ quit' = 0 /\ state' = "Cleanup"
        BY <1>2, <3>1, <4>1 DEF ShutRunning, CloseQuit
      <4> QED BY <1>2, <3>1, <4>1, <4>2 DEF IInv, TypeOK, ManagerInv, ShutRunning
    <3>2. CASE state # "Running"
      BY <1>2, <3>2 DEF IInv, TypeOK, StartInv, ManagerInv, Live, ShutRunning
    <3> QED BY <3>1, <3>2
  <2>5. CallInv'
    BY <1>2 DEF IInv, TypeOK, CallInv, ManagerInv, StartInv, ShutRunning,
        CloseQuit
  <2>6. ~panic'
    BY <1>2 DEF IInv, TypeOK, ManagerInv, ShutRunning, CloseQuit
  <2>7. FlowInv'
    BY <1>2 DEF IInv, FlowInv, OpenStreamIsServed, ShutRunning, CloseQuit
  <2> QED BY <2>1, <2>2, <2>3, <2>4, <2>5, <2>6, <2>7 DEF IInv
<1>3. CASE ShutComplete
  <2>1. TypeOK'
    <3>1. stopDoneClosed' \subseteq Run0
      BY <1>3 DEF IInv, TypeOK, ShutComplete, CompleteStop
    <3>2. panic' \in BOOLEAN /\ masked' \in BOOLEAN
      BY <1>3, Zenon DEF ShutComplete, CompleteStop
    <3>3. /\ done' = 0 /\ quit' = 0 /\ stopDone' = 0 /\ state' = "Stopped"
          /\ shut' = "stopped" /\ UNCHANGED <<mu, quitClosed, runs, shutRun, start, stop, stopRun, flow>>
      BY <1>3 DEF ShutComplete, CompleteStop
    <3> QED BY <3>1, <3>2, <3>3 DEF IInv, TypeOK
  <2>2. StartInv'
    BY <1>3 DEF IInv, TypeOK, StartInv, CallInv, ShutComplete, CompleteStop,
        LoopDone
  <2>3. LoopInv'
    BY <1>3 DEF IInv, TypeOK, LoopInv, ManagerInv, CallInv, ShutComplete,
        CompleteStop, LoopDone
  <2>4. ManagerInv'
    BY <1>3 DEF IInv, TypeOK, ManagerInv, Live, LoopInv, CallInv, StartInv,
        ShutComplete, CompleteStop, LoopDone
  <2>5. CallInv'
    BY <1>3 DEF IInv, TypeOK, CallInv, ShutComplete, CompleteStop, LoopDone
  <2>6. ~panic'
    BY <1>3 DEF IInv, TypeOK, ManagerInv, CallInv, ShutComplete,
        CompleteStop, LoopDone
  <2>7. FlowInv'
    BY <1>3 DEF IInv, FlowInv, OpenStreamIsServed, ShutComplete,
        CompleteStop, LoopDone
  <2> QED BY <2>1, <2>2, <2>3, <2>4, <2>5, <2>6, <2>7 DEF IInv
<1>4. CASE Drain
  <2>1. TypeOK'
    BY <1>4 DEF IInv, TypeOK, Drain
  <2>2. CallInv'
    BY <1>4 DEF IInv, TypeOK, CallInv, Drain
  <2>3. StartInv' /\ LoopInv' /\ ManagerInv' /\ FlowInv' /\ ~panic'
    BY <1>4 DEF IInv, StartInv, LoopInv, ManagerInv, FlowInv,
        OpenStreamIsServed, Live, Drain
  <2> QED BY <2>1, <2>2, <2>3 DEF IInv
<1> QED BY <1>1, <1>2, <1>3, <1>4 DEF ShutStep

(* The loop goroutines. *)
LEMMA LoopKeepsInv == ASSUME IInv, NEW e \in Epochs, PublishFlow(e) \/ CloseStep(e) PROVE IInv'
<1> USE EmergencyAssumption DEF Epochs, Run0, manager, runs, calls, flow
<1>1. CASE PublishFlow(e)
  <2>1. TypeOK'
    <3>1. box' \in [Subscribers -> 0..Capacity]
      BY <1>1 DEF IInv, TypeOK, PublishFlow
    <3>2. panic' \in BOOLEAN
      <4>1. CASE channel = NoChannel
        BY <1>1, <4>1 DEF IInv, TypeOK, PublishFlow
      <4>2. CASE channel # NoChannel
        BY <1>1, <4>2, Zenon DEF PublishFlow
      <4> QED BY <4>1, <4>2
    <3> QED BY <1>1, <3>1, <3>2 DEF IInv, TypeOK, PublishFlow
  <2>2. ~panic'
    BY <1>1 DEF IInv, TypeOK, FlowInv, PublishFlow
  <2>3. StartInv' /\ LoopInv' /\ ManagerInv' /\ CallInv' /\ FlowInv'
    BY <1>1 DEF IInv, StartInv, LoopInv, ManagerInv, CallInv, FlowInv,
        OpenStreamIsServed, Live, PublishFlow
  <2> QED BY <2>1, <2>2, <2>3 DEF IInv
<1>2. CASE LoopQuits(e)
  <2>1. TypeOK'
    BY <1>2 DEF IInv, TypeOK, LoopQuits
  <2>2. LoopInv'
    BY <1>2 DEF IInv, TypeOK, LoopInv, LoopQuits
  <2>3. ManagerInv'
    BY <1>2 DEF IInv, TypeOK, ManagerInv, Live, LoopInv, LoopQuits
  <2>4. StartInv' /\ CallInv' /\ FlowInv' /\ ~panic'
    BY <1>2 DEF IInv, StartInv, CallInv, FlowInv, OpenStreamIsServed,
        LoopQuits
  <2> QED BY <2>1, <2>2, <2>3, <2>4 DEF IInv
<1>3. CASE ClosePublisher(e)
  <2>1. TypeOK'
    <3>1. panic' \in BOOLEAN
      BY <1>3, Zenon DEF IInv, TypeOK, ClosePublisher, CloseChannel
    <3> QED BY <1>3, <3>1 DEF IInv, TypeOK, ClosePublisher, CloseChannel
  <2>2. LoopInv'
    BY <1>3 DEF IInv, TypeOK, LoopInv, ClosePublisher, CloseChannel
  <2>3. ManagerInv'
    BY <1>3 DEF IInv, TypeOK, ManagerInv, Live, LoopInv, ClosePublisher,
        CloseChannel
  <2>4. FlowInv'
    BY <1>3 DEF IInv, TypeOK, FlowInv, OpenStreamIsServed, ClosePublisher,
        CloseChannel
  <2>5. ~panic'
    BY <1>3 DEF IInv, TypeOK, FlowInv, ClosePublisher, CloseChannel
  <2>6. StartInv' /\ CallInv'
    BY <1>3 DEF IInv, StartInv, CallInv, ClosePublisher, CloseChannel
  <2> QED BY <2>1, <2>2, <2>3, <2>4, <2>5, <2>6 DEF IInv
<1>4. CASE CleanupPortals(e)
  <2>1. TypeOK'
    BY <1>4 DEF IInv, TypeOK, CleanupPortals
  <2>2. LoopInv'
    BY <1>4 DEF IInv, TypeOK, LoopInv, CleanupPortals
  <2>3. ManagerInv'
    BY <1>4 DEF IInv, TypeOK, ManagerInv, Live, LoopInv, CleanupPortals
  <2>4. StartInv' /\ CallInv' /\ FlowInv' /\ ~panic'
    BY <1>4 DEF IInv, StartInv, CallInv, FlowInv, OpenStreamIsServed,
        CleanupPortals
  <2> QED BY <2>1, <2>2, <2>3, <2>4 DEF IInv
<1>5. CASE CloseDone(e)
  <2>1. TypeOK'
    BY <1>5 DEF IInv, TypeOK, CloseDone
  <2>2. LoopInv'
    BY <1>5 DEF IInv, TypeOK, LoopInv, CloseDone
  <2>3. ManagerInv'
    BY <1>5 DEF IInv, TypeOK, ManagerInv, Live, LoopInv, CloseDone
  <2>4. StartInv' /\ CallInv' /\ FlowInv' /\ ~panic'
    BY <1>5 DEF IInv, StartInv, CallInv, FlowInv, OpenStreamIsServed,
        CloseDone
  <2> QED BY <2>1, <2>2, <2>3, <2>4 DEF IInv
<1> QED BY <1>1, <1>2, <1>3, <1>4, <1>5 DEF CloseStep

(* The flow subscribers. *)
LEMMA FlowKeepsInv == ASSUME IInv, NEW s \in Subscribers, Subscribe(s) \/ SubscriberStep(s) PROVE IInv'
<1> USE EmergencyAssumption DEF Epochs, Run0, manager, runs, calls, flow
<1>1. CASE Subscribe(s)
  <2>1. TypeOK'
    <3>1. channel' \in Subscribers \cup {NoChannel} /\ requested' \in BOOLEAN
      BY <1>1 DEF Subscribe
    <3>2. sub' \in [Subscribers -> {"idle", "streaming", "over"}]
      BY <1>1 DEF IInv, TypeOK, Subscribe
    <3>3. subClosed' \subseteq Subscribers
      BY <1>1 DEF IInv, TypeOK, Subscribe, CloseChannel
    <3>4. panic' \in BOOLEAN
      BY <1>1 DEF IInv, TypeOK, Subscribe, CloseChannel
    <3>5. UNCHANGED <<manager, runs, masked, calls, box>>
      BY <1>1 DEF Subscribe
    <3> QED BY <3>1, <3>2, <3>3, <3>4, <3>5 DEF IInv, TypeOK
  <2>2. FlowInv'
    BY <1>1 DEF IInv, TypeOK, FlowInv, OpenStreamIsServed, Subscribe,
        CloseChannel
  <2>3. ~panic'
    BY <1>1 DEF IInv, TypeOK, FlowInv, Subscribe, CloseChannel
  <2>4. StartInv' /\ LoopInv' /\ ManagerInv' /\ CallInv'
    BY <1>1 DEF IInv, StartInv, LoopInv, ManagerInv, CallInv, Live,
        Subscribe, CloseChannel
  <2> QED BY <2>1, <2>2, <2>3, <2>4 DEF IInv
<1>2. CASE Stream(s)
  <2>1. TypeOK'
    BY <1>2 DEF IInv, TypeOK, Stream
  <2>2. StartInv' /\ LoopInv' /\ ManagerInv' /\ CallInv' /\ FlowInv' /\
      ~panic'
    BY <1>2 DEF IInv, StartInv, LoopInv, ManagerInv, CallInv, FlowInv,
        OpenStreamIsServed, Live, Stream
  <2> QED BY <2>1, <2>2 DEF IInv
<1>3. CASE EndStream(s)
  <2>1. TypeOK'
    BY <1>3 DEF IInv, TypeOK, EndStream
  <2>2. FlowInv'
    BY <1>3 DEF IInv, TypeOK, FlowInv, OpenStreamIsServed, EndStream
  <2>3. StartInv' /\ LoopInv' /\ ManagerInv' /\ CallInv' /\ ~panic'
    BY <1>3 DEF IInv, StartInv, LoopInv, ManagerInv, CallInv, Live,
        EndStream
  <2> QED BY <2>1, <2>2, <2>3 DEF IInv
<1> QED BY <1>1, <1>2, <1>3 DEF SubscriberStep

LEMMA NextKeepsInv == ASSUME IInv, [Next]_vars PROVE IInv'
<1>1. CASE Next
  BY <1>1, StartKeepsInv, StopKeepsInv, ShutKeepsInv, LoopKeepsInv, FlowKeepsInv DEF Next
<1>2. CASE UNCHANGED vars
  BY <1>2 DEF vars, manager, runs, calls, flow, IInv, TypeOK, StartInv, LoopInv, ManagerInv,
              CallInv, FlowInv, OpenStreamIsServed, Live
<1> QED BY <1>1, <1>2

LEMMA Invariance == Spec => []IInv
<1>1. Init => IInv
  BY InitInv
<1>2. IInv /\ [Next]_vars => IInv'
  BY NextKeepsInv
<1> QED BY <1>1, <1>2, PTL DEF Spec

-----------------------------------------------------------------------------
(* Every variable keeps its type. *)
THEOREM TypeCorrect == Spec => []TypeOK
<1>1. IInv => TypeOK
  BY DEF IInv
<1> QED BY Invariance, <1>1, PTL

(* The floors carry preference costs exactly while an emergency is not      *)
(* Stopped (completeEmergencyStopLocked, handleEmergencyStart).             *)
THEOREM MasksAreRestored == Spec => []MasksFollowState
<1>1. IInv => MasksFollowState
  BY DEF IInv, StartInv, MasksFollowState
<1> QED BY Invariance, <1>1, PTL

(* Stop, Shutdown, SetFlowPublisher and the end of a loop never close a     *)
(* channel twice, close a nil channel or send to a closed one.              *)
THEOREM ChannelsAreSafe == Spec => []NoPanic
<1>1. IInv => NoPanic
  BY DEF IInv, NoPanic
<1> QED BY Invariance, <1>1, PTL

(* A flow subscriber whose stream is open is the publisher's subscriber.    *)
THEOREM OpenStreamsAreServed == Spec => []OpenStreamIsServed
<1>1. IInv => OpenStreamIsServed
  BY DEF IInv, FlowInv
<1> QED BY Invariance, <1>1, PTL

-----------------------------------------------------------------------------
(* What a Stop can rely on when it is answered.                             *)
LEMMA StopAnswered ==
  ASSUME IInv, [Next]_vars, stop # "away", stop' = "away", stopRun # 0
  PROVE  /\ loop'[stopRun] = "done" /\ stopRun \notin portals'
         /\ stopRun \in stopDoneClosed'
         /\ masked' => epoch' > stopRun \/ start' # "away"
<1> USE EmergencyAssumption DEF manager, runs, calls, flow
<1>1. stopRun \in Epochs /\ epoch \in Nat
  BY DEF IInv, TypeOK, CallInv, Epochs, Run0
<1>2. CASE StopComplete
  <2>1. state = "Stopping" /\ stopRun = epoch /\ stopDone = epoch /\ loop[epoch] = "done"
    BY <1>1, <1>2 DEF StopComplete, LoopDone, IInv, CallInv, ManagerInv
  <2>2. loop' = loop /\ portals' = portals /\ ~masked' /\ stopDoneClosed' = stopDoneClosed \cup {epoch}
    BY <1>1, <1>2, <2>1 DEF StopComplete, CompleteStop, IInv, ManagerInv
  <2> QED BY <1>1, <2>1, <2>2 DEF IInv, LoopInv
<1>3. CASE StopJoined
  <2>1. /\ stopRun \in stopDoneClosed /\ loop' = loop /\ portals' = portals
        /\ masked' = masked /\ epoch' = epoch /\ start' = start
        /\ stopDoneClosed' = stopDoneClosed
    BY <1>3 DEF StopJoined
  <2>2. loop[stopRun] = "done" /\ stopRun \notin portals
    BY <1>1, <2>1 DEF IInv, LoopInv
  <2>3. masked /\ start = "away" => epoch > stopRun
    BY <1>1, <2>1 DEF IInv, StartInv, ManagerInv, CallInv
  <2> QED BY <2>1, <2>2, <2>3
<1>4. ASSUME [Next]_vars, ~StopComplete, ~StopJoined PROVE stop' = stop \/ stop' # "away"
  BY <1>4
     DEF Next, StartStep, StopStep, ShutStep, CloseStep, SubscriberStep, vars,
         BeginStart, ApplyPreferencePaths, FailStart, LaunchLoop, CommitStart,
         StopRunning, StopAgain, StopOvertaken, ShutNothing, ShutRunning,
         ShutComplete, Drain, PublishFlow, LoopQuits, ClosePublisher,
         CleanupPortals, CloseDone, Subscribe, Stream, EndStream
<1> QED BY <1>2, <1>3, <1>4

(* A Stop that found a run is answered only when that run's loop, portals   *)
(* and preference costs are gone (handleEmergencyStop).                     *)
THEOREM StopIsReal == Spec => StopMeansStopped
<1>1. IInv /\ [Next]_vars
        => [stop # "away" /\ stop' = "away" /\ stopRun # 0
              => /\ loop'[stopRun] = "done" /\ stopRun \notin portals'
                 /\ stopRun \in stopDoneClosed'
                 /\ masked' => epoch' > stopRun \/ start' # "away"]_vars
  BY StopAnswered
<1> QED BY Invariance, <1>1, PTL DEF Spec, StopMeansStopped

-----------------------------------------------------------------------------
(* Refinement of EmergencyContract.                                         *)

LEMMA ContractInit == ASSUME Init PROVE Contract!Init
BY DEF Init, Contract!Init, Live, Epochs

(* A step that moves no loop to or from its end, and leaves the costs.      *)
LEMMA ContractStutter ==
  ASSUME masked' = masked, Live' = Live PROVE UNCHANGED Contract!contractVars
BY DEF Contract!contractVars

LEMMA ContractStep == ASSUME IInv, [Next]_vars PROVE [Contract!Next]_(Contract!contractVars)
<1> USE EmergencyAssumption DEF manager, runs, calls, flow
<1>1. CASE ApplyPreferencePaths
  <2>1. Live = {} /\ Live' = {} /\ ~masked /\ masked' = TRUE
    BY <1>1 DEF ApplyPreferencePaths, IInv, StartInv, ManagerInv, Live
  <2> QED BY <2>1 DEF Contract!Next, Contract!Prefer
<1>2. CASE FailStart
  <2>1. Live = {} /\ Live' = {} /\ masked /\ masked' = FALSE
    BY <1>2 DEF FailStart, IInv, StartInv, ManagerInv, Live
  <2> QED BY <2>1 DEF Contract!Next, Contract!Restore
<1>3. CASE LaunchLoop
  <2>1. Live = {} /\ masked /\ masked' = masked
    BY <1>3 DEF LaunchLoop, IInv, StartInv, ManagerInv
  <2>2. epoch + 1 \in Epochs
    BY <1>3 DEF LaunchLoop, IInv, TypeOK, StartInv, Epochs, Run0
  <2>3. Live' = {epoch + 1}
    BY <1>3, <2>1, <2>2 DEF LaunchLoop, IInv, TypeOK, Live
  <2> QED BY <2>1, <2>2, <2>3 DEF Contract!Next, Contract!Launch
<1>4. ASSUME NEW e \in Epochs, CloseDone(e) PROVE Contract!Next
  <2>1. e \in Live /\ Live' = Live \ {e} /\ masked' = masked
    BY <1>4 DEF CloseDone, IInv, TypeOK, Live
  <2> QED BY <2>1 DEF Contract!Next, Contract!Finish
<1>5. CASE StopComplete \/ ShutComplete
  <2>1. epoch \in Epochs /\ loop[epoch] = "done"
    BY <1>5 DEF StopComplete, ShutComplete, LoopDone, IInv, TypeOK, ManagerInv, CallInv,
                Epochs, Run0
  <2>2. Live = {}
    BY <2>1 DEF IInv, TypeOK, LoopInv, Live, Epochs, Run0
  <2>3. Live' = {} /\ masked /\ masked' = FALSE
    BY <1>5, <2>2 DEF StopComplete, ShutComplete, CompleteStop, IInv, StartInv, ManagerInv,
                      CallInv, Live
  <2> QED BY <2>2, <2>3 DEF Contract!Next, Contract!Restore
<1>6. CASE \/ BeginStart \/ CommitStart \/ StopRunning \/ StopAgain \/ StopOvertaken
           \/ StopJoined \/ ShutNothing \/ ShutRunning \/ Drain
           \/ \E e \in Epochs : PublishFlow(e)
           \/ \E s \in Subscribers : Subscribe(s) \/ SubscriberStep(s)
           \/ UNCHANGED vars
  <2>1. masked' = masked /\ loop' = loop
    BY <1>6 DEF BeginStart, CommitStart, StopRunning, StopAgain, StopOvertaken, StopJoined,
                ShutNothing, ShutRunning, Drain, PublishFlow, Subscribe, SubscriberStep,
                Stream, EndStream, vars
  <2>2. Live' = Live
    BY <2>1 DEF Live
  <2> QED BY <2>1, <2>2, ContractStutter
<1>7. ASSUME NEW e \in Epochs, LoopQuits(e) \/ ClosePublisher(e) \/ CleanupPortals(e)
      PROVE  UNCHANGED Contract!contractVars
  <2>1. masked' = masked /\ Live' = Live
    BY <1>7 DEF LoopQuits, ClosePublisher, CleanupPortals, IInv, TypeOK, Live
  <2> QED BY <2>1, ContractStutter
<1> QED BY <1>1, <1>2, <1>3, <1>4, <1>5, <1>6, <1>7
        DEF Next, StartStep, StopStep, ShutStep, CloseStep

(* Runs never overlap, a flow field is computed on preferred costs only,    *)
(* and the costs are restored between runs.                                 *)
THEOREM Refinement == Spec => ImplementsContract
<1>1. Init => Contract!Init
  BY ContractInit
<1>2. IInv /\ [Next]_vars => [Contract!Next]_(Contract!contractVars)
  BY ContractStep
<1> QED BY Invariance, <1>1, <1>2, PTL DEF Spec, ImplementsContract, Contract!Spec
=============================================================================
