----------------------------- MODULE PathStream ------------------------------
(* The paths of a run that are watched from outside: the run publishes     *)
(* snapshots to a channel (agent_comm.go), a goroutine of the service      *)
(* takes them from there and sends them in chunks to the client's inbox    *)
(* (handlers.go), and the client puts them together again                  *)
(* (pkg/snapshotstream, pkg/pathfinding).                                  *)
EXTENDS Integers, Sequences, FiniteSets
LOCAL INSTANCE SequencesExt

CONSTANTS
  Subs,           \* calls of AgentPathSub
  Capacity,       \* of a channel: the number of floors
  InboxSize,      \* of a client's inbox
  Sizes,          \* numbers of chunks of a snapshot; 0: one message without chunks
  MaxSnapshots,   \* bound: snapshots a run takes
  None

ASSUME PathStreamAssumption ==
  /\ Capacity \in Nat \ {0} /\ InboxSize \in Nat \ {0}
  /\ Sizes \subseteq Nat /\ MaxSnapshots \in Nat
  /\ None \notin Subs /\ None \notin Nat \X Nat

VARIABLES
  run,        \* the run: planning (before its first path), moving, ended
  cancelled,  \* its context is done
  publisher,  \* pathPublisher, by the subscription that reads the channel
  requested,  \* publishRequested
  pending,    \* the snapshot that publishPath, with publishMu, is sending and where
  taken,      \* bound: snapshots taken
  buffer,     \* the snapshots in each channel
  closed,     \* the channels that are closed
  server,     \* the goroutine of each subscription
  payloads,   \* what it still has to publish of a snapshot
  snapshotSeq,
  inbox,      \* the messages on their way to a client
  client,     \* where AgentPathSub and its goroutine are
  assembler,
  shown,      \* the snapshots that the caller was given, as sets of parts
  spoiled,    \* history: those that have lost a part of the snapshot being sent
  doneLost,   \* history: those that have lost the last message
  intact      \* history: the snapshots all of whose parts reached the inbox

runVars == <<run, cancelled, taken>>
publishVars == <<publisher, requested, pending, closed>>
clientVars == <<client, assembler, shown>>
deliveries == <<inbox, spoiled, doneLost, intact>>
vars == <<runVars, publishVars, buffer, server, payloads, snapshotSeq, clientVars, deliveries>>

-----------------------------------------------------------------------------
Assembler == [id |-> 0, count |-> 0, chunks |-> <<>>, received |-> 0]

Init ==
  /\ run = "planning" /\ cancelled = FALSE /\ taken = 0
  /\ publisher = None /\ requested = FALSE /\ pending = None
  /\ closed = {} /\ spoiled = {} /\ doneLost = {}
  /\ buffer = [s \in Subs |-> <<>>] /\ payloads = [s \in Subs |-> <<>>]
  /\ server = [s \in Subs |-> "idle"] /\ client = [s \in Subs |-> "idle"]
  /\ snapshotSeq = 0 /\ inbox = [s \in Subs |-> <<>>]
  /\ assembler = [s \in Subs |-> Assembler]
  /\ shown = [s \in Subs |-> <<>>] /\ intact = [s \in Subs |-> <<>>]

-----------------------------------------------------------------------------
(* The run.                                                                *)

(* publishPath: of the first plan, after a later one, or before a step if  *)
(* publishPathIfRequested has found the request (without publishMu since). *)
TakeSnapshot ==
  /\ publisher = None \/ taken < MaxSnapshots
  /\ requested' = FALSE
  /\ IF publisher = None THEN UNCHANGED <<pending, taken>>
     ELSE /\ pending' = [to |-> publisher, snap |-> taken + 1]
          /\ taken' = taken + 1

FirstPlan == /\ run = "planning" /\ run' = "moving" /\ TakeSnapshot
             /\ UNCHANGED <<cancelled, publisher, closed, buffer, server, payloads, snapshotSeq,
                            clientVars, deliveries>>

PublishAgain == /\ run = "moving" /\ pending = None /\ TakeSnapshot
                /\ UNCHANGED <<run, cancelled, publisher, closed, buffer, server, payloads,
                               snapshotSeq, clientVars, deliveries>>

(* The three cases of the select; a channel with room is sent to at once.  *)
Send ==
  /\ pending # None /\ Len(buffer[pending.to]) < Capacity
  /\ buffer' = [buffer EXCEPT ![pending.to] = Append(@, pending.snap)]
  /\ pending' = None
  /\ UNCHANGED <<runVars, publisher, requested, closed, server, payloads, snapshotSeq,
                 clientVars, deliveries>>

SendCancelled ==
  /\ pending # None /\ cancelled
  /\ closed' = closed \cup {pending.to} /\ publisher' = None /\ pending' = None
  /\ UNCHANGED <<runVars, requested, buffer, server, payloads, snapshotSeq,
                 clientVars, deliveries>>

SendTimesOut ==
  /\ pending # None /\ Len(buffer[pending.to]) = Capacity
  /\ pending' = None
  /\ UNCHANGED <<runVars, publisher, requested, closed, buffer, server, payloads,
                 snapshotSeq, clientVars, deliveries>>

Cancel == /\ run # "ended" /\ ~cancelled /\ cancelled' = TRUE
          /\ UNCHANGED <<run, taken, publishVars, buffer, server, payloads, snapshotSeq, clientVars,
                         deliveries>>

(* destroy: at the goal, after an error or when cancelled; the publisher   *)
(* is left as it is.                                                       *)
End == /\ run = "moving" /\ pending = None
       /\ run' = "ended" /\ cancelled' = TRUE
       /\ UNCHANGED <<taken, publishVars, buffer, server, payloads, snapshotSeq, clientVars, deliveries>>

-----------------------------------------------------------------------------
(* The service. A message that finds the inbox full is dropped, and one    *)
(* that nobody listens to any more.                                        *)

Arrives(s) == client[s] \in {"waiting", "reading"} /\ Len(inbox[s]) < InboxSize

Put(s, m) == inbox' = IF Arrives(s) THEN [inbox EXCEPT ![s] = Append(@, m)] ELSE inbox

Ok == [type |-> "ok"]
Error == [type |-> "error"]
Done == [type |-> "done"]

(* handleAgentPathSub: the agent is moving, or it is not.                  *)
Accept(s) ==
  /\ server[s] = "asked" /\ run # "ended"
  /\ server' = [server EXCEPT ![s] = "accepted"]
  /\ UNCHANGED <<runVars, publishVars, buffer, payloads, snapshotSeq, clientVars, deliveries>>

Refuse(s) ==
  /\ server[s] = "asked" /\ run = "ended"
  /\ server' = [server EXCEPT ![s] = "gone"]
  /\ Put(s, Error)
  /\ UNCHANGED <<runVars, publishVars, buffer, payloads, snapshotSeq, clientVars, spoiled, doneLost, intact>>

\* Mutant: publishMu is not taken.
SetPathPublisherUnlocked(s) ==
  /\ server[s] = "accepted"
  /\ server' = [server EXCEPT ![s] = "installed"]
  /\ closed' = closed \cup ({publisher} \ {None})
  /\ publisher' = s /\ requested' = TRUE
  /\ UNCHANGED <<runVars, pending, buffer, payloads, snapshotSeq, clientVars, deliveries>>

\* Mutant: the channel that is replaced stays open.
SetPathPublisherOver(s) ==
  /\ server[s] = "accepted" /\ pending = None
  /\ server' = [server EXCEPT ![s] = "installed"]
  /\ publisher' = s /\ requested' = TRUE
  /\ UNCHANGED <<runVars, pending, closed, buffer, payloads, snapshotSeq, clientVars, deliveries>>

(* SetPathPublisher, with publishMu.                                       *)
SetPathPublisher(s) ==
  /\ server[s] = "accepted" /\ pending = None
  /\ server' = [server EXCEPT ![s] = "installed"]
  /\ closed' = closed \cup ({publisher} \ {None})
  /\ publisher' = s /\ requested' = TRUE
  /\ UNCHANGED <<runVars, pending, buffer, payloads, snapshotSeq, clientVars, deliveries>>

Confirm(s) ==
  /\ server[s] = "installed"
  /\ server' = [server EXCEPT ![s] = "serving"]
  /\ Put(s, Ok)
  /\ UNCHANGED <<runVars, publishVars, buffer, payloads, snapshotSeq, clientVars, spoiled, doneLost, intact>>

(* The goroutine gives up; its channel stays with the run, unread.         *)
ConfirmFails(s) ==
  /\ server[s] = "installed"
  /\ server' = [server EXCEPT ![s] = "gone"]
  /\ UNCHANGED <<runVars, publishVars, buffer, payloads, snapshotSeq, clientVars, deliveries>>

(* MarshalSnapshot; id is that of the snapshot if it is cut.               *)
Marshal(v, n, id) ==
  IF n = 0 THEN <<[type |-> "cells", snap |-> v]>>
  ELSE [i \in 1..n |-> [type |-> "chunk", id |-> id, index |-> i - 1, count |-> n, snap |-> v]]

Receive(s) == \E n \in Sizes :
  /\ server[s] = "serving" /\ payloads[s] = <<>> /\ buffer[s] # <<>>
  /\ buffer' = [buffer EXCEPT ![s] = Tail(@)]
  /\ snapshotSeq' = IF n = 0 THEN snapshotSeq ELSE snapshotSeq + 1
  /\ payloads' = [payloads EXCEPT ![s] = Marshal(Head(buffer[s]), n, snapshotSeq')]
  /\ spoiled' = spoiled \ {s}
  /\ UNCHANGED <<runVars, publishVars, server, clientVars, inbox, doneLost, intact>>

(* What a snapshot consists of, by any one of its messages.                *)
Parts(m) == IF m.type = "cells" THEN {<<m.snap, 0>>} ELSE {<<m.snap, i>> : i \in 0..m.count - 1}

PublishPayload(s) ==
  LET m == Head(payloads[s]) IN
  /\ payloads[s] # <<>>
  /\ payloads' = [payloads EXCEPT ![s] = Tail(@)]
  /\ Put(s, m)
  /\ spoiled' = IF Arrives(s) THEN spoiled ELSE spoiled \cup {s}
  /\ intact' = IF Len(payloads[s]) = 1 /\ s \notin spoiled' THEN [intact EXCEPT ![s] = Append(@, Parts(m))]
               ELSE intact
  /\ UNCHANGED <<runVars, publishVars, buffer, server, snapshotSeq, clientVars, doneLost>>

(* The rest of the snapshot is given up.                                   *)
PublishFails(s) ==
  /\ payloads[s] # <<>>
  /\ payloads' = [payloads EXCEPT ![s] = <<>>]
  /\ UNCHANGED <<runVars, publishVars, buffer, server, snapshotSeq, clientVars, deliveries>>

(* The channel is closed and empty, or the run has ended.                  *)
MayFinish(s) == /\ server[s] = "serving" /\ payloads[s] = <<>>
                /\ (s \in closed /\ buffer[s] = <<>>) \/ run = "ended"

Finish(s) ==
  /\ MayFinish(s)
  /\ server' = [server EXCEPT ![s] = "gone"]
  /\ Put(s, Done)
  /\ doneLost' = IF Arrives(s) THEN doneLost ELSE doneLost \cup {s}
  /\ UNCHANGED <<runVars, publishVars, buffer, payloads, snapshotSeq, clientVars, spoiled, intact>>

(* The last message is not published, and the goroutine ends all the same. *)
FinishFails(s) ==
  /\ MayFinish(s)
  /\ server' = [server EXCEPT ![s] = "gone"]
  /\ doneLost' = doneLost \cup {s}
  /\ UNCHANGED <<runVars, publishVars, buffer, payloads, snapshotSeq, clientVars, inbox, spoiled, intact>>

-----------------------------------------------------------------------------
(* The client.                                                             *)

AgentPathSub(s) ==
  /\ client[s] = "idle"
  /\ client' = [client EXCEPT ![s] = "waiting"]
  /\ server' = [server EXCEPT ![s] = "asked"]
  /\ UNCHANGED <<runVars, publishVars, buffer, payloads, snapshotSeq, assembler, shown, deliveries>>

Handshake(s) ==
  /\ client[s] = "waiting" /\ inbox[s] # <<>>
  /\ client' = [client EXCEPT ![s] = IF Head(inbox[s]) = Error THEN "refused" ELSE "reading"]
  /\ inbox' = [inbox EXCEPT ![s] = Tail(@)]
  /\ UNCHANGED <<runVars, publishVars, buffer, server, payloads, snapshotSeq, assembler, shown,
                 spoiled, doneLost, intact>>

(* The context of the caller is done before the answer.                    *)
GiveUp(s) ==
  /\ client[s] = "waiting"
  /\ client' = [client EXCEPT ![s] = "refused"]
  /\ UNCHANGED <<runVars, publishVars, buffer, server, payloads, snapshotSeq, assembler, shown, deliveries>>

\* Mutant: the chunks of an unfinished snapshot are kept.
StartedKeeping(a, m) == IF a.id = m.id THEN a ELSE [a EXCEPT !.id = m.id, !.count = m.count,
                                                    !.chunks = [i \in 0..m.count - 1 |->
                                                       IF i \in DOMAIN a.chunks THEN a.chunks[i] ELSE None]]

(* Assembler.Add: a chunk of another snapshot starts that one.             *)
Started(a, m) == IF a.id = m.id THEN a
                 ELSE [id |-> m.id, count |-> m.count, received |-> 0,
                       chunks |-> [i \in 0..m.count - 1 |-> None]]

Added(a, m) == LET b == Started(a, m) IN
  IF b.chunks[m.index] # None THEN b
  ELSE [b EXCEPT !.chunks[m.index] = <<m.snap, m.index>>, !.received = @ + 1]

Ready(a) == a.received = a.count /\ \A i \in DOMAIN a.chunks : a.chunks[i] # None

(* The goroutine of AgentPathSub. The caller may be slow to take a         *)
(* snapshot, and with it the goroutine.                                    *)
ReadChunk(s, m) == LET a == Added(assembler[s], m) IN
  /\ assembler' = [assembler EXCEPT ![s] = IF Ready(a) THEN Assembler ELSE a]
  /\ shown' = IF Ready(a) THEN [shown EXCEPT ![s] = Append(@, {a.chunks[i] : i \in DOMAIN a.chunks})]
              ELSE shown
  /\ UNCHANGED client

ReadCells(s, m) == /\ shown' = [shown EXCEPT ![s] = Append(@, Parts(m))]
                   /\ UNCHANGED <<client, assembler>>

ReadDone(s) == /\ client' = [client EXCEPT ![s] = "closed"]
               /\ UNCHANGED <<assembler, shown>>

Read(s) ==
  LET m == Head(inbox[s]) IN
  /\ client[s] = "reading" /\ inbox[s] # <<>>
  /\ inbox' = [inbox EXCEPT ![s] = Tail(@)]
  /\ \/ m.type = "chunk" /\ ReadChunk(s, m)
     \/ m.type = "cells" /\ ReadCells(s, m)
     \/ m.type = "done" /\ ReadDone(s)
  /\ UNCHANGED <<runVars, publishVars, buffer, server, payloads, snapshotSeq, spoiled, doneLost, intact>>

-----------------------------------------------------------------------------
Publishing == Send \/ SendCancelled \/ SendTimesOut
Serving(s) == \/ SetPathPublisher(s) \/ Confirm(s) \/ ConfirmFails(s) \/ Receive(s)
              \/ PublishPayload(s) \/ PublishFails(s) \/ Finish(s) \/ FinishFails(s)
Reading(s) == Handshake(s) \/ Read(s)

Next == \/ FirstPlan \/ PublishAgain \/ Publishing \/ Cancel \/ End
        \/ \E s \in Subs : \/ AgentPathSub(s) \/ Accept(s) \/ Refuse(s) \/ Serving(s)
                           \/ Reading(s) \/ GiveUp(s)

Spec == Init /\ [][Next]_vars

(* The select of publishPath returns, the goroutines go on, and callers    *)
(* take what they are given; nothing makes the run go on or end.           *)
FairSpec == /\ Spec /\ WF_vars(Publishing)
            /\ \A s \in Subs : WF_vars(Serving(s)) /\ WF_vars(Reading(s))

-----------------------------------------------------------------------------
(* Nothing is sent to a closed channel and none is closed twice, whoever   *)
(* replaces whom while the run is publishing, cancelled or ending.         *)
NoClosedChannelIsUsed == /\ publisher # None => publisher \notin closed
                         /\ pending # None => pending.to \notin closed

(* The caller is given exactly the snapshots that have come through in     *)
(* full, in their order, each put together from its own parts, whatever    *)
(* chunks of others were lost.                                             *)
SnapshotsAreWhole ==
  \A s \in Subs : /\ IsPrefix(shown[s], intact[s])
                  /\ client[s] = "closed" => shown[s] = intact[s]

(* A stream that was replaced or whose run has ended is closed at the      *)
(* client, unless the last message was lost on the way.                    *)
StreamsEnd ==
  \A s \in Subs : (server[s] = "serving" /\ (publisher # s \/ run = "ended"))
                    ~> (client[s] \in {"closed", "refused"} \/ s \in doneLost)
=============================================================================
