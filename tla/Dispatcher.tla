----------------------------- MODULE Dispatcher -----------------------------
(***************************************************************************)
(* The session table of the service: which run serves which agent, what is *)
(* kept of a run after its end, and how shutdown closes the table.         *)
(*                                                                         *)
(* Every AgentFindPath request is a goroutine of its own and makes at most *)
(* one run; a run is named by its request.  Of the run itself only what    *)
(* AgentRun promises is used: it may end by itself, and it ends once it is *)
(* cancelled.  Clients call the handlers that look a session up.           *)
(***************************************************************************)
EXTENDS Integers, FiniteSets

CONSTANTS Runs,     \* AgentFindPath requests, and the runs they make
          Ids,      \* agent identifiers
          Clients,  \* clients that query or terminate sessions
          TTL,      \* resultTTL
          MaxTime,  \* bound on the clock
          NoRun     \* the nil communicator

ASSUME DispatcherAssumption == /\ NoRun \notin Runs /\ Ids # {}
                               /\ TTL \in Nat /\ MaxTime \in Nat

VARIABLES
  state,      \* dispatcherState
  tab,        \* active communicator of each id
  results,    \* completedAgentResults
  timers,     \* pending AfterFuncs of completeComm
  now,        \* the clock
  stage,      \* where the request, and then the completion goroutine, of each run is
  id,         \* agent of each request
  prev,       \* run that the request replaced
  expiry,     \* expiresAt computed by completeComm
  life,       \* the communicator: none, live, ended
  cancelled,  \* its context is done
  err,        \* its exit error
  shutdown,   \* where Shutdown is
  comms,      \* communicators in the table when Shutdown began
  todo,       \* those it has still to terminate
  aim,        \* the one it saw moving and is about to terminate
  client,     \* where each client is
  answer,     \* what the last lookup answered
  (* history, read by the properties only *)
  latest,     \* run registered last for each id
  absent,     \* the client's id was neither active nor retained at some moment of its lookup
  renewed     \* the client's id was registered anew during its lookup

table    == <<state, tab, results, timers, latest>>
request  == <<stage, id, prev, expiry>>
comm     == <<life, cancelled, err>>
stopping == <<shutdown, comms, todo, aim>>
lookups  == <<client, answer>>
vars     == <<table, now, request, comm, stopping, lookups, absent, renewed>>

Nothing == [run |-> NoRun, err |-> "nil", at |-> 0]
Away    == [at |-> "away", id |-> CHOOSE i \in Ids : TRUE, run |-> NoRun]

Init == /\ state = "Running"
        /\ tab = [i \in Ids |-> NoRun]
        /\ results = [i \in Ids |-> Nothing]
        /\ timers = {} /\ now = 0
        /\ stage = [r \in Runs |-> "unborn"]
        /\ id \in [Runs -> Ids]
        /\ prev = [r \in Runs |-> NoRun]
        /\ expiry = [r \in Runs |-> 0]
        /\ life = [r \in Runs |-> "none"]
        /\ cancelled = [r \in Runs |-> FALSE]
        /\ err = [r \in Runs |-> "nil"]
        /\ shutdown = "up" /\ comms = {} /\ todo = {} /\ aim = NoRun
        /\ client = [c \in Clients |-> Away]
        /\ answer = [c \in Clients |-> "none"]
        /\ latest = [i \in Ids |-> NoRun]
        /\ absent = [c \in Clients |-> FALSE]
        /\ renewed = [c \in Clients |-> FALSE]

Looking(c) == client[c].at # "away"

(* Bookkeeping of the lookups in flight, part of every step that changes   *)
(* the table: tb and rs are the new active and retained runs.              *)
Observe(tb, rs) ==
  absent' = [c \in Clients |->
               absent[c] \/ (Looking(c) /\ tb[client[c].id] = NoRun
                                        /\ rs[client[c].id].run = NoRun)]

-----------------------------------------------------------------------------
(* Communicators, as AgentRun describes them.                               *)

SetExitError(r, e) == err' = [err EXCEPT ![r] = IF @ = "nil" THEN e ELSE @]

(* The second half of Terminate, for a caller that saw the run active.      *)
Strike(r) == /\ SetExitError(r, "Terminated")
             /\ cancelled' = [cancelled EXCEPT ![r] = TRUE]
             /\ UNCHANGED life

(* A run reaches its goal, finds no path, or sees its cancelled context.    *)
RunEnds(r) == /\ life[r] = "live"
              /\ life' = [life EXCEPT ![r] = "ended"]
              /\ cancelled' = [cancelled EXCEPT ![r] = TRUE]
              /\ \/ UNCHANGED err
                 \/ SetExitError(r, "NoPath")
              /\ UNCHANGED <<table, now, request, stopping, lookups, absent, renewed>>

-----------------------------------------------------------------------------
(* handleAgentFindPath                                                      *)

Goto(r, s) == stage' = [stage EXCEPT ![r] = s]

FindPath(r) == /\ stage[r] = "unborn"
               /\ Goto(r, IF state = "Running" THEN "asked" ELSE "rejected")
               /\ UNCHANGED <<table, now, id, prev, expiry, comm, stopping, lookups,
                              absent, renewed>>

(* The goal is converted and the planner starts: both may fail.  The run's  *)
(* goroutine exists before the table knows it.                              *)
StartRun(r) == /\ stage[r] = "asked"
               /\ \/ /\ life' = [life EXCEPT ![r] = "live"]
                     /\ Goto(r, "made")
                  \/ /\ UNCHANGED life
                     /\ Goto(r, "rejected")
               /\ UNCHANGED <<table, now, id, prev, expiry, cancelled, err, stopping,
                              lookups, absent, renewed>>

\* Mutant: the run that is replaced is not terminated.
RegisterOver(r) ==
  /\ stage[r] = "made" /\ state = "Running"
  /\ tab' = [tab EXCEPT ![id[r]] = r]
  /\ results' = [results EXCEPT ![id[r]] = Nothing]
  /\ prev' = [prev EXCEPT ![r] = tab[id[r]]]
  /\ Goto(r, "watch")
  /\ latest' = [latest EXCEPT ![id[r]] = r]
  /\ renewed' = [c \in Clients |-> renewed[c] \/ (Looking(c) /\ client[c].id = id[r])]
  /\ UNCHANGED <<state, timers, now, id, expiry, comm, stopping, lookups, absent>>

\* Mutant: the state is not looked at again when the run is registered.
RegisterAnyway(r) ==
  /\ stage[r] = "made"
  /\ tab' = [tab EXCEPT ![id[r]] = r]
  /\ results' = [results EXCEPT ![id[r]] = Nothing]
  /\ prev' = [prev EXCEPT ![r] = tab[id[r]]]
  /\ Goto(r, IF tab[id[r]] = NoRun THEN "watch" ELSE "replace")
  /\ latest' = [latest EXCEPT ![id[r]] = r]
  /\ renewed' = [c \in Clients |-> renewed[c] \/ (Looking(c) /\ client[c].id = id[r])]
  /\ UNCHANGED <<state, timers, now, id, expiry, comm, stopping, lookups, absent>>

(* addCommIfRunning *)
Register(r) ==
  /\ stage[r] = "made" /\ state = "Running"
  /\ tab' = [tab EXCEPT ![id[r]] = r]
  /\ results' = [results EXCEPT ![id[r]] = Nothing]
  /\ prev' = [prev EXCEPT ![r] = tab[id[r]]]
  /\ Goto(r, IF tab[id[r]] = NoRun THEN "watch" ELSE "replace")
  /\ latest' = [latest EXCEPT ![id[r]] = r]
  /\ renewed' = [c \in Clients |-> renewed[c] \/ (Looking(c) /\ client[c].id = id[r])]
  /\ UNCHANGED <<state, timers, now, id, expiry, comm, stopping, lookups, absent>>

Refuse(r) == /\ stage[r] = "made" /\ state # "Running"
             /\ Goto(r, "refuse")
             /\ UNCHANGED <<table, now, id, prev, expiry, comm, stopping, lookups,
                            absent, renewed>>

(* Terminate, first half: IsMoving.  Of a run that has ended nothing is     *)
(* recorded, and its context is done already.                               *)
LookAtTarget(r) ==
  /\ \/ /\ stage[r] = "replace"
        /\ Goto(r, IF life[prev[r]] = "live" THEN "strikePrev" ELSE "watch")
     \/ /\ stage[r] = "refuse"
        /\ Goto(r, IF life[r] = "live" THEN "strikeSelf" ELSE "refused")
  /\ UNCHANGED <<table, now, id, prev, expiry, comm, stopping, lookups, absent, renewed>>

StrikeTarget(r) ==
  /\ \/ stage[r] = "strikePrev" /\ Strike(prev[r]) /\ Goto(r, "watch")
     \/ stage[r] = "strikeSelf" /\ Strike(r) /\ Goto(r, "refused")
  /\ UNCHANGED <<table, now, id, prev, expiry, stopping, lookups, absent, renewed>>

(* A refused run has ended before the client hears of the refusal.          *)
AnswerRefused(r) == /\ stage[r] = "refused" /\ life[r] = "ended"
                    /\ Goto(r, "rejected")
                    /\ UNCHANGED <<table, now, id, prev, expiry, comm, stopping, lookups,
                                   absent, renewed>>

-----------------------------------------------------------------------------
(* The completion goroutine: <-done, then completeComm.                     *)

StampExpiry(r) == /\ stage[r] = "watch" /\ life[r] = "ended"
                  /\ expiry' = [expiry EXCEPT ![r] = now + TTL]
                  /\ Goto(r, "complete")
                  /\ UNCHANGED <<table, now, id, prev, comm, stopping, lookups,
                                 absent, renewed>>

CompleteComm(r) ==
  /\ stage[r] = "complete" /\ tab[id[r]] = r
  /\ tab' = [tab EXCEPT ![id[r]] = NoRun]
  /\ results' = [results EXCEPT ![id[r]] = [run |-> r, err |-> err[r], at |-> expiry[r]]]
  /\ Goto(r, "arm")
  /\ UNCHANGED <<state, timers, latest, now, id, prev, expiry, comm, stopping, lookups,
                 absent, renewed>>

(* A newer run, or shutdown, owns the entry. *)
SkipComplete(r) == /\ stage[r] = "complete" /\ tab[id[r]] # r
                   /\ Goto(r, "closed")
                   /\ UNCHANGED <<table, now, id, prev, expiry, comm, stopping, lookups,
                                  absent, renewed>>

ArmTimer(r) ==
  /\ stage[r] = "arm"
  /\ timers' = timers \cup {[id |-> id[r], run |-> r, at |-> expiry[r], due |-> now + TTL]}
  /\ Goto(r, "closed")
  /\ UNCHANGED <<state, tab, results, latest, now, id, prev, expiry, comm, stopping,
                 lookups, absent, renewed>>

\* Mutant: the timer deletes whatever result it finds.
TimerFiresBlindly(t) ==
  /\ now >= t.due
  /\ timers' = timers \ {t}
  /\ results' = [results EXCEPT ![t.id] = Nothing]
  /\ Observe(tab, results')
  /\ UNCHANGED <<state, tab, latest, now, request, comm, stopping, lookups, renewed>>

(* The timer deletes a result only if it carries the timer's own expiry.    *)
TimerFires(t) ==
  /\ now >= t.due
  /\ timers' = timers \ {t}
  /\ IF results[t.id].run # NoRun /\ results[t.id].at = t.at
     THEN results' = [results EXCEPT ![t.id] = Nothing]
     ELSE UNCHANGED results
  /\ Observe(tab, results')
  /\ UNCHANGED <<state, tab, latest, now, request, comm, stopping, lookups, renewed>>

Tick == /\ now < MaxTime
        /\ now' = now + 1
        /\ UNCHANGED <<table, request, comm, stopping, lookups, absent, renewed>>

-----------------------------------------------------------------------------
(* stopActiveAgents                                                         *)

BeginShutdown == /\ shutdown = "up"
                 /\ state' = "ShuttingDown"
                 /\ comms' = {tab[i] : i \in Ids} \ {NoRun}
                 /\ todo' = comms'
                 /\ shutdown' = "terminate"
                 /\ UNCHANGED <<tab, results, timers, latest, now, request, comm, aim,
                                lookups, absent, renewed>>

\* Mutant: runs of the snapshot are passed over.
LookAtCommNot(r) == /\ shutdown = "terminate" /\ aim = NoRun /\ r \in todo
                    /\ aim' = NoRun
                    /\ todo' = todo \ {r}
                    /\ UNCHANGED <<table, now, request, comm, shutdown, comms, lookups, absent, renewed>>

LookAtComm(r) == /\ shutdown = "terminate" /\ aim = NoRun /\ r \in todo
                 /\ aim' = IF life[r] = "live" THEN r ELSE NoRun
                 /\ todo' = todo \ {r}
                 /\ UNCHANGED <<table, now, request, comm, shutdown, comms, lookups,
                                absent, renewed>>

StrikeComm == /\ shutdown = "terminate" /\ aim # NoRun
              /\ Strike(aim)
              /\ aim' = NoRun
              /\ UNCHANGED <<table, now, request, shutdown, comms, todo, lookups,
                             absent, renewed>>

(* Every communicator of the snapshot has closed its completion channel.    *)
JoinComms == /\ shutdown = "terminate" /\ todo = {} /\ aim = NoRun
             /\ \A r \in comms : life[r] = "ended"
             /\ shutdown' = "clear"
             /\ UNCHANGED <<table, now, request, comm, comms, todo, aim, lookups,
                            absent, renewed>>

ClearTables == /\ shutdown = "clear"
               /\ tab' = [i \in Ids |-> NoRun]
               /\ results' = [i \in Ids |-> Nothing]
               /\ state' = "Stopped"
               /\ shutdown' = "done"
               /\ Observe(tab', results')
               /\ UNCHANGED <<timers, latest, now, request, comm, comms, todo, aim,
                              lookups, renewed>>

-----------------------------------------------------------------------------
(* Handlers that look a session up.  dispatch and completedExitError each   *)
(* take the lock for themselves.                                            *)

Answer(c, a) == /\ answer' = [answer EXCEPT ![c] = a]
                /\ client' = [client EXCEPT ![c] = Away]

BeginLookup(c, at) ==
  /\ ~Looking(c)
  /\ \E i \in Ids :
       /\ client' = [client EXCEPT ![c] = [at |-> at, id |-> i, run |-> NoRun]]
       /\ absent' = [absent EXCEPT ![c] = tab[i] = NoRun /\ results[i].run = NoRun]
  /\ renewed' = [renewed EXCEPT ![c] = FALSE]
  /\ answer' = [answer EXCEPT ![c] = "none"]
  /\ UNCHANGED <<table, now, request, comm, stopping>>

(* handleExitError, handleBlockingWait (and, with other answers,            *)
(* handleIsMoving and handleMoveFMeters) share this lookup.                 *)
AskExitError(c) == BeginLookup(c, "exitError")
AskWait(c)      == BeginLookup(c, "wait")
AskTerminate(c) == BeginLookup(c, "terminate")

Found(c) == tab[client[c].id] # NoRun

(* The step of the handler that uses the communicator it has found. *)
Handling == [exitError |-> "isMoving", wait |-> "join", terminate |-> "look"]

Dispatch(c) ==
  /\ client[c].at \in {"exitError", "wait", "terminate"}
  /\ \/ /\ Found(c)
        /\ client' = [client EXCEPT ![c] = [at  |-> Handling[@.at], id |-> @.id,
                                            run |-> tab[@.id]]]
        /\ UNCHANGED answer
     \/ /\ ~Found(c) /\ client[c].at # "terminate"
        /\ client' = [client EXCEPT ![c].at =
                        IF @ = "wait" THEN "waitRetained" ELSE "retained"]
        /\ UNCHANGED answer
     \/ /\ ~Found(c) /\ client[c].at = "terminate"
        /\ Answer(c, "NotActive")
  /\ UNCHANGED <<table, now, request, comm, stopping, absent, renewed>>

\* Mutant: a retained nil error is taken for no result.
RetainedNonNil(c) ==
  /\ client[c].at \in {"retained", "waitRetained"}
  /\ LET res == results[client[c].id]
     IN  Answer(c, IF res.err = "nil" THEN "NotFound"
                   ELSE IF client[c].at = "retained" THEN res.err ELSE "over")
  /\ UNCHANGED <<table, now, request, comm, stopping, absent, renewed>>

(* completedExitError *)
Retained(c) ==
  /\ client[c].at \in {"retained", "waitRetained"}
  /\ LET res == results[client[c].id]
     IN  Answer(c, IF res.run = NoRun THEN "NotFound"
                   ELSE IF client[c].at = "retained" THEN res.err ELSE "over")
  /\ UNCHANGED <<table, now, request, comm, stopping, absent, renewed>>

AskIsMoving(c) == /\ client[c].at = "isMoving"
                  /\ IF life[client[c].run] = "live"
                     THEN Answer(c, "StillRunning")
                     ELSE /\ client' = [client EXCEPT ![c].at = "readErr"]
                          /\ UNCHANGED answer
                  /\ UNCHANGED <<table, now, request, comm, stopping, absent, renewed>>

ReadErr(c) == /\ client[c].at = "readErr"
              /\ Answer(c, err[client[c].run])
              /\ UNCHANGED <<table, now, request, comm, stopping, absent, renewed>>

Join(c) == /\ client[c].at = "join" /\ life[client[c].run] = "ended"
           /\ Answer(c, "over")
           /\ UNCHANGED <<table, now, request, comm, stopping, absent, renewed>>

(* handleTerminate *)
LookAtActive(c) == /\ client[c].at = "look"
                   /\ IF life[client[c].run] = "live"
                      THEN /\ client' = [client EXCEPT ![c].at = "strike"]
                           /\ UNCHANGED answer
                      ELSE Answer(c, "ok")
                   /\ UNCHANGED <<table, now, request, comm, stopping, absent, renewed>>

StrikeActive(c) == /\ client[c].at = "strike"
                   /\ Strike(client[c].run)
                   /\ Answer(c, "ok")
                   /\ UNCHANGED <<table, now, request, stopping, absent, renewed>>

-----------------------------------------------------------------------------
FindPathStep(r) == \/ FindPath(r) \/ StartRun(r) \/ Register(r) \/ Refuse(r)
                   \/ LookAtTarget(r) \/ StrikeTarget(r) \/ AnswerRefused(r)

CompletionStep(r) == StampExpiry(r) \/ CompleteComm(r) \/ SkipComplete(r) \/ ArmTimer(r)

ShutdownStep == \/ \E r \in Runs : LookAtComm(r)
                \/ StrikeComm \/ JoinComms \/ ClearTables

LookupStep(c) == \/ Dispatch(c) \/ Retained(c) \/ AskIsMoving(c) \/ ReadErr(c)
                 \/ Join(c) \/ LookAtActive(c) \/ StrikeActive(c)

Next == \/ \E r \in Runs : FindPathStep(r) \/ CompletionStep(r) \/ RunEnds(r)
        \/ \E t \in timers : TimerFires(t)
        \/ Tick
        \/ BeginShutdown \/ ShutdownStep
        \/ \E c \in Clients : \/ AskExitError(c) \/ AskWait(c) \/ AskTerminate(c)
                              \/ LookupStep(c)

Spec == Init /\ [][Next]_vars

(* A request that arrives, and shutdown once begun, are executed; a        *)
(* cancelled run ends (AgentComm, CancelledRunEnds).  Nothing obliges a    *)
(* run to end by itself, a request to arrive, a client to ask or the       *)
(* service to stop.                                                        *)
Fairness == /\ \A r \in Runs : /\ WF_vars(stage[r] # "unborn" /\ FindPathStep(r))
                               /\ WF_vars(cancelled[r] /\ RunEnds(r))
            /\ WF_vars(ShutdownStep)

FairSpec == Spec /\ Fairness

-----------------------------------------------------------------------------
MaybeRun == Runs \cup {NoRun}
ExitErrors == {"nil", "Terminated", "NoPath"}
Stages == {"unborn", "asked", "made", "replace", "strikePrev", "refuse", "strikeSelf",
           "refused", "rejected", "watch", "complete", "arm", "closed"}
Places == {"away", "exitError", "wait", "terminate", "isMoving", "readErr", "retained",
           "waitRetained", "join", "look", "strike"}

Answers == ExitErrors \cup {"none", "StillRunning", "NotFound", "NotActive", "over", "ok"}

(* Every variable has its type. *)
TypeOK ==
  /\ state \in {"Running", "ShuttingDown", "Stopped"}
  /\ tab \in [Ids -> MaybeRun] /\ latest \in [Ids -> MaybeRun]
  /\ results \in [Ids -> [run : MaybeRun, err : ExitErrors, at : Nat]]
  /\ timers \subseteq [id : Ids, run : Runs, at : Nat, due : Nat]
  /\ now \in Nat
  /\ stage \in [Runs -> Stages] /\ id \in [Runs -> Ids]
  /\ prev \in [Runs -> MaybeRun] /\ expiry \in [Runs -> Nat]
  /\ life \in [Runs -> {"none", "live", "ended"}]
  /\ cancelled \in [Runs -> BOOLEAN] /\ err \in [Runs -> ExitErrors]
  /\ shutdown \in {"up", "terminate", "clear", "done"}
  /\ comms \subseteq Runs /\ todo \subseteq Runs /\ aim \in MaybeRun
  /\ client \in [Clients -> [at : Places, id : Ids, run : MaybeRun]]
  /\ answer \in [Clients -> Answers]
  /\ absent \in [Clients -> BOOLEAN] /\ renewed \in [Clients -> BOOLEAN]

(* A goroutine is on its way to terminate run r. *)
Targeted(r) == \/ stage[r] \in {"refuse", "strikeSelf"}
               \/ \E s \in Runs : stage[s] \in {"replace", "strikePrev"} /\ prev[s] = r

(* No run escapes: one that is live and not cancelled is the active run of *)
(* its agent, is about to be registered, or is about to be terminated by   *)
(* the request that replaced it or whose registration was refused          *)
(* (handleAgentFindPath, addCommIfRunning, stopActiveAgents).              *)
NoOrphanRun == \A r \in Runs : life[r] = "live" /\ ~cancelled[r] =>
                 tab[id[r]] = r \/ stage[r] = "made" \/ Targeted(r)

(* What is retained for an agent is the end of its latest run, never of an *)
(* earlier one that completed late, and never beside an active run.        *)
ResultOfLatestRun == \A i \in Ids : results[i].run # NoRun =>
                       /\ tab[i] = NoRun
                       /\ results[i].run = latest[i]
                       /\ life[results[i].run] = "ended"

Unexpired(r) == /\ stage[r] \in {"arm", "closed"} /\ latest[id[r]] = r
                /\ now < expiry[r] /\ state # "Stopped"

(* The result of an agent's latest run stays available until it expires:   *)
(* no timer of an earlier run takes it away (completeComm's expiry test).  *)
RetainedUntilExpiry == \A r \in Runs : Unexpired(r) => results[id[r]].run = r

(* Nothing enters the tables once shutdown has cleared them, whatever      *)
(* completion goroutine or request was under way.                          *)
StoppedIsEmpty == state = "Stopped" =>
  \A i \in Ids : tab[i] = NoRun /\ results[i].run = NoRun

(* A lookup answers NotFound only if at some moment the agent was neither  *)
(* active nor retained, or if it was restarted between the two halves of   *)
(* the lookup.                                                             *)
NotFoundIsJustified == \A c \in Clients :
  answer[c] = "NotFound" => absent[c] \/ renewed[c]

(* What is retained is the end of the latest run, for as long as it should. *)
RetentionIsRight == ResultOfLatestRun /\ RetainedUntilExpiry

(* Shutdown is not under way, every run that was replaced has ended, and   *)
(* every refusal is answered.                                              *)
Settled == /\ shutdown \in {"up", "done"}
           /\ \A r, q \in Runs : prev[r] = q => life[q] = "ended"
           /\ \A r \in Runs : stage[r] \notin {"refuse", "strikeSelf", "refused"}

(* Shutdown completes, a replaced run ends, and so does a run whose         *)
(* registration was refused, before its client hears of it: whatever is     *)
(* asked for, the table settles again (stopActiveAgents,                    *)
(* handleAgentFindPath).                                                    *)
UnwantedRunsEnd == []<>Settled

-----------------------------------------------------------------------------
(* The inductive invariant behind the safety properties: the properties    *)
(* themselves and these parts.                                             *)

(* How far the request has come and what its communicator does.            *)
StageInv == \A r \in Runs :
  /\ stage[r] \in {"unborn", "asked"} => life[r] = "none"
  /\ stage[r] \in {"complete", "arm", "closed"} => life[r] = "ended"
  /\ stage[r] \notin {"unborn", "asked", "rejected"} => life[r] # "none"
  /\ stage[r] = "rejected" => life[r] # "live"
  /\ stage[r] \in {"replace", "strikePrev"} => prev[r] \in Runs
  /\ life[r] = "ended" \/ stage[r] = "refused" => cancelled[r]

Owning == {"replace", "strikePrev", "watch", "complete"}

(* The table holds the latest run of each agent, until its completion.     *)
TabInv == /\ \A i \in Ids : tab[i] # NoRun => /\ id[tab[i]] = i /\ latest[i] = tab[i]
                                              /\ stage[tab[i]] \in Owning
          /\ \A r \in Runs : stage[r] \in Owning /\ latest[id[r]] = r /\ state # "Stopped"
                               => tab[id[r]] = r

(* Shutdown knows every run that is still in the table.                    *)
ShutdownInv == /\ state = "Running" <=> shutdown = "up"
               /\ state = "Stopped" <=> shutdown = "done"
               /\ state # "Running" => \A i \in Ids : tab[i] \in comms \cup {NoRun}
               /\ shutdown = "clear" => \A r \in comms : life[r] = "ended"

(* A timer is due no earlier than the expiry it carries.                   *)
ExpiryInv ==
  /\ \A r \in Runs : stage[r] \in {"complete", "arm"} => expiry[r] <= now + TTL
  /\ \A t \in timers : t.at = expiry[t.run] /\ t.at <= t.due /\ stage[t.run] = "closed"
  /\ \A i \in Ids : results[i].run # NoRun =>
       /\ results[i].at = expiry[results[i].run]
       /\ stage[results[i].run] \in {"arm", "closed"}

(* A lookup that misses the active table finds the result, or else the     *)
(* agent was absent or restarted since the lookup began.                   *)
LookupInv == \A c \in Clients :
  /\ Looking(c) /\ tab[client[c].id] = NoRun /\ results[client[c].id].run = NoRun
       => absent[c]
  /\ client[c].at \in {"retained", "waitRetained"}
       => absent[c] \/ renewed[c] \/ results[client[c].id].run # NoRun
  /\ client[c].at \in {"isMoving", "readErr", "join", "look", "strike"}
       => client[c].run \in Runs

IInv == /\ TypeOK /\ StageInv /\ TabInv /\ ShutdownInv /\ ExpiryInv /\ LookupInv
        /\ NoOrphanRun /\ ResultOfLatestRun /\ RetainedUntilExpiry /\ StoppedIsEmpty
        /\ NotFoundIsJustified

=============================================================================
