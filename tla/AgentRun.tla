------------------------------ MODULE AgentRun ------------------------------
(***************************************************************************)
(* What a pathfinding run promises its observers, without saying how it    *)
(* moves: the contract of AgentCommunicator as BlockingWait, ExitError and *)
(* Terminate expose it.  AgentComm implements this module.                 *)
(***************************************************************************)
CONSTANTS Reasons,   \* the errors a run can record
          NoReason   \* the nil error

VARIABLES arrived,    \* the agent stands on its goal
          cancelled,  \* the run's context is done
          ended,      \* the completion channel is closed
          reason      \* the recorded exit error

runVars == <<arrived, cancelled, ended, reason>>

Init == /\ arrived \in BOOLEAN
        /\ cancelled = FALSE
        /\ ended = FALSE
        /\ reason = NoReason

(* The first error recorded is kept. *)
Record(r) == /\ reason = NoReason
             /\ reason' = r
             /\ UNCHANGED <<arrived, cancelled, ended>>

Arrive == /\ ~arrived /\ ~ended
          /\ arrived' = TRUE
          /\ UNCHANGED <<cancelled, ended, reason>>

(* The context is cancelled only when there is something to tell. *)
Cancel == /\ arrived \/ ended \/ reason # NoReason
          /\ cancelled' = TRUE
          /\ UNCHANGED <<arrived, ended, reason>>

(* Completion is announced once, after cancellation. *)
Finish == /\ cancelled /\ ~ended
          /\ ended' = TRUE
          /\ UNCHANGED <<arrived, cancelled, reason>>

Next == Arrive \/ Cancel \/ Finish \/ \E r \in Reasons : Record(r)

Spec == Init /\ [][Next]_runVars

-----------------------------------------------------------------------------
(* A run that has ended has either brought the agent to its goal or can    *)
(* say why not, and its context is cancelled.                              *)
EndIsExplained == ended => cancelled /\ (arrived \/ reason # NoReason)
=============================================================================
