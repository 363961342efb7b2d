---------------------------- MODULE MCAgentComm -----------------------------
(* Instances of AgentComm for TLC. *)
EXTENDS AgentComm

(* A negative distance, and one that single steps use up exactly, up to a  *)
(* rest within the tolerance, and up to one too short for a step.          *)
MCMeters == {-1, 4}
=============================================================================
