---------------------------- MODULE MCPathStream -----------------------------
(* The instance of PathStream for TLC. *)
EXTENDS PathStream
=============================================================================
