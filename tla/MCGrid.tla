------------------------------- MODULE MCGrid -------------------------------
(* Instances of Grid for TLC. *)
EXTENDS Grid

(* No path, and a discount that would lower the smaller costs below 1.     *)
MCMasks == {0, -3}
=============================================================================
