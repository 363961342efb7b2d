------------------------------ MODULE MCPlanner -----------------------------
(* Instances of Planner for TLC. *)
EXTENDS Planner, TLC

(* A floor of three rows with a pillar in the middle, and a corridor above *)
(* it that is reached from two of its corners.                             *)
MCCells == ((0..2) \X (0..2) \X {0}) \cup ((0..2) \X {0} \X {1})
MCBase == [c \in MCCells |-> IF c = <<1, 1, 0>> THEN 0 ELSE 1]
MCPortal == LET up == (<<2, 0, 0>> :> <<2, 0, 1>>) @@ (<<0, 0, 0>> :> <<0, 0, 1>>)
            IN [p \in {<<a, up[a]>> : a \in DOMAIN up} \cup {<<up[a], a>> : a \in DOMAIN up}
                |-> IF p[1][1] = 2 THEN 1 ELSE 3]
MCGoal == <<1, 0, 1>>
MCStarts == {<<0, 2, 0>>, <<2, 2, 0>>}
MCMovable == {<<1, 2, 0>>, <<2, 1, 0>>, <<2, 0, 1>>, <<1, 0, 1>>}

(* What the proofs of the answers and the steps ask of the portals.        *)
ASSUME MCPortalsAssumption == PortalsFair /\ PortalsReturn
=============================================================================
