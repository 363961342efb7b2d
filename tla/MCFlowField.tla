----------------------------- MODULE MCFlowField -----------------------------
(* Instances of FlowField for TLC. *)
EXTENDS FlowField, TLC

(* A floor of two rows with a dear upper one, and two cells above it. One  *)
(* exit is at the near corner, the other is reached by the portal only.    *)
MCFakeGoal == <<99, 99, 99>>
MCCells == ((0..2) \X (0..1) \X {0}) \cup ((0..1) \X {0} \X {1}) \cup {MCFakeGoal}
MCBase == [c \in MCCells |-> CASE c = MCFakeGoal -> 0
                               [] c[3] = 1 -> 6 + c[1]
                               [] c[2] = 0 -> 2 + c[1]
                               [] OTHER -> 5 + 2 * c[1]]
MCExits == {<<0, 0, 0>>, <<1, 0, 1>>}
MCPortal == [p \in {<<<<2, 0, 0>>, <<0, 0, 1>>>>, <<<<0, 0, 1>>, <<2, 0, 0>>>>}
                   \cup (MCExits \X {MCFakeGoal}) \cup ({MCFakeGoal} \X MCExits)
             |-> IF MCFakeGoal \in {p[1], p[2]} THEN 1 ELSE 2]
MCLights == {<<2, 0, 0>>, <<0, 0, 1>>}
MCMovable == {<<1, 0, 0>>, <<1, 1, 0>>, <<2, 0, 0>>, <<1, 0, 1>>}

(* No object, a passable one, a wall across the floor, one at the foot of  *)
(* the portal with or without another on the floor, and one on the exit    *)
(* above with or without one below.                                        *)
MCSight(at) == [c \in MCMovable |-> IF c \in DOMAIN at THEN at[c] ELSE 0]
MCSights == {MCSight(<<>>), MCSight(<<1, 0, 0>> :> 4),
             MCSight(<<1, 0, 0>> :> 40 @@ <<1, 1, 0>> :> 40),
             MCSight(<<1, 0, 0>> :> 2 @@ <<2, 0, 0>> :> 40),
             MCSight(<<2, 0, 0>> :> 40), MCSight(<<1, 0, 1>> :> 40),
             MCSight(<<1, 0, 0>> :> 4 @@ <<1, 0, 1>> :> 40)}
=============================================================================
