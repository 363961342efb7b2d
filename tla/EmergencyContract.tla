------------------------- MODULE EmergencyContract --------------------------
(***************************************************************************)
(* What the emergency lifecycle promises to the rest of the service, which *)
(* shares the global world with it: preference costs are on the floors     *)
(* whenever a flow field is being computed, runs do not overlap, and the   *)
(* floors are restored before the next run prepares.  Emergency implements *)
(* this module.                                                            *)
(***************************************************************************)
CONSTANT Epochs   \* names of the runs

VARIABLES masked,   \* preference costs are on the global floors
          running   \* runs whose loop goroutine is alive

contractVars == <<masked, running>>

Init == masked = FALSE /\ running = {}

(* A start request lowers the preferred costs, on restored floors only. *)
Prefer == /\ ~masked /\ running = {}
          /\ masked' = TRUE
          /\ UNCHANGED running

Launch(e) == /\ masked /\ running = {}
             /\ running' = {e}
             /\ UNCHANGED masked

Finish(e) == /\ e \in running
             /\ running' = running \ {e}
             /\ UNCHANGED masked

(* Stop, shutdown or a failed start restores the floors. *)
Restore == /\ masked /\ running = {}
           /\ masked' = FALSE
           /\ UNCHANGED running

Next == Prefer \/ Restore \/ \E e \in Epochs : Launch(e) \/ Finish(e)

Spec == Init /\ [][Next]_contractVars
=============================================================================
