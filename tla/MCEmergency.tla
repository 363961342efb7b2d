---------------------------- MODULE MCEmergency -----------------------------
(* Instances of Emergency for TLC: the configurations give its constants.  *)
EXTENDS Emergency
=============================================================================
