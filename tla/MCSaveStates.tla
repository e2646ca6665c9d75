----------------------------- MODULE MCSaveStates -----------------------------
(* Values of SaveStates' constants for TLC. *)
EXTENDS SaveStates, TLC

Both == [sync |-> TRUE, target |-> AutoSlot, extra |-> "1", keep |-> 1]
MCPrefs == {"extra" :> NoExtra}
=============================================================================
