------------------------------ MODULE MCSaveSync ------------------------------
(* Small instances of SaveSync for TLC. *)
EXTENDS SaveSync, TLC

===============================================================================
