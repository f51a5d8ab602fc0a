--------------------------- MODULE MCAlertRebase ---------------------------
(* Instances of AlertRebase for TLC: the constants are in the configurations. *)
EXTENDS AlertRebase
=============================================================================
