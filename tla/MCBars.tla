------------------------------- MODULE MCBars -------------------------------
(* One symbol that is no canary, one session and the pause after it.         *)
EXTENDS Bars
=============================================================================
