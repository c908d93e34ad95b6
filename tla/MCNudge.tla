------------------------------- MODULE MCNudge --------------------------------
(* Nudge on small instances.                                                   *)

EXTENDS Nudge, TLC
====
