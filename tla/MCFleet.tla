------------------------------- MODULE MCFleet --------------------------------
(* Fleet on small instances.                                                   *)

EXTENDS Fleet, TLC

\* A clock set three heartbeat intervals behind ADL's.
Late == -3
====
