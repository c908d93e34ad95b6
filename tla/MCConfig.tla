------------------------------- MODULE MCConfig -------------------------------
(* Config on small instances.                                                  *)

EXTENDS Config, TLC
====
