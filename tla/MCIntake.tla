------------------------------- MODULE MCIntake -------------------------------
(* Intake on a small instance: two files of one station, the second newer, whose   *)
(* contents are one block, the same size rewritten, and one block too many.        *)

EXTENDS Intake

CONSTANTS f1, f2, l1

OneStation == [f \in Files |-> l1]
OldAndNew == [f \in Files |-> IF f = f1 THEN 1 ELSE 2]
ThreeContents == <<<<1>>, <<2>>, <<2, 1>>>>

\* Not configured, mistyped, zero, sensible, and more than an instance serves.
Configured == {[kind |-> "absent", value |-> 0], [kind |-> "text", value |-> 0],
               [kind |-> "number", value |-> 0], [kind |-> "number", value |-> 2],
               [kind |-> "number", value |-> 9]}
====
