--------------------------------- MODULE Delivery ---------------------------------
(* What the ledger of a station link promises, file by file, and nothing of how:  *)
(* no storage, no requests, no workers. Ledger implements it (LedgerDelivery).    *)
(*                                                                                *)
(* A file here is the version the ledger describes, whether its bytes are held,   *)
(* whether the machine is told not to send it again, and what was decided. It     *)
(* becomes "crossed" when two actors' load-to-save windows cross on its row: that *)
(* is where the ledger stops promising anything about it.                         *)

EXTENDS Naturals

CONSTANTS
    Files,          \* file names in the station's folder
    MaxVersion      \* bound: how often the vendor writes one file

VARIABLES
    written,        \* the versions of each file the vendor has written, as a number
    file,           \* the ledger's word on each file
    done            \* the versions whose records are in the database

vars == <<written, file, done>>

Absent == [ver |-> 0, held |-> FALSE, vouched |-> FALSE, status |-> "absent"]
Crossed == [ver |-> 0, held |-> FALSE, vouched |-> FALSE, status |-> "crossed"]

Init ==
    /\ written = [f \in Files |-> 0]
    /\ file = [f \in Files |-> Absent]
    /\ done = [f \in Files |-> {}]

Promised(f) == file[f].status \notin {"absent", "crossed"}

\* The vendor writes the file.
Write(f) ==
    /\ written[f] < MaxVersion
    /\ written' = [written EXCEPT ![f] = @ + 1]
    /\ UNCHANGED <<file, done>>

\* A version the vendor wrote arrives whole: not always the latest, nor only once.
Arrive(f, v) ==
    /\ v \in 1..written[f]
    /\ file[f].status # "crossed"
    /\ file' = [file EXCEPT ![f] = [ver |-> v, held |-> TRUE, vouched |-> TRUE,
                                    status |-> "received"]]
    /\ UNCHANGED <<written, done>>

\* The records of a version are in the database.
Persist(f, v) ==
    /\ v \in 1..written[f]
    /\ done' = [done EXCEPT ![f] = @ \cup {v}]
    /\ UNCHANGED <<written, file>>

\* "Processed" means persisted.
Process(f) ==
    /\ Promised(f)
    /\ file[f].ver \in done[f]
    /\ file' = [file EXCEPT ![f].status = "processed"]
    /\ UNCHANGED <<written, done>>

\* The decoder would not read it; the bytes stay.
Fail(f) ==
    /\ Promised(f)
    /\ file' = [file EXCEPT ![f].status = "failed"]
    /\ UNCHANGED <<written, done>>

\* Bytes go only when they are redundant.
Prune(f) ==
    /\ file[f].status = "processed" /\ file[f].held
    /\ file[f].ver \in done[f]
    /\ file' = [file EXCEPT ![f].held = FALSE]
    /\ UNCHANGED <<written, done>>

\* An operator wants the bytes read again ...
Redecode(f) ==
    /\ Promised(f) /\ file[f].held
    /\ file' = [file EXCEPT ![f].status = "received"]
    /\ UNCHANGED <<written, done>>

\* ... or sent again.
Reoffer(f) ==
    /\ Promised(f) /\ ~file[f].held
    /\ file' = [file EXCEPT ![f].vouched = FALSE]
    /\ UNCHANGED <<written, done>>

Cross(f) ==
    /\ Promised(f)
    /\ file' = [file EXCEPT ![f] = Crossed]
    /\ UNCHANGED <<written, done>>

Next ==
    \E f \in Files :
        \/ Write(f) \/ Process(f) \/ Fail(f) \/ Prune(f) \/ Redecode(f) \/ Reoffer(f)
        \/ Cross(f)
        \/ \E v \in 1..MaxVersion : Arrive(f, v) \/ Persist(f, v)

Spec == Init /\ [][Next]_vars

\* What the promise comes to: while the machine is told not to send a version again,
\* its bytes are here or its records are in the database.
NeverLost == \A f \in Files : file[f].vouched => file[f].held \/ file[f].ver \in done[f]
====
