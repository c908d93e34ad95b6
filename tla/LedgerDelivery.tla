------------------------------ MODULE LedgerDelivery ------------------------------
(* Ledger implements Delivery. The bytes of a row are held when the name it       *)
(* carries leads to them, so that a write, a rollback or a delete in the staging  *)
(* area that touched them would be a step Delivery does not have.                 *)

EXTENDS Ledger

HeldBytes(f) == row[f].file # NoFile /\ store[f][row[f].file] = row[f].ver

\* A row as Delivery sees it.
FileOf(f) ==
    IF tainted[f]
    THEN [ver |-> 0, held |-> FALSE, vouched |-> FALSE, status |-> "crossed"]
    ELSE [ver |-> row[f].ver, held |-> HeldBytes(f), vouched |-> row[f].hash # 0,
          status |-> row[f].status]

Promise == INSTANCE Delivery WITH
               written <- folder,
               file <- [f \in Files |-> FileOf(f)],
               done <- persisted

\* Every step of the ledger, its uploads, drains, sweeps, re-processes, faults and
\* dead workers, is a step the promise allows, or none of its business.
DeliveryIsKept == Promise!Spec
====
