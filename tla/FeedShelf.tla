-------------------------------- MODULE FeedShelf --------------------------------
(* Feed implements Shelf. A package's build is read through the name its row      *)
(* carries, as a download reads it, so that bytes stored, overwritten or deleted  *)
(* under that name would be a step Shelf does not have; `edits' counts what the   *)
(* administrator does, here as there.                                             *)

EXTENDS Feed

BuildOf(v, k) ==
    IF Has(v, k) THEN store[rel[v].pkg[k].file] ELSE 0

\* A release as Shelf sees it.
ReleaseOf(v) == [state |-> rel[v].state, build |-> [k \in Kinds |-> BuildOf(v, k)]]

Promise == INSTANCE Shelf WITH shelf <- [v \in Versions |-> ReleaseOf(v)]

\* Every step of the mirror, of the administrator, of a fault and of a machine is a
\* step the shelf allows, or changes nothing a machine can see. A release arrives whole
\* or not at all, is staged until somebody publishes it, and its bytes are changed by
\* nobody but the administrator; and what a machine installs is what it is due by then,
\* whatever it was offered before.
ShelfIsKept == Promise!Spec
====
