------------------------------- MODULE MCMirror -------------------------------
(* Feed, and Mirror under it, on small instances.                              *)

EXTENDS FeedShelf

Pkg(kind, sha, bytes) == [kind |-> kind, sha |-> sha, bytes |-> bytes]

\* Two packages; a second package that is not what the index says; one kind listed
\* twice.
Whole == <<Pkg("msi", 1, 1), Pkg("velopack_full", 1, 1)>>
Corrupt == <<Pkg("msi", 1, 1), Pkg("velopack_full", 1, 2)>>
Twice == <<Pkg("msi", 1, 1), Pkg("msi", 1, 1)>>

AnyEntry == {Whole, Corrupt, Twice}

\* A build of the administrator's own.
OwnMsi == {<<"msi", 2>>}

ServiceTier == [d \in Devices |-> "msi"]
====
