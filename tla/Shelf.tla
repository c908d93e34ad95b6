---------------------------------- MODULE Shelf ----------------------------------
(* What an instance promises its fleet about agent releases, and nothing of how:  *)
(* no index, no mirror run, no storage, no offers. Feed, and Mirror under it,     *)
(* implement it (FeedShelf).                                                      *)
(*                                                                                *)
(* A release here is its state and the build a download of each of its packages   *)
(* yields, 0 for a package it does not have.                                      *)

EXTENDS Naturals, Sequences

CONSTANTS
    MaxRelease,     \* bound: versions there are
    MaxBuild,       \* bound: different bytes there are
    Kinds,          \* package kinds
    Entries,        \* what the index can list for one version
    Devices,        \* machines
    Tier,           \* the package kind each machine upgrades with
    Nothing         \* no pin, no version on offer

VARIABLES
    shelf,          \* the releases
    pin,            \* the version each machine is held to
    running,        \* what each machine has installed: version and build
    edits           \* what the administrator has done

vars == <<shelf, pin, running, edits>>

Versions == 1..MaxRelease

Release == [state : {"none", "staged", "published"}, build : [Kinds -> 0..MaxBuild]]

Absent == [state |-> "none", build |-> [k \in Kinds |-> 0]]

Init ==
    /\ shelf = [v \in Versions |-> Absent]
    /\ pin = [d \in Devices |-> Nothing]
    /\ running = [d \in Devices |-> [ver |-> 0, build |-> 0]]
    /\ edits = 0

Held(v) == shelf[v].state # "none"
Published == {v \in Versions : shelf[v].state = "published"}

\* The packages of an entry, each with the bytes its digest states, and no others.
Stated(entry) ==
    [k \in Kinds |->
        IF \E i \in 1..Len(entry) : entry[i].kind = k
        THEN entry[CHOOSE i \in 1..Len(entry) : entry[i].kind = k].sha ELSE 0]

\* A release comes from upstream in one step, whole, and for nobody to install yet.
Arrive(v) ==
    /\ ~Held(v)
    /\ \E e \in Entries :
           /\ e # <<>> /\ \A i \in 1..Len(e) : e[i].sha # 0
           /\ shelf' = [shelf EXCEPT ![v] = [state |-> "staged", build |-> Stated(e)]]
    /\ UNCHANGED <<pin, running, edits>>

\* Everything else that becomes of a release is the administrator's doing, and is done
\* to one release at a time: it is brought, published, withdrawn, changed or removed ...
Rewrite(v) ==
    /\ shelf'[v] \in Release
    /\ shelf' = [shelf EXCEPT ![v] = shelf'[v]]
    /\ edits' = edits + 1
    /\ UNCHANGED <<pin, running>>

\* ... or goes as it is under another version.
Rename(v, w) ==
    /\ Held(v) /\ ~Held(w)
    /\ shelf' = [shelf EXCEPT ![w] = shelf[v], ![v] = Absent]
    /\ edits' = edits + 1
    /\ UNCHANGED <<pin, running>>

Pin(d, v) ==
    /\ pin' = [pin EXCEPT ![d] = v]
    /\ edits' = edits + 1
    /\ UNCHANGED <<shelf, running>>

\* What a machine may install: its pin if it has one, else the newest release, and only
\* a release that is published and has a package for it.
Due(d, v) ==
    /\ v \in Published
    /\ IF pin[d] # Nothing THEN v = pin[d] ELSE \A w \in Published : w <= v
    /\ shelf[v].build[Tier[d]] # 0

\* It installs that release's bytes, as they are by then.
Install(d, v) ==
    /\ Due(d, v)
    /\ v # running[d].ver
    /\ running' = [running EXCEPT ![d] = [ver |-> v, build |-> shelf[v].build[Tier[d]]]]
    /\ UNCHANGED <<shelf, pin, edits>>

Next ==
    \/ \E v \in Versions : Arrive(v) \/ Rewrite(v) \/ \E w \in Versions : Rename(v, w)
    \/ \E d \in Devices :
           \/ \E v \in Versions \cup {Nothing} : Pin(d, v)
           \/ \E v \in Versions : Install(d, v)

Spec == Init /\ [][Next]_vars

\* What the promise comes to for a release: it stands as it is, bytes and all, until
\* the administrator does something.
HeldStands ==
    [][edits' = edits => \A v \in Versions : Held(v) => shelf'[v] = shelf[v]]_vars
====
