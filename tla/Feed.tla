----------------------------------- MODULE Feed -----------------------------------
(* What each machine is told to run (updates.py) and what it is then served, on   *)
(* top of the releases of Mirror: the feed answers one request and the package    *)
(* another, and an administrator may pin, publish or replace between the two.     *)

EXTENDS Mirror

CONSTANTS
    Devices,        \* machines
    Tier,           \* the package kind each machine's install upgrades with
    Nothing         \* no pin, no offer

ASSUME FeedAssumption ==
    /\ Tier \in [Devices -> Kinds]
    /\ Nothing \notin Versions

VARIABLES
    pin,        \* AgentDevice.pinned_version
    offer,      \* the answer a machine is acting on
    running     \* what each machine has installed: version and build

feedVars == <<pin, offer, running>>
vars == <<mirrorVars, feedVars>>

NoOffer == [ver |-> Nothing, pinned |-> FALSE, sha |-> 0]

Init ==
    /\ MirrorInit
    /\ pin = [d \in Devices |-> Nothing]
    /\ offer = [d \in Devices |-> NoOffer]
    /\ running = [d \in Devices |-> [ver |-> 0, build |-> 0]]

-----------------------------------------------------------------------------------

\* mutant: a release that is held is as good as one that is published.
PublishedOrHeld == {v \in Versions : Held(v)}

Published == {v \in Versions : rel[v].state = "published"}

\* mutant: versions are compared as text, where 0.10.0 sorts below 0.9.0.
NewestAsText(V) == CHOOSE v \in V : \A w \in V : v <= w

Newest(V) == CHOOSE v \in V : \A w \in V : w <= v

\* offered_release: a pin or nothing for a pinned machine, else the newest published.
OfferedRelease(d) ==
    IF pin[d] # Nothing THEN (IF pin[d] \in Published THEN pin[d] ELSE Nothing)
    ELSE IF Published = {} THEN Nothing ELSE Newest(Published)

\* offer_for: the tier decides which package is named, never which release.
OfferFor(d) ==
    LET v == OfferedRelease(d) IN
    IF v = Nothing THEN NoOffer
    ELSE [ver |-> v, pinned |-> pin[d] # Nothing, sha |-> rel[v].pkg[Tier[d]].sha]

\* AgentUpdateView.get: an answer with a package in it is one the machine acts on.
\* Whether it is newer than what the machine runs is the machine's own decision.
Ask(d) ==
    LET o == OfferFor(d) IN
    /\ offer[d] = NoOffer
    /\ o.sha # 0
    /\ o.ver # running[d].ver /\ (o.pinned \/ o.ver > running[d].ver)
    /\ offer' = [offer EXCEPT ![d] = o]
    /\ UNCHANGED <<mirrorVars, pin, running>>

\* mutant: any published release is served to whoever asks for it.
ServesAnyPublished(d, v) == v \in Published /\ Has(v, Tier[d])

\* artifact_offered_to: what the machine is offered now, not what it was offered.
Serves(d, v) == OfferedRelease(d) = v /\ Has(v, Tier[d])

\* AgentUpdatePackageView.get answers 404, and the machine asks again later.
NotOffered(d) ==
    /\ offer[d] # NoOffer
    /\ ~Serves(d, offer[d].ver)
    /\ offer' = [offer EXCEPT ![d] = NoOffer]
    /\ UNCHANGED <<mirrorVars, pin, running>>

\* The package is streamed from storage. The machine installs it if it hashes to what
\* it was told to expect, and asks again if it does not.
Download(d) ==
    LET v == offer[d].ver
        bytes == store[rel[v].pkg[Tier[d]].file] IN
    /\ offer[d] # NoOffer
    /\ Serves(d, v)
    /\ running' = IF bytes # offer[d].sha THEN running
                  ELSE [running EXCEPT ![d] = [ver |-> v, build |-> bytes]]
    /\ offer' = [offer EXCEPT ![d] = NoOffer]
    /\ UNCHANGED <<mirrorVars, pin>>

\* The device's form: pinned to a version, held here or not, or let go.
SetPin(d, v) ==
    /\ Edit
    /\ v # pin[d]
    /\ pin' = [pin EXCEPT ![d] = v]
    /\ UNCHANGED <<upstream, garbled, rel, store, run, promise, loose, forgotten,
                   moves, faults, offer, running>>

MachineStep(d) == Ask(d) \/ NotOffered(d) \/ Download(d)

Next ==
    \/ MirrorNext /\ UNCHANGED feedVars
    \/ \E d \in Devices : MachineStep(d) \/ \E v \in Versions \cup {Nothing} : SetPin(d, v)

Spec == Init /\ [][Next]_vars

\* A machine asks on every scan cycle, and takes what it is served.
FairSpec ==
    /\ Spec
    /\ MirrorFairness
    /\ \A d \in Devices : WF_vars(MachineStep(d))

-----------------------------------------------------------------------------------
(* Properties.                                                                   *)

TypeOK ==
    /\ MirrorTypeOK
    /\ pin \in [Devices -> Versions \cup {Nothing}]
    /\ offer \in [Devices -> [ver : Versions \cup {Nothing}, pinned : BOOLEAN,
                              sha : 0..MaxBuild]]
    /\ running \in [Devices -> [ver : 0..MaxRelease, build : 0..MaxBuild]]

\* The mirror moves no machine: whatever it stores, rolls back or deletes, and
\* whatever an administrator is doing with the same version meanwhile, no step of it
\* changes what any machine is offered or what it would be served.
MirrorMovesNoMachine ==
    [][run' # run =>
          \A d \in Devices :
              /\ OfferFor(d)' = OfferFor(d)
              /\ LET v == OfferedRelease(d) IN
                 v # Nothing /\ Has(v, Tier[d]) =>
                     LET n == rel[v].pkg[Tier[d]].file IN
                     store'[n] = store[n]]_vars

\* A machine installs only what it may have by then, though the offer it acts on was
\* made before: a release that is still published, and nothing but its pin if it has
\* been pinned meanwhile.
InstallsAreAllowed ==
    [][\A d \in Devices :
          running'[d] # running[d] =>
              /\ rel[running'[d].ver].state = "published"
              /\ pin[d] # Nothing => running'[d].ver = pin[d]]_vars

\* What a machine should come to run: its pin, or the newest release published, when
\* there is a package for it.
Due(d) ==
    {v \in Published :
        /\ Has(v, Tier[d])
        /\ IF pin[d] # Nothing THEN v = pin[d] ELSE \A w \in Published : w <= v}

\* Once upstream and the administrator stop, each machine comes to run its pin, or
\* something no older than the newest published release with a package for it.
FleetFollows ==
    <>[](\A d \in Devices : \A v \in Due(d) :
            IF pin[d] # Nothing THEN running[d].ver = v ELSE running[d].ver >= v)
====
