---------------------------------- MODULE Config ----------------------------------
(* What a machine is configured with, and the number that is meant to tell it    *)
(* when that changed: config_version, the signal handlers that move it, and the  *)
(* sync that hands both out (models.py, serialization.py, api_views.py).         *)
(*                                                                              *)
(* A connection stands for its row, its station links and their mappings: all of *)
(* them find the one device the same way. A change is a count, since only        *)
(* whether two readings are the same reading matters.                            *)
(*                                                                              *)
(* Django sends post_save after the row is saved and outside its statement, so a *)
(* write is two commits: the row, then the UPDATE that moves the number. Deletes *)
(* send their signals inside their own transaction, and so does the admin's edit *)
(* form, whose whole save runs in one.                                           *)

EXTENDS Naturals, FiniteSets

CONSTANTS
    Devices,
    Connections,
    Nobody,         \* no device: the connection does not exist
    Writers,        \* requests that can be saving configuration at once
    MaxEdits,       \* bound: changes to connections
    MaxForms        \* bound: saves of a device's edit form

ASSUME ConfigAssumption ==
    /\ MaxEdits \in Nat
    /\ MaxForms \in Nat
    /\ Nobody \notin Devices

VARIABLES
    owner,      \* AgentConnection.device_id
    edit,       \* what each connection says
    tier,       \* what each device row says of its own configuration
    version,    \* AgentDevice.config_version
    writer,     \* a row saved, its signal still to run
    form,       \* the version an open edit form's copy of the device carries
    sync,       \* the sync each machine is being answered
    agent,      \* what each machine holds
    reused,     \* devices whose number a stale form has written over (history)
    moved,      \* devices a connection has been taken from (history)
    edits,
    forms

vars == <<owner, edit, tier, version, writer, form, sync, agent, reused, moved,
          edits, forms>>

Owners == Devices \cup {Nobody}

\* mutant: the counter starts where a machine that never synced stands.
FirstVersionZero == 0

FirstVersion == 1

\* What one response can carry: each of the device's connections as it stood.
Reading == SUBSET (Connections \X (0..MaxEdits))
NoWrite == [pc |-> "idle", conn |-> Nobody, dev |-> Nobody]
NoSync == [pc |-> "idle", tier |-> 0, held |-> {}, torn |-> FALSE]

Held(d) == {<<c, edit[c]>> : c \in {x \in Connections : owner[x] = d}}

Init ==
    /\ owner \in [Connections -> Owners]
    /\ edit = [c \in Connections |-> 0]
    /\ tier = [d \in Devices |-> 0]
    /\ version = [d \in Devices |-> FirstVersion]
    /\ writer = [w \in Writers |-> NoWrite]
    /\ form = [d \in Devices |-> 0]
    /\ sync = [d \in Devices |-> NoSync]
    /\ agent = [d \in Devices |-> [num |-> 0, tier |-> 0, held |-> {}, torn |-> FALSE]]
    /\ reused = {}
    /\ moved = {}
    /\ edits = 0
    /\ forms = 0

-----------------------------------------------------------------------------------
(* Writing configuration.                                                        *)

Edited == edits < MaxEdits /\ edits' = edits + 1

\* history: a sync of d that has already read its connections is reading two
\* configurations.
Tears(D) == sync' = [d \in Devices |->
    IF d \in D /\ sync[d].pc = "read" THEN [sync[d] EXCEPT !.torn = TRUE] ELSE sync[d]]

\* A station link or a mapping is saved: the app's PATCH, the admin, or a request to
\* send pruned files again. Its device is looked up when the signal runs.
SaveLink(w, c) ==
    /\ writer[w] = NoWrite
    /\ owner[c] # Nobody
    /\ Edited
    /\ edit' = [edit EXCEPT ![c] = @ + 1]
    /\ writer' = [writer EXCEPT ![w] = [pc |-> "link", conn |-> c, dev |-> Nobody]]
    /\ Tears({owner[c]})
    /\ UNCHANGED <<owner, tier, version, form, agent, reused, moved, forms>>

\* A connection is saved under device d: created, edited, or given to another
\* machine. The signal has only the instance, which names the new device.
SaveConnection(w, c, d) ==
    /\ writer[w] = NoWrite
    /\ Edited
    /\ owner' = [owner EXCEPT ![c] = d]
    /\ edit' = [edit EXCEPT ![c] = @ + 1]
    /\ writer' = [writer EXCEPT ![w] = [pc |-> "connection", conn |-> c, dev |-> d]]
    /\ Tears({d, owner[c]})
    /\ moved' = moved \cup ({owner[c]} \ {d, Nobody})
    /\ UNCHANGED <<tier, version, form, agent, reused, forms>>

\* CONFIG_OWNERS: whose device the saved row is found to be.
BumpedDevice(w) ==
    IF writer[w].pc = "link" THEN owner[writer[w].conn] ELSE writer[w].dev

\* config_version = F("config_version") + 1, where there is a device left to tell.
Bump(w) ==
    /\ writer[w] # NoWrite
    /\ version' = [d \in Devices |->
                     IF d = BumpedDevice(w) THEN version[d] + 1 ELSE version[d]]
    /\ writer' = [writer EXCEPT ![w] = NoWrite]
    /\ UNCHANGED <<owner, edit, tier, form, sync, agent, reused, moved, edits, forms>>

\* mutant: post_delete is not connected.
DeletedUnsignalled(d) == version

Deleted(d) == [version EXCEPT ![d] = @ + 1]

\* A connection goes, and with it everything under it: the signals of the cascade run
\* while its row can still be read, and commit with it.
DeleteConnection(c) ==
    /\ owner[c] # Nobody
    /\ Edited
    /\ version' = Deleted(owner[c])
    /\ owner' = [owner EXCEPT ![c] = Nobody]
    /\ Tears({owner[c]})
    /\ UNCHANGED <<edit, tier, writer, form, agent, reused, moved, forms>>

\* The device's edit form reads the row ...
OpenForm(d) ==
    /\ form[d] = 0
    /\ forms < MaxForms
    /\ forms' = forms + 1
    /\ form' = [form EXCEPT ![d] = version[d]]
    /\ UNCHANGED <<owner, edit, tier, version, writer, sync, agent, reused, moved,
                   edits>>

\* ... and saves all of it, the number it read included; naming no fields, it then
\* moves that number.
SaveForm(d) ==
    /\ form[d] # 0
    /\ tier' = [tier EXCEPT ![d] = @ + 1]
    /\ version' = [version EXCEPT ![d] = form[d] + 1]
    /\ reused' = IF form[d] # version[d] THEN reused \cup {d} ELSE reused
    /\ form' = [form EXCEPT ![d] = 0]
    /\ sync' = [sync EXCEPT ![d].torn = sync[d].pc # "idle"]
    /\ UNCHANGED <<owner, edit, writer, agent, moved, edits, forms>>

-----------------------------------------------------------------------------------
(* Reading it.                                                                   *)

\* The token is looked up, and the device row read with it.
SyncBegin(d) ==
    /\ sync[d].pc = "idle"
    /\ sync' = [sync EXCEPT ![d] = [NoSync EXCEPT !.pc = "begun", !.tier = tier[d]]]
    /\ UNCHANGED <<owner, edit, tier, version, writer, form, agent, reused, moved,
                   edits, forms>>

\* sync_payload: the connections, the links, the re-offer points.
SyncRead(d) ==
    /\ sync[d].pc = "begun"
    /\ sync' = [sync EXCEPT ![d].pc = "read", ![d].held = Held(d)]
    /\ UNCHANGED <<owner, edit, tier, version, writer, form, agent, reused, moved,
                   edits, forms>>

\* mutant: a machine whose number has not moved is told nothing.
AnswerIfMoved(d) ==
    IF agent[d].num = version[d] THEN agent[d]
    ELSE [num |-> version[d], tier |-> sync[d].tier, held |-> sync[d].held,
          torn |-> sync[d].torn]

Answer(d) == [num |-> version[d], tier |-> sync[d].tier, held |-> sync[d].held,
              torn |-> sync[d].torn]

\* current_config_version is read last of all, and the response goes out.
SyncAnswer(d) ==
    /\ sync[d].pc = "read"
    /\ agent' = [agent EXCEPT ![d] = Answer(d)]
    /\ sync' = [sync EXCEPT ![d] = NoSync]
    /\ UNCHANGED <<owner, edit, tier, version, writer, form, reused, moved, edits,
                   forms>>

-----------------------------------------------------------------------------------

SyncStep(d) == SyncBegin(d) \/ SyncRead(d) \/ SyncAnswer(d)

Next ==
    \/ \E w \in Writers : Bump(w)
    \/ \E w \in Writers, c \in Connections : SaveLink(w, c)
    \/ \E w \in Writers, c \in Connections, d \in Devices : SaveConnection(w, c, d)
    \/ \E c \in Connections : DeleteConnection(c)
    \/ \E d \in Devices : OpenForm(d) \/ SaveForm(d) \/ SyncStep(d)

Spec == Init /\ [][Next]_vars

\* A machine syncs at the top of every cycle, and a request that has saved a row goes
\* on to its signal. Nobody owes an edit, and an open form need not be sent.
Fairness ==
    /\ \A d \in Devices : WF_vars(SyncStep(d))
    /\ \A w \in Writers : WF_vars(Bump(w))

FairSpec == Spec /\ Fairness

-----------------------------------------------------------------------------------
(* Properties.                                                                   *)

TypeOK ==
    /\ owner \in [Connections -> Owners]
    /\ edit \in [Connections -> 0..MaxEdits]
    /\ tier \in [Devices -> 0..MaxForms]
    /\ version \in [Devices -> Nat \ {0}]
    /\ writer \in [Writers -> [pc : {"idle", "link", "connection"},
                               conn : Connections \cup {Nobody}, dev : Owners]]
    /\ form \in [Devices -> Nat]
    /\ sync \in [Devices -> [pc : {"idle", "begun", "read"}, tier : 0..MaxForms,
                             held : Reading, torn : BOOLEAN]]
    /\ agent \in [Devices -> [num : Nat, tier : 0..MaxForms,
                              held : Reading, torn : BOOLEAN]]
    /\ reused \in SUBSET Devices
    /\ moved \in SUBSET Devices
    /\ edits \in 0..MaxEdits
    /\ forms \in 0..MaxForms

UpToDate(d) == agent[d].tier = tier[d] /\ agent[d].held = Held(d)

\* No saved row of d's is still waiting for its signal.
Signalled(d) == \A w \in Writers : writer[w] # NoWrite => BumpedDevice(w) # d

\* The number says whether there is anything to re-read: a machine that stands at the
\* current one holds the current configuration. Exempt are a sync that a write cut in
\* two, and the two ways the code breaks what its comments claim, a "monotonic counter"
\* that "every way a configuration can change has to move": a device whose number a
\* stale form has written over, and one that has lost a connection to another.
NumberTellsAll ==
    \A d \in Devices \ (reused \cup moved) :
        agent[d].num = version[d] /\ ~agent[d].torn /\ Signalled(d) => UpToDate(d)

\* Once nobody is editing, every machine comes to hold what ADL says, however its
\* syncs and the edits crossed, numbers reused and connections moved included: the
\* sync is sent in full and never left out because a number looks familiar.
EveryMachineCatchesUp == \A d \in Devices : <>[]UpToDate(d)
====
