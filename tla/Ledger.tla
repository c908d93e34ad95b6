---------------------------------- MODULE Ledger ----------------------------------
(* The ledger of one station link and the bytes staged behind it: delivery      *)
(* (AgentStationDataFile.record_upload), the drain (plugins.get_station_data    *)
(* and drain.py), retention (retention.py and prune_bytes) and the operator's   *)
(* re-process (reprocessing.py and request_reprocess), interleaved the way web  *)
(* workers, Celery workers and the admin interleave them.                       *)
(*                                                                              *)
(* A version of a file is a number: 1 when the vendor first writes it, one more *)
(* each time it is written again. The version stands for the bytes, their size, *)
(* their mtime and their sha256 together, since record_upload takes all four    *)
(* from one verified entry. No clock is kept: a row is "aged" once its          *)
(* processed_at lies behind the retention cutoff.                               *)
(*                                                                              *)
(* The drain, the sweep and the bulk action each load rows, work, and save some *)
(* columns of the copy they loaded. What each keeps of its copy is what its     *)
(* save or its file handling uses: the storage name, or whether there was one.  *)

EXTENDS Naturals, FiniteSets

CONSTANTS
    Files,          \* file names in the station's folder
    MaxVersion,     \* bound: how often the vendor writes one file
    Uploads,        \* requests the web workers can be serving at once
    Aliases,        \* names storage can give the bytes of one file
    Own,            \* the name asked of storage, entry.name
    NoFile,         \* FileField's empty name, and "no file"
    MaxFaults,      \* bound: lost requests, dead workers, storage errors
    MaxRedo         \* bound: times an operator presses Re-process

ASSUME LedgerAssumption ==
    /\ MaxVersion \in Nat
    /\ MaxFaults \in Nat
    /\ MaxRedo \in Nat
    /\ Own \in Aliases
    /\ NoFile \notin Aliases
    /\ NoFile \notin Files

VARIABLES
    folder,     \* the vendor's disk: the version of each file, 0 before the first
    row,        \* AgentStationDataFile
    store,      \* the default storage: the version under each name, 0 when free
    up,         \* uploads being served
    listed,     \* the drain's waiting list: the storage name each copy carries
    cur,        \* the file the drain is on, what it read of it and how far it is
    swept,      \* the retention sweep's iterator: the name each copy carries
    unlink,     \* bytes the sweep is about to delete on commit
    ticked,     \* rows a bulk re-process loaded, and what it saw of their bytes
    persisted,  \* versions whose records are in the database (history)
    rejected,   \* versions the decoder would not read (history)
    overtaken,  \* files whose row was written since each actor copied it (history)
    tainted,    \* files a save from an overtaken copy has landed on (history)
    faults,     \* faults so far
    redone      \* re-processes so far

vars == <<folder, row, store, up, listed, cur, swept, unlink, ticked, persisted,
          rejected, overtaken, tainted, faults, redone>>

Versions == 1..MaxVersion
Names == Aliases \cup {NoFile}
Actors == {"drain", "sweep", "redo"}

Row == [ver : 0..MaxVersion, hash : 0..MaxVersion, file : Names,
        status : {"absent", "received", "processed", "failed"}, aged : BOOLEAN]
Upload == [pc : {"idle", "sent", "stored", "committed"}, file : Files \cup {NoFile},
           ver : 0..MaxVersion, alias : Names, old : Names]
Current == [file : Files \cup {NoFile},
            stage : {"none", "decoded", "flushed", "rejected"}, ver : 0..MaxVersion]

\* hash = 0 is content_hash = None; ver is what size and mtime describe.
NoRow == [ver |-> 0, hash |-> 0, file |-> NoFile, status |-> "absent", aged |-> FALSE]
Idle == [pc |-> "idle", file |-> NoFile, ver |-> 0, alias |-> NoFile, old |-> NoFile]
NoCurrent == [file |-> NoFile, stage |-> "none", ver |-> 0]
Unlinked == [file |-> NoFile, alias |-> NoFile]

Init ==
    /\ folder = [f \in Files |-> 0]
    /\ row = [f \in Files |-> NoRow]
    /\ store = [f \in Files |-> [a \in Aliases |-> 0]]
    /\ up = [u \in Uploads |-> Idle]
    /\ listed = [f \in Files |-> NoFile]
    /\ cur = NoCurrent
    /\ swept = [f \in Files |-> NoFile]
    /\ unlink = Unlinked
    /\ ticked = [f \in Files |-> "no"]
    /\ persisted = [f \in Files |-> {}]
    /\ rejected = [f \in Files |-> {}]
    /\ overtaken = [a \in Actors |-> {}]
    /\ tainted = [f \in Files |-> FALSE]
    /\ faults = 0
    /\ redone = 0

-----------------------------------------------------------------------------------
(* Helpers.                                                                     *)

\* record_upload's transaction holds the row from select_for_update to commit, so
\* a plain UPDATE of it waits.
Locked(f) == \E u \in Uploads : up[u].pc = "stored" /\ up[u].file = f

\* A name nobody can reach, which is what storage's random suffix amounts to. The
\* bytes of a request that died may still be under it; the model then lets go of
\* them, and its one name stands for the next.
Unused(f, a) ==
    /\ row[f].file # a /\ listed[f] # a /\ swept[f] # a
    /\ ~(unlink.file = f /\ unlink.alias = a)
    /\ \A u \in Uploads : up[u].file = f => up[u].alias # a /\ up[u].old # a

\* mutant: a storage that overwrites in place.
AvailableInPlace(f) == {Own}

\* Storage.get_available_name: the name asked for when it is free, else another.
Available(f) ==
    IF store[f][Own] = 0 THEN {Own} ELSE {a \in Aliases \ {Own} : Unused(f, a)}

\* history: f's row is written, so every copy of it is overtaken.
Written(f) == overtaken' = [x \in Actors |-> overtaken[x] \cup {f}]

\* history: f's row is saved from the copy that actor x loaded.
SavedFrom(x, f) ==
    /\ Written(f)
    /\ tainted' = [tainted EXCEPT ![f] = @ \/ f \in overtaken[x]]

\* history: actor x has just loaded its rows.
Loaded(x) == overtaken' = [overtaken EXCEPT ![x] = {}]

Fault == faults < MaxFaults /\ faults' = faults + 1

-----------------------------------------------------------------------------------
(* The vendor and the agent.                                                    *)

\* The vendor writes the file, or appends to it.
Grow(f) ==
    /\ folder[f] < MaxVersion
    /\ folder' = [folder EXCEPT ![f] = @ + 1]
    /\ UNCHANGED <<row, store, up, listed, cur, swept, unlink, ticked, persisted,
                   rejected, overtaken, tainted, faults, redone>>

\* mutant: a name the ledger knows is never asked for again.
WantedOnce(f) == row[f].status = "absent"

\* The ledger does not hold the bytes as they now stand, so the manifest asks.
Wanted(f) == row[f].hash # folder[f]

\* A cycle offers the file, is asked for it and starts sending. An earlier request
\* the agent gave up on may still be being served.
Offer(u, f) ==
    /\ up[u].pc = "idle"
    /\ folder[f] > 0
    /\ Wanted(f)
    /\ up' = [up EXCEPT ![u] = [Idle EXCEPT !.pc = "sent", !.file = f,
                                           !.ver = folder[f]]]
    /\ UNCHANGED <<folder, row, store, listed, cur, swept, unlink, ticked, persisted,
                   rejected, overtaken, tainted, faults, redone>>

\* The connection drops, or the bytes do not match the entry.
LoseUpload(u) ==
    /\ up[u].pc = "sent"
    /\ Fault
    /\ up' = [up EXCEPT ![u] = Idle]
    /\ UNCHANGED <<folder, row, store, listed, cur, swept, unlink, ticked, persisted,
                   rejected, overtaken, tainted, redone>>

-----------------------------------------------------------------------------------
(* record_upload.                                                               *)

\* The row locked or inserted, the superseded name read, the bytes written.
StoreBytes(u) ==
    LET f == up[u].file IN
    /\ up[u].pc = "sent"
    /\ ~Locked(f)
    /\ \E a \in Available(f) :
         /\ store' = [store EXCEPT ![f][a] = up[u].ver]
         /\ up' = [up EXCEPT ![u].pc = "stored", ![u].alias = a,
                             ![u].old = row[f].file]
    /\ UNCHANGED <<folder, row, listed, cur, swept, unlink, ticked, persisted,
                   rejected, overtaken, tainted, faults, redone>>

\* mutant: the choice's label is stored in place of its value.
DeliveredLabel(u) == [ver |-> up[u].ver, hash |-> up[u].ver, file |-> up[u].alias,
                      status |-> "Received", aged |-> FALSE]

\* The row as record_upload leaves it.
Delivered(u) == [ver |-> up[u].ver, hash |-> up[u].ver, file |-> up[u].alias,
                 status |-> "received", aged |-> FALSE]

\* mutant: nothing is ever superseded.
SupersedesNothing(u) == FALSE

\* if superseded and superseded != data_file.file.name
Supersedes(u) == up[u].old \notin {NoFile, up[u].alias}

\* The transaction commits; the bytes it supersedes are deleted next.
CommitUpload(u) ==
    LET f == up[u].file IN
    /\ up[u].pc = "stored"
    /\ row' = [row EXCEPT ![f] = Delivered(u)]
    /\ up' = [up EXCEPT ![u] = IF Supersedes(u) THEN [@ EXCEPT !.pc = "committed"]
                                                ELSE Idle]
    /\ Written(f)
    /\ UNCHANGED <<folder, store, listed, cur, swept, unlink, ticked, persisted,
                   rejected, tainted, faults, redone>>

\* transaction.on_commit(lambda: storage.delete(superseded))
DeleteSuperseded(u) ==
    /\ up[u].pc = "committed"
    /\ store' = [store EXCEPT ![up[u].file][up[u].old] = 0]
    /\ up' = [up EXCEPT ![u] = Idle]
    /\ UNCHANGED <<folder, row, listed, cur, swept, unlink, ticked, persisted,
                   rejected, overtaken, tainted, faults, redone>>

\* The web worker dies: before the commit it rolls back, after it the delete is
\* lost. Either way bytes are left that no row names.
UploadDies(u) ==
    /\ up[u].pc \in {"stored", "committed"}
    /\ Fault
    /\ up' = [up EXCEPT ![u] = Idle]
    /\ UNCHANGED <<folder, row, store, listed, cur, swept, unlink, ticked, persisted,
                   rejected, overtaken, tainted, redone>>

-----------------------------------------------------------------------------------
(* The drain. Core holds one lock per station for the whole of it.              *)

\* mutant: a file that was decoded once is not listed again.
WaitingFirstTime(f) ==
    /\ row[f].status = "received" /\ row[f].file # NoFile
    /\ persisted[f] = {} /\ rejected[f] = {}

Waiting(f) == row[f].status = "received" /\ row[f].file # NoFile

\* waiting = list(AgentStationDataFile.waiting_for(station_link))
DrainList ==
    /\ cur = NoCurrent
    /\ \A f \in Files : listed[f] = NoFile
    /\ \E f \in Files : Waiting(f)
    /\ listed' = [f \in Files |-> IF Waiting(f) THEN row[f].file ELSE NoFile]
    /\ Loaded("drain")
    /\ UNCHANGED <<folder, row, store, up, cur, swept, unlink, ticked, persisted,
                   rejected, tainted, faults, redone>>

\* The next copy's bytes are opened and decoded: whatever its name holds by now.
DrainRead(f) ==
    /\ cur = NoCurrent
    /\ listed[f] # NoFile
    /\ store[f][listed[f]] # 0
    /\ \/ /\ cur' = [file |-> f, stage |-> "decoded", ver |-> store[f][listed[f]]]
          /\ UNCHANGED rejected
       \/ /\ cur' = [file |-> f, stage |-> "rejected", ver |-> store[f][listed[f]]]
          /\ rejected' = [rejected EXCEPT ![f] = @ \cup {store[f][listed[f]]}]
    /\ UNCHANGED <<folder, row, store, up, listed, swept, unlink, ticked, persisted,
                   overtaken, tainted, faults, redone>>

\* The bytes are not there, or storage is out of reach: logged, left received, and
\* the drain moves on.
DrainUnreadable(f) ==
    /\ cur = NoCurrent
    /\ listed[f] # NoFile
    /\ \/ store[f][listed[f]] = 0 /\ UNCHANGED faults
       \/ Fault
    /\ listed' = [listed EXCEPT ![f] = NoFile]
    /\ UNCHANGED <<folder, row, store, up, cur, swept, unlink, ticked, persisted,
                   rejected, overtaken, tainted, redone>>

\* Core reaches the flush marker: the file's records are in the database.
DrainFlush ==
    /\ cur.stage = "decoded"
    /\ cur' = [cur EXCEPT !.stage = "flushed"]
    /\ persisted' = [persisted EXCEPT ![cur.file] = @ \cup {cur.ver}]
    /\ UNCHANGED <<folder, row, store, up, listed, swept, unlink, ticked, rejected,
                   overtaken, tainted, faults, redone>>

\* save(update_fields=OUTCOME_FIELDS): a verdict, whatever else the row now says.
SaveVerdict(status) ==
    LET f == cur.file IN
    /\ ~Locked(f)
    /\ row' = [row EXCEPT ![f].status = status, ![f].aged = FALSE]
    /\ listed' = [listed EXCEPT ![f] = NoFile]
    /\ cur' = NoCurrent
    /\ SavedFrom("drain", f)
    /\ UNCHANGED <<folder, store, up, swept, unlink, ticked, persisted, rejected,
                   faults, redone>>

\* mutant: the stamp does not wait for the flush marker.
MarkBeforeFlush == cur.stage = "decoded" /\ SaveVerdict("processed")

\* StagedFile.save, once the pipeline has flushed.
MarkProcessed == cur.stage = "flushed" /\ SaveVerdict("processed")

\* if not decoded: data_file.mark_failed(...)
MarkFailed == cur.stage = "rejected" /\ SaveVerdict("failed")

\* The soft time limit, or a killed worker.
DrainDies ==
    /\ \E f \in Files : listed[f] # NoFile
    /\ Fault
    /\ listed' = [f \in Files |-> NoFile]
    /\ cur' = NoCurrent
    /\ UNCHANGED <<folder, row, store, up, swept, unlink, ticked, persisted, rejected,
                   overtaken, tainted, redone>>

-----------------------------------------------------------------------------------
(* Retention.                                                                   *)

\* processed_at falls behind the cutoff.
Age(f) ==
    /\ row[f].status = "processed"
    /\ ~row[f].aged
    /\ row' = [row EXCEPT ![f].aged = TRUE]
    /\ UNCHANGED <<folder, store, up, listed, cur, swept, unlink, ticked, persisted,
                   rejected, overtaken, tainted, faults, redone>>

\* mutant: everything that has had its verdict is prunable.
PrunableJudged(f) == row[f].status \in {"processed", "failed"} /\ row[f].file # NoFile

\* mutant: no retention period means prune at once.
PrunableAtOnce(f) == row[f].status = "processed" /\ row[f].file # NoFile

Prunable(f) == row[f].status = "processed" /\ row[f].aged /\ row[f].file # NoFile

\* prunable_for(connection).iterator(): one query, its rows read as they are used.
SweepList ==
    /\ unlink = Unlinked
    /\ \A f \in Files : swept[f] = NoFile
    /\ \E f \in Files : Prunable(f)
    /\ swept' = [f \in Files |-> IF Prunable(f) THEN row[f].file ELSE NoFile]
    /\ Loaded("sweep")
    /\ UNCHANGED <<folder, row, store, up, listed, cur, unlink, ticked, persisted,
                   rejected, tainted, faults, redone>>

\* prune_bytes: self.file = "" saved, the delete left for after the commit.
Prune(f) ==
    /\ unlink = Unlinked
    /\ swept[f] # NoFile
    /\ ~Locked(f)
    /\ row' = [row EXCEPT ![f].file = NoFile]
    /\ swept' = [swept EXCEPT ![f] = NoFile]
    /\ unlink' = [file |-> f, alias |-> swept[f]]
    /\ SavedFrom("sweep", f)
    /\ UNCHANGED <<folder, store, up, listed, cur, ticked, persisted, rejected,
                   faults, redone>>

\* transaction.on_commit(lambda: storage.delete(stored_as))
PruneUnlink ==
    /\ unlink # Unlinked
    /\ store' = [store EXCEPT ![unlink.file][unlink.alias] = 0]
    /\ unlink' = Unlinked
    /\ UNCHANGED <<folder, row, up, listed, cur, swept, ticked, persisted, rejected,
                   overtaken, tainted, faults, redone>>

\* One file's save or delete raises: it is logged and the sweep moves on.
PruneFails ==
    /\ Fault
    /\ \/ /\ unlink = Unlinked
          /\ \E f \in Files : /\ swept[f] # NoFile
                              /\ swept' = [swept EXCEPT ![f] = NoFile]
          /\ UNCHANGED unlink
       \/ /\ unlink # Unlinked
          /\ unlink' = Unlinked
          /\ UNCHANGED swept
    /\ UNCHANGED <<folder, row, store, up, listed, cur, ticked, persisted, rejected,
                   overtaken, tainted, redone>>

\* The sweep's worker dies.
SweepDies ==
    /\ unlink # Unlinked \/ \E f \in Files : swept[f] # NoFile
    /\ Fault
    /\ swept' = [f \in Files |-> NoFile]
    /\ unlink' = Unlinked
    /\ UNCHANGED <<folder, row, store, up, listed, cur, ticked, persisted, rejected,
                   overtaken, tainted, redone>>

-----------------------------------------------------------------------------------
(* Re-process, from the admin's bulk action.                                    *)

\* get_list_or_404: the ticked rows, each remembered with or without its bytes.
RedoLoad(F) ==
    /\ redone < MaxRedo
    /\ redone' = redone + 1
    /\ \A f \in Files : ticked[f] = "no"
    /\ \A f \in F : row[f].status # "absent"
    /\ ticked' = [f \in Files |-> IF f \notin F THEN "no"
                                  ELSE IF row[f].file # NoFile THEN "held"
                                  ELSE "pruned"]
    /\ Loaded("redo")
    /\ UNCHANGED <<folder, row, store, up, listed, cur, swept, unlink, persisted,
                   rejected, tainted, faults>>

\* request_reprocess with the bytes held: the next drain decodes them again.
Redecode(f) ==
    /\ ticked[f] = "held"
    /\ ~Locked(f)
    /\ row' = [row EXCEPT ![f].status = "received", ![f].aged = FALSE]
    /\ ticked' = [ticked EXCEPT ![f] = "no"]
    /\ SavedFrom("redo", f)
    /\ UNCHANGED <<folder, store, up, listed, cur, swept, unlink, persisted, rejected,
                   faults, redone>>

\* ... with the bytes pruned: the hash is forgotten, so the machine is asked again.
Reoffer(f) ==
    /\ ticked[f] = "pruned"
    /\ ~Locked(f)
    /\ row' = [row EXCEPT ![f].hash = 0]
    /\ ticked' = [ticked EXCEPT ![f] = "no"]
    /\ SavedFrom("redo", f)
    /\ UNCHANGED <<folder, store, up, listed, cur, swept, unlink, persisted, rejected,
                   faults, redone>>

-----------------------------------------------------------------------------------

UploadStep(u) ==
    StoreBytes(u) \/ CommitUpload(u) \/ DeleteSuperseded(u)

DrainStep ==
    \/ DrainList \/ DrainFlush \/ MarkProcessed \/ MarkFailed
    \/ \E f \in Files : DrainRead(f) \/ DrainUnreadable(f)

SweepStep == SweepList \/ PruneUnlink \/ \E f \in Files : Prune(f)

RedoStep == \E f \in Files : Redecode(f) \/ Reoffer(f)

Next ==
    \/ \E f \in Files : Grow(f) \/ Age(f)
    \/ \E u \in Uploads, f \in Files : Offer(u, f)
    \/ \E u \in Uploads : LoseUpload(u) \/ UploadStep(u) \/ UploadDies(u)
    \/ DrainStep \/ DrainDies
    \/ SweepStep \/ PruneFails \/ SweepDies
    \/ \E F \in SUBSET Files \ {{}} : RedoLoad(F)
    \/ RedoStep

Spec == Init /\ [][Next]_vars

\* The machine keeps running cycles, web workers finish what they began, Beat keeps
\* running the drain and the nightly sweep, and a bulk action runs to its end. The
\* vendor, the operator and faults owe nothing.
Fairness ==
    /\ \A f \in Files : WF_vars(\E u \in Uploads : Offer(u, f))
    /\ \A u \in Uploads : WF_vars(UploadStep(u))
    /\ WF_vars(DrainStep)
    /\ WF_vars(SweepStep)
    /\ WF_vars(RedoStep)

FairSpec == Spec /\ Fairness

-----------------------------------------------------------------------------------
(* Properties. A row is tainted from the first time a save lands on it from a   *)
(* copy that another actor's write had overtaken. What holds of untainted rows  *)
(* is what the ledger keeps under every interleaving in which each load-to-save *)
(* window stays uncrossed; the predicate without the exemption is what the      *)
(* source's own comments claim.                                                  *)

TypeOK ==
    /\ folder \in [Files -> 0..MaxVersion]
    /\ row \in [Files -> Row]
    /\ store \in [Files -> [Aliases -> 0..MaxVersion]]
    /\ up \in [Uploads -> Upload]
    /\ listed \in [Files -> Names]
    /\ cur \in Current
    /\ swept \in [Files -> Names]
    /\ unlink \in [file : Files \cup {NoFile}, alias : Names]
    /\ ticked \in [Files -> {"no", "held", "pruned"}]
    /\ persisted \in [Files -> SUBSET Versions]
    /\ rejected \in [Files -> SUBSET Versions]
    /\ overtaken \in [Actors -> SUBSET Files]
    /\ tainted \in [Files -> BOOLEAN]
    /\ faults \in 0..MaxFaults
    /\ redone \in 0..MaxRedo

VerdictFits(f) ==
    /\ row[f].status = "processed" => row[f].ver \in persisted[f]
    /\ row[f].status = "failed" => row[f].ver \in rejected[f]

\* "Processed" means persisted, and a failure is the failure of the bytes the row
\* describes, however uploads, retries and re-processes interleave with the drain.
VerdictIsTrue == \A f \in Files : ~tainted[f] => VerdictFits(f)

BytesFit(f) == row[f].file # NoFile => store[f][row[f].file] = row[f].ver

\* The name a row carries leads to the bytes the row describes: no reused storage
\* name, pending delete, rollback or dead worker leaves it pointing elsewhere.
BytesAreTheRows == \A f \in Files : ~tainted[f] => BytesFit(f)

\* While the ledger tells the machine not to send a version again, that version is
\* in the database or its bytes are here to be decoded.
Recoverable(f) ==
    row[f].hash # 0 => \/ row[f].hash \in persisted[f]
                       \/ row[f].file # NoFile /\ store[f][row[f].file] = row[f].hash
NothingLost == \A f \in Files : ~tainted[f] => Recoverable(f)

\* Without a fault, bytes that no row names are about to be named or deleted: the
\* staging area does not leak.
Accounted(f, a) ==
    \/ row[f].file = a
    \/ unlink = [file |-> f, alias |-> a]
    \/ \E u \in Uploads : /\ up[u].file = f
                           /\ \/ up[u].pc = "stored" /\ up[u].alias = a
                              \/ up[u].pc = "committed" /\ up[u].old = a
NoOrphanBytes ==
    faults = 0 =>
        \A f \in Files, a \in Aliases :
            ~tainted[f] /\ store[f][a] # 0 => Accounted(f, a)

\* Bytes leave a row only when they are redundant: retention never takes a file
\* that is waiting, failed, or inside its keep.
PruneOnlyRedundant ==
    [][\A f \in Files :
          /\ row[f].file # NoFile /\ row'[f].file = NoFile
          /\ ~tainted'[f]
          => row[f].status = "processed" /\ row[f].aged
             /\ row[f].ver \in persisted[f]]_vars

\* Once the vendor stops writing, the ledger comes to hold each file as it stands,
\* whatever was lost, repeated, delayed or delivered out of order on the way.
LedgerConverges ==
    <>[](\A f \in Files : folder[f] > 0 => row[f].hash = folder[f])

\* Nothing waits for ever: each delivered file gets its verdict.
EveryFileJudged ==
    <>[](\A f \in Files : row[f].status = "received" => tainted[f])

\* mark_processed: 'Record that this file's records are in the database. "Processed"
\* means persisted'. record_upload: "what was decided about a shorter version of a
\* file says nothing about this one". Claimed of every row.
ProcessedMeansPersisted ==
    \A f \in Files : row[f].status = "processed" => row[f].ver \in persisted[f]
====
