---------------------------------- MODULE Mirror ----------------------------------
(* The agent releases an instance holds: the nightly mirror that pulls them from *)
(* the upstream index (mirror.py, one run at a time: the task is a Singleton),   *)
(* the administrator who uploads, publishes, withdraws, replaces and removes     *)
(* them, and the bytes of their packages on the default storage, which has no    *)
(* transaction to roll back with the rows.                                       *)
(*                                                                               *)
(* A release's version is a number, ordered as agent_release_sort_key orders it; *)
(* a build is a number that stands for the bytes of a package and their sha256.  *)
(* The instance is one that has switched mirroring on.                           *)

EXTENDS Naturals, Sequences, FiniteSets

CONSTANTS
    MaxRelease,     \* bound: versions there are
    MaxBuild,       \* bound: different bytes there are
    LocalPackages,  \* the kinds and builds an administrator has to upload
    Kinds,          \* package kinds this plugin knows
    Entries,        \* what the index can list for one version: its packages
    Unlisted,       \* the index has no entry for the version
    Aliases,        \* names storage can give one package of one version
    Own,            \* the name asked of storage, from the package's URL
    NoFile,         \* FileField's empty name
    MirrorLimit,    \* how many of the newest entries this instance considers
    MaxMoves,       \* bound: changes upstream
    MaxUpsets       \* bound: what the administrator does, and failed requests,
                    \* failed statements and dead workers

\* One package of an entry: the digest it states, 0 for no usable one, and the bytes at
\* its URL. A kind this plugin does not know is ignored, so it is not in the model.
Listing == [kind : Kinds, sha : 0..MaxBuild, bytes : 0..MaxBuild]

ASSUME MirrorAssumption ==
    /\ MaxRelease \in Nat /\ MaxBuild \in Nat
    /\ MaxMoves \in Nat /\ MaxUpsets \in Nat
    /\ MirrorLimit \in Nat
    /\ LocalPackages \subseteq Kinds \X (1..MaxBuild)
    /\ Own \in Aliases /\ NoFile \notin Aliases
    /\ Unlisted \notin Entries
    /\ Entries \subseteq Seq(Listing)

VARIABLES
    upstream,   \* the index upstream: an entry for each version, or Unlisted
    garbled,    \* the index lists an entry whose version is not text
    rel,        \* AgentRelease and its AgentReleaseArtifact rows, as committed
    store,      \* the default storage: the build under each name, 0 when free
    run,        \* the mirror run in progress
    promise,    \* what the index listed for a release the mirror stored, until
                \* somebody changes its packages (history)
    loose,      \* names an operator, a fault or a dead worker let go of (history)
    forgotten,  \* names whose row could not be saved (history)
    moves, edits, faults

mirrorVars == <<upstream, garbled, rel, store, run, promise, loose, forgotten,
                moves, edits, faults>>

Versions == 1..MaxRelease
Names == Versions \X Kinds \X Aliases

\* One artifact row: its stored name, and the hash of the bytes as stored. The name
\* says which version and kind the bytes were stored for; the row may have moved on.
Package == [file : Names \cup {NoFile}, sha : 0..MaxBuild]
Release == [state : {"none", "staged", "published"},
            source : {"none", "uploaded", "mirrored"}, pkg : [Kinds -> Package]]

\* A run: the entries still to look at and the versions held when it began, then the
\* release it is at: what was downloaded of it and is still to store, the rows not yet
\* committed, the name just given, and the names remembered (stored_files).
Run == [pc : {"idle", "loop", "fetched", "saving", "stored", "undo"},
        index : [Versions -> Entries \cup {Unlisted}],
        todo : SUBSET Versions, held : SUBSET Versions,
        considered : Nat, ver : 0..MaxRelease, staged : Seq(Listing),
        draft : [Kinds -> Package], fresh : Aliases \cup {NoFile},
        written : SUBSET Names]

NoPackage == [file |-> NoFile, sha |-> 0]
NoRelease == [state |-> "none", source |-> "none", pkg |-> [k \in Kinds |-> NoPackage]]
NoRun == [pc |-> "idle", index |-> [v \in Versions |-> Unlisted], todo |-> {},
          held |-> {}, considered |-> 0, ver |-> 0, staged |-> <<>>,
          draft |-> [k \in Kinds |-> NoPackage], fresh |-> NoFile, written |-> {}]

MirrorInit ==
    /\ upstream = [v \in Versions |-> Unlisted]
    /\ garbled = FALSE
    /\ rel = [v \in Versions |-> NoRelease]
    /\ store = [n \in Names |-> 0]
    /\ run = NoRun
    /\ promise = [v \in Versions |-> <<>>]
    /\ loose = {} /\ forgotten = {}
    /\ moves = 0 /\ edits = 0 /\ faults = 0

-----------------------------------------------------------------------------------
(* Helpers.                                                                      *)

Listed(index) == {v \in Versions : index[v] # Unlisted}
Held(v) == rel[v].state # "none"

\* The bytes at a listed package's URL by now: 0 when there is nothing.
Served(v, p) ==
    IF upstream[v] # Unlisted /\ \E i \in 1..Len(upstream[v]) : upstream[v][i] = p
    THEN p.bytes ELSE 0

\* mutant: a storage that overwrites in place.
AvailableInPlace(v, k) == {Own}

\* Storage.get_available_name: the name asked for when it is free, else another. Names
\* with a random suffix are alike, so one is taken; a name that was let go of stands for
\* the next one storage makes up.
Available(v, k) ==
    LET suffixed == {a \in Aliases \ {Own} :
                        store[<<v, k, a>>] = 0 \/ <<v, k, a>> \in loose \cup forgotten} IN
    IF store[<<v, k, Own>>] = 0 THEN {Own}
    ELSE {a \in suffixed : a = CHOOSE b \in suffixed : TRUE}

\* history: the name is in use again.
Reused(n) == loose' = loose \ {n} /\ forgotten' = forgotten \ {n}

\* The mirror's transaction has inserted the version: anyone else who inserts it
\* waits for the commit or the rollback.
Inserting(v) == run.pc \in {"saving", "stored"} /\ run.ver = v

Fault == edits + faults < MaxUpsets /\ faults' = faults + 1

-----------------------------------------------------------------------------------
(* Upstream.                                                                     *)

\* A version is released, rebuilt, withdrawn or repaired.
Republish(v, e) ==
    /\ moves < MaxMoves
    /\ moves' = moves + 1
    /\ e # upstream[v]
    /\ upstream' = [upstream EXCEPT ![v] = e]
    /\ UNCHANGED <<garbled, rel, store, run, promise, loose, forgotten, edits,
                   faults>>

\* Somebody hand-edits the index: a version is written as a number.
Garble ==
    /\ moves < MaxMoves
    /\ moves' = moves + 1
    /\ garbled' = ~garbled
    /\ UNCHANGED <<upstream, rel, store, run, promise, loose, forgotten, edits,
                   faults>>

-----------------------------------------------------------------------------------
(* mirror_releases.                                                              *)

\* _read_index and the sort, then the versions already held: nothing this instance
\* does touches the first, so the two are one step. An entry whose version is not text
\* breaks the sort, and the run ends there before any release is looked at.
ReadIndex ==
    /\ run.pc = "idle"
    /\ ~garbled
    /\ run' = [NoRun EXCEPT !.pc = "loop", !.index = upstream,
                            !.todo = Listed(upstream), !.held = {v \in Versions : Held(v)}]
    /\ UNCHANGED <<upstream, garbled, rel, store, promise, loose, forgotten, moves,
                   edits, faults>>

EndRun ==
    /\ run.pc = "loop"
    /\ run.todo = {} \/ run.considered = MirrorLimit
    /\ run' = NoRun
    /\ UNCHANGED <<upstream, garbled, rel, store, promise, loose, forgotten, moves,
                   edits, faults>>

\* The loop moves on to the next entry, this one mirrored, skipped or failed.
NextEntry(v) == [run EXCEPT !.pc = "loop", !.todo = @ \ {v}, !.considered = @ + 1]

\* The entry the loop is at: newest first.
At(v) ==
    /\ run.pc = "loop" /\ run.considered < MirrorLimit
    /\ v \in run.todo /\ \A w \in run.todo : w <= v

\* mutant: one package that does not verify is left out, and the rest stored.
FetchesSome(v) ==
    LET entry == run.index[v] IN
    \E i \in 1..Len(entry) : Served(v, entry[i]) = entry[i].sha /\ entry[i].sha # 0

\* _fetch_package, for every package of a known kind: all there, and all what the
\* index states.
Fetches(v) ==
    LET entry == run.index[v] IN
    /\ entry # <<>>
    /\ \A i \in 1..Len(entry) : Served(v, entry[i]) = entry[i].sha /\ entry[i].sha # 0

\* if version in held: result["skipped"]
Skip(v) ==
    /\ At(v)
    /\ v \in run.held
    /\ run' = NextEntry(v)
    /\ UNCHANGED <<upstream, garbled, rel, store, promise, loose, forgotten, moves,
                   edits, faults>>

\* Every package is downloaded and verified before any row is written.
Fetch(v) ==
    /\ At(v)
    /\ v \notin run.held
    /\ Fetches(v)
    /\ run' = [run EXCEPT !.pc = "fetched", !.ver = v, !.staged = run.index[v]]
    /\ UNCHANGED <<upstream, garbled, rel, store, promise, loose, forgotten, moves,
                   edits, faults>>

\* mutant: a release that fails ends the run.
EndsTheRun(v) == NoRun

\* What a failure leaves of the run: the loop goes on to the next entry.
AfterFailure(v) == NextEntry(v)

\* MirrorRefused, or the download fails: logged, and the loop goes on.
Refuse(v) ==
    /\ At(v)
    /\ v \notin run.held
    /\ \/ ~Fetches(v) /\ UNCHANGED faults
       \/ Fault
    /\ run' = AfterFailure(v)
    /\ UNCHANGED <<upstream, garbled, rel, store, promise, loose, forgotten, moves,
                   edits>>

-----------------------------------------------------------------------------------
(* _mirror_one's transaction.                                                    *)

\* AgentRelease.objects.create: an administrator's upload of the same version in
\* the meantime makes it an IntegrityError.
CreateRelease ==
    /\ run.pc = "fetched"
    /\ run' = IF Held(run.ver) THEN AfterFailure(run.ver) ELSE [run EXCEPT !.pc = "saving"]
    /\ UNCHANGED <<upstream, garbled, rel, store, promise, loose, forgotten, moves,
                   edits, faults>>

\* The rows roll back. What was stored and remembered is deleted next.
RollBack == [run EXCEPT !.pc = "undo", !.fresh = NoFile,
                        !.draft = [k \in Kinds |-> NoPackage]]

\* stored.file.save(...): the bytes, under a name nobody else knows yet.
StorePackage ==
    /\ run.pc = "saving" /\ run.staged # <<>>
    /\ LET p == Head(run.staged) IN
       \E a \in Available(run.ver, p.kind) :
           /\ store' = [store EXCEPT ![<<run.ver, p.kind, a>>] = p.bytes]
           /\ run' = [run EXCEPT !.pc = "stored", !.fresh = a]
           /\ Reused(<<run.ver, p.kind, a>>)
    /\ UNCHANGED <<upstream, garbled, rel, promise, moves, edits, faults>>

\* stored.save(), then stored_files.append(...): the row is saved first, with the
\* digest of the bytes as stored, and the name remembered for cleanup after.
SavePackage ==
    LET k == Head(run.staged).kind
        name == <<run.ver, k, run.fresh>> IN
    /\ run.pc = "stored"
    /\ run.draft[k] = NoPackage
    /\ run' = [run EXCEPT !.pc = "saving", !.staged = Tail(@), !.fresh = NoFile,
                          !.draft[k] = [file |-> name, sha |-> store[name]],
                          !.written = @ \cup {name}]
    /\ UNCHANGED <<upstream, garbled, rel, store, promise, loose, forgotten, moves,
                   edits, faults>>

\* The bytes stored last, whose row is not saved and whose name is not remembered yet.
Stored == IF run.pc = "stored" THEN {<<run.ver, Head(run.staged).kind, run.fresh>>} ELSE {}

\* unique_agent_release_artifact_kind: the entry lists one kind twice.
SaveRefused ==
    /\ run.pc = "stored"
    /\ run.draft[Head(run.staged).kind] # NoPackage
    /\ run' = RollBack
    /\ forgotten' = forgotten \cup Stored
    /\ UNCHANGED <<upstream, garbled, rel, store, promise, loose, moves, edits,
                   faults>>

\* A statement, a storage call or the commit itself fails. Bytes that were stored but
\* not yet remembered stay where they are.
SaveFails ==
    /\ run.pc \in {"saving", "stored"}
    /\ Fault
    /\ run' = RollBack
    /\ forgotten' = forgotten \cup Stored
    /\ UNCHANGED <<upstream, garbled, rel, store, promise, loose, moves, edits>>

\* mutant: the mirror leaves no source, and the row's default is none it knows.
MirroredUnlabelled == [state |-> "staged", source |-> "", pkg |-> run.draft]

\* mutant: a mirrored release is published as it arrives.
MirroredPublished == [state |-> "published", source |-> "mirrored", pkg |-> run.draft]

\* The release as the mirror leaves it: staged, always.
Mirrored == [state |-> "staged", source |-> "mirrored", pkg |-> run.draft]

CommitRelease ==
    /\ run.pc = "saving" /\ run.staged = <<>>
    /\ rel' = [rel EXCEPT ![run.ver] = Mirrored]
    /\ promise' = [promise EXCEPT ![run.ver] = run.index[run.ver]]
    /\ run' = [NextEntry(run.ver) EXCEPT !.ver = 0, !.draft = NoRun.draft, !.written = {}]
    /\ UNCHANGED <<upstream, garbled, store, loose, forgotten, moves, edits,
                   faults>>

\* mutant: the name asked of storage is deleted, not the one it gave.
RememberedAsAsked == {<<n[1], n[2], Own>> : n \in run.written}

\* stored_files
Remembered == run.written

\* except Exception: default_storage.delete(name) for each remembered name; one that
\* cannot be deleted is logged. Then the loop goes on.
Undo ==
    /\ run.pc = "undo"
    /\ \E stuck \in SUBSET Remembered :
         /\ IF stuck = {} THEN UNCHANGED faults ELSE Fault
         /\ store' = [n \in Names |-> IF n \in Remembered \ stuck THEN 0 ELSE store[n]]
         /\ loose' = loose \cup stuck
    /\ run' = [AfterFailure(run.ver) EXCEPT !.ver = 0, !.staged = <<>>, !.written = {}]
    /\ UNCHANGED <<upstream, garbled, rel, promise, forgotten, moves, edits>>

\* The worker dies: the database rolls back, storage does not.
MirrorDies ==
    /\ run.pc # "idle"
    /\ Fault
    /\ run' = NoRun
    /\ loose' = loose \cup run.written \cup Stored
    /\ UNCHANGED <<upstream, garbled, rel, store, promise, forgotten, moves, edits>>

-----------------------------------------------------------------------------------
(* The administrator. Nothing here deletes bytes: Django leaves a replaced or a  *)
(* removed row's file where it is, and a row that is moved to another version or *)
(* another kind keeps the name it has. What one save of the release's form       *)
(* changes at once is several of these steps.                                    *)

Edit == edits + faults < MaxUpsets /\ edits' = edits + 1

\* A package is stored for the row and hashed as stored.
Uploaded(name) == [file |-> name, sha |-> store'[name]]

\* A version that can be taken: it is unique.
Free(v) == ~Held(v) /\ ~Inserting(v)

\* A release is uploaded with one package, staged or published at once.
Upload(v, k, b, state) ==
    /\ Edit
    /\ Free(v)
    /\ \E a \in Available(v, k) :
         /\ store' = [store EXCEPT ![<<v, k, a>>] = b]
         /\ rel' = [rel EXCEPT ![v] = [state |-> state, source |-> "uploaded",
                        pkg |-> [NoRelease.pkg EXCEPT ![k] = Uploaded(<<v, k, a>>)]]]
         /\ Reused(<<v, k, a>>)
    /\ UNCHANGED <<upstream, garbled, run, promise, moves, faults>>

\* A release is saved with no package: nothing in the form asks for one.
Announce(v, state) ==
    /\ Edit
    /\ Free(v)
    /\ rel' = [rel EXCEPT ![v] = [NoRelease EXCEPT !.state = state, !.source = "uploaded"]]
    /\ UNCHANGED <<upstream, garbled, store, run, promise, loose, forgotten, moves,
                   faults>>

Has(v, k) == rel[v].pkg[k] # NoPackage

\* The names a release's rows carry.
Carried(v) == {rel[v].pkg[k].file : k \in {j \in Kinds : Has(v, j)}}

\* A package is replaced, or added to a release.
Replace(v, k, b) ==
    /\ Edit
    /\ Held(v)
    /\ \E a \in Available(v, k) :
         /\ store' = [store EXCEPT ![<<v, k, a>>] = b]
         /\ rel' = [rel EXCEPT ![v].pkg[k] = Uploaded(<<v, k, a>>)]
         /\ loose' = (loose \ {<<v, k, a>>})
                       \cup (IF Has(v, k) THEN {rel[v].pkg[k].file} ELSE {})
         /\ forgotten' = forgotten \ {<<v, k, a>>}
    /\ promise' = [promise EXCEPT ![v] = <<>>]
    /\ UNCHANGED <<upstream, garbled, run, moves, faults>>

\* A package is removed, the last one too.
Drop(v, k) ==
    /\ Edit
    /\ Has(v, k)
    /\ rel' = [rel EXCEPT ![v].pkg[k] = NoPackage]
    /\ loose' = loose \cup {rel[v].pkg[k].file}
    /\ promise' = [promise EXCEPT ![v] = <<>>]
    /\ UNCHANGED <<upstream, garbled, store, run, forgotten, moves, faults>>

\* A package turns out to be of another kind.
Relabel(v, k, j) ==
    /\ Edit
    /\ Has(v, k) /\ ~Has(v, j)
    /\ rel' = [rel EXCEPT ![v].pkg = [@ EXCEPT ![j] = rel[v].pkg[k], ![k] = NoPackage]]
    /\ promise' = [promise EXCEPT ![v] = <<>>]
    /\ UNCHANGED <<upstream, garbled, store, run, loose, forgotten, moves, faults>>

\* The version is edited.
Rename(v, w) ==
    /\ Edit
    /\ Held(v) /\ Free(w)
    /\ rel' = [rel EXCEPT ![w] = rel[v], ![v] = NoRelease]
    /\ promise' = [promise EXCEPT ![w] = promise[v], ![v] = <<>>]
    /\ UNCHANGED <<upstream, garbled, store, run, loose, forgotten, moves, faults>>

\* Published is ticked or unticked.
Decide(v) ==
    /\ Edit
    /\ Held(v)
    /\ rel' = [rel EXCEPT ![v].state = IF @ = "staged" THEN "published" ELSE "staged"]
    /\ UNCHANGED <<upstream, garbled, store, run, promise, loose, forgotten, moves,
                   faults>>

\* The release is deleted, its artifact rows with it.
Remove(v) ==
    /\ Edit
    /\ Held(v)
    /\ rel' = [rel EXCEPT ![v] = NoRelease]
    /\ loose' = loose \cup Carried(v)
    /\ promise' = [promise EXCEPT ![v] = <<>>]
    /\ UNCHANGED <<upstream, garbled, store, run, forgotten, moves, faults>>

-----------------------------------------------------------------------------------

MirrorStep ==
    \/ ReadIndex \/ EndRun
    \/ \E v \in Versions : Skip(v) \/ Fetch(v) \/ Refuse(v)
    \/ CreateRelease \/ StorePackage \/ SavePackage \/ SaveRefused \/ CommitRelease
    \/ Undo

Administer(v) ==
    \/ \E p \in LocalPackages, s \in {"staged", "published"} : Upload(v, p[1], p[2], s)
    \/ \E s \in {"staged", "published"} : Announce(v, s)
    \/ \E p \in LocalPackages : Replace(v, p[1], p[2])
    \/ \E k \in Kinds : Drop(v, k) \/ \E j \in Kinds : Relabel(v, k, j)
    \/ Decide(v) \/ Remove(v)
    \/ \E w \in Versions : Rename(v, w)

MirrorNext ==
    \/ \E v \in Versions : Administer(v) \/ \E e \in Entries : Republish(v, e)
    \/ Garble
    \/ MirrorStep \/ SaveFails \/ MirrorDies

\* Beat starts the mirror every night, and a run goes on to its end.
MirrorFairness == WF_mirrorVars(MirrorStep)

-----------------------------------------------------------------------------------
(* Properties.                                                                   *)

MirrorTypeOK ==
    /\ upstream \in [Versions -> Entries \cup {Unlisted}]
    /\ garbled \in BOOLEAN
    /\ rel \in [Versions -> Release]
    /\ store \in [Names -> 0..MaxBuild]
    /\ run \in Run
    /\ promise \in [Versions -> Seq(Listing)]
    /\ loose \subseteq Names /\ forgotten \subseteq Names
    /\ moves \in 0..MaxMoves /\ edits \in 0..MaxUpsets /\ faults \in 0..MaxUpsets

\* A package row leads to bytes that hash to what the row says, so what a fleet is
\* told to expect is what it downloads: no rollback's cleanup, reused name or second
\* upload of the version takes or changes them.
BytesAreStated ==
    \A v \in Versions, k \in Kinds :
        Has(v, k) =>
            /\ rel[v].pkg[k].sha # 0
            /\ store[rel[v].pkg[k].file] = rel[v].pkg[k].sha

\* The packages are the entry's, each with the digest it states, and no others.
AsListed(pkgs, entry) ==
    /\ \A i \in 1..Len(entry) : pkgs[entry[i].kind].sha = entry[i].sha
    /\ \A k \in Kinds : pkgs[k] # NoPackage => \E i \in 1..Len(entry) : entry[i].kind = k

\* A release the mirror stored, and nobody has edited, has every package the index
\* listed for it that this plugin knows, each with the digest the index stated.
MirroredIsWhole == \A v \in Versions : promise[v] # <<>> => AsListed(rel[v].pkg, promise[v])

\* Bytes are a committed row's, or the run in progress will see to them, or somebody
\* let go of them.
Accounted(n) ==
    \/ \E v \in Versions : n \in Carried(v)
    \/ n \in run.written \cup Stored \cup loose

\* A release that fails half-way takes its bytes with it, whichever step failed and
\* whoever took the version meanwhile: at most the one package whose row was being
\* saved stays.
CleanupIsComplete == \A n \in Names : store[n] # 0 => Accounted(n) \/ n \in forgotten

\* _mirror_one: "Fetch and store one release, or leave nothing behind."
LeavesNothingBehind == \A n \in Names : store[n] # 0 => Accounted(n)

\* An entry the mirror has no reason to refuse.
Sound(entry) ==
    /\ entry # <<>>
    /\ \A i \in 1..Len(entry) :
           /\ entry[i].sha = entry[i].bytes /\ entry[i].sha # 0
           /\ \A j \in 1..Len(entry) : entry[i].kind = entry[j].kind => i = j

\* The newest entries the limit lets through.
Recent == {v \in Listed(upstream) : Cardinality({w \in Listed(upstream) : w >= v}) <= MirrorLimit}

\* Once upstream and the administrator stop, every recent release that can be stored
\* is here, whatever is wrong with the other entries of the index and whatever failed
\* on earlier nights; an index with a version that is not text is the one exception.
UpstreamArrives ==
    <>[](garbled \/ \A v \in Recent : Sound(upstream[v]) => Held(v))
====
