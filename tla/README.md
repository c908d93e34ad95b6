# ADL agent plugin: specifications

TLA+ models of `plugins/adl_agent_plugin`, the server side of the ADL agent: a
Django/Wagtail plugin that takes files pushed by agents on country servers, keeps a
ledger of them, stages and decodes them, and watches the machines that send them.
Paths below are relative to `src/plugins/adl_agent_plugin/src/adl_agent_plugin/`.

    tlc -config MCLedger.cfg MCLedger      # any row of "Runs"
    tlapm LedgerProofs.tla                 # a few minutes; any module of "Proofs"

## The system

Everything is driven by requests of one agent per machine (sync, manifest, upload,
heartbeat, pair), by Celery tasks (drain, fleet sweep, nightly sweeps, release mirror)
and by an administrator in Wagtail. There are no in-process threads to speak of: the
actors are web workers, Celery workers and admin requests, and what they share is the
database (row locks, one commit per statement outside an `atomic` block), the default
storage (no transactions) and the cache (the nudge latch).

| Component | State it keeps | Operations | Talks to |
|---|---|---|---|
| File ledger (`models.py`, `manifest.py`, `uploads.py`) | `AgentStationDataFile`: name, size, mtime, hash, storage name, status, `processed_at`; the bytes | manifest question, `record_upload`, verdicts | agent, storage, drain |
| Drain (`plugins.py`, `drain.py`) | a waiting list in the worker's memory | list, read, decode, flush, mark | ledger, core's pipeline, FTP plugin's decoders |
| Retention (`retention.py`) | an iterator over prunable rows | prune a row, delete its bytes on commit | ledger, storage |
| Re-process (`reprocessing.py`, `bulk_actions.py`) | ticked rows in the request | put back to received, or forget the hash and bump the version | ledger, configuration |
| Drain scheduling (`tasks.py`) | the latch in the cache, queued tasks, core's station locks | nudge, drain, scheduled pass | upload view, drain |
| Configuration (`models.py` handlers, `serialization.py`) | connections, links, mappings, device tier, `config_version` | every save and delete, the sync, the app's PATCH | agent, admin |
| Fleet liveness (`health.py`, `fleet.py`, `heartbeat.py`) | the device's stamps, `liveness_state`, transitions, published verdicts | heartbeat, sweep, publish, revoke | agent, core's diagnostic |
| Pairing (`credentials.py`, `authentication.py`) | code, expiry, token hash, `revoked_at` | issue, redeem, revoke, authenticate | admin, agent |
| Collection passes (`cycles.py`) | `AgentCyclePass` rows | store what a heartbeat carries | heartbeat |
| Release mirror (`mirror.py`, release models) | `AgentRelease`, `AgentReleaseArtifact`, the packages' bytes; in a run, the names it has stored | nightly run; upload, edit, rename, publish, remove | upstream index, storage, admin |
| Update feed (`updates.py`) | the device's pin | offer a release, serve a package | agent, releases |
| Request readers (`manifest.py`, `entries.py`, `uploads.py`, `limits.py`) | none of their own | the floor and limits of a sync, a manifest page, an upload as it arrives | agent, ledger |

What is hard, and what makes each component correct:

- **Ledger, drain, retention, re-process** all do the same thing: load rows, work for
  seconds or minutes, save some columns of the copy. Only `record_upload` locks. Correct
  means: a verdict is about the bytes the row describes, a row's storage name leads to
  those bytes, nothing the machine has been told not to send again can be lost, the
  staging area does not leak, and the ledger catches up with the vendor's folder.
- **Scheduling** is best effort by design; correct means that a burst needs one drain,
  that two runs never drain one file twice, and that the schedule catches what a nudge
  misses.
- **Configuration** is written and announced in two commits and read in several
  statements; correct means that the number can be believed and that every machine
  catches up.
- **Pairing** has two secrets, four writers and answers that get lost; correct means that
  a code is worth one token, that what was cut off stays cut off and learns of it, and
  that a rotation leaves no gap.
- **Liveness** has four writers of one row, a heartbeat, the sweep, a revoke and the edit
  form, and a verdict that depends on time; correct means a coherent history, and that
  silence, a stuck machine and a revocation are noticed in the end.
- **Releases** are rows in a transaction and bytes in a storage that has none, fetched
  from an index somebody edits while an administrator edits the same versions; correct
  means whole or not at all, bytes that are what the row states, nothing left behind,
  and one bad release that does not keep out the rest.
- **The feed** decides twice, when it offers and when it serves; correct means that a
  machine installs only what it may have at the second moment, and gets there in the end.
- **Readers** answer with what they read a moment ago: limits told by one release and
  enforced by the next, a link switched off between manifest and upload, a file written
  to while it is read. Correct means that silence is never taken for "held" wrongly, that
  what is staged is what its hash says, and that every file that is due arrives.

## Modules

| Module | Models | Checked by | Proved in |
|---|---|---|---|
| `Ledger` | ledger, drain, retention, re-process of one station link | `MCLedger` | `LedgerProofs` |
| `Delivery` | nothing of the code: what the ledger promises, file by file | through `LedgerDelivery` | `LedgerProofs` |
| `LedgerDelivery` | the mapping from `Ledger` to `Delivery` | `MCLedger` | `LedgerProofs` |
| `Intake` | a machine's cycle against the sync's floor and limits, the manifest and the upload's checks | `MCIntake` | `IntakeProofs` |
| `Config` | `config_version`, its signal handlers, the sync, the device form | `MCConfig` | `ConfigProofs` |
| `Nudge` | latch, queued drains, schedule, station locks, pause | `MCNudge` | `NudgeProofs` |
| `Fleet` | one machine's heartbeats, sweep, published verdict, revoke, the edit form over its row | `MCFleet` | `FleetProofs` |
| `Pairing` | one device's codes and tokens, the edit form over them, calls in flight | `MCPairing` | `PairingProofs` |
| `Mirror` | the nightly mirror run, the administrator's releases, the packages' storage | through `Feed` | `MirrorProofs`, `MirrorSafety` |
| `Feed` | offers, pins and downloads, over `Mirror` | `MCMirror` | `MirrorProofs`, `MirrorSafety` |
| `Shelf` | nothing of the code: what a fleet is promised about releases | through `FeedShelf` | `MirrorSafety` |
| `FeedShelf` | the mapping from `Feed` to `Shelf` | `MCMirror` | `MirrorSafety` |

`Feed` EXTENDS `Mirror` and composes the two: every step is a step of one, and the
administrator's budget of edits is shared. `Intake` and `Ledger` meet in the ledger row:
`Intake` has how an entry comes to be verified and recorded, in one step at the end,
`Ledger` has what that recording is made of and everything that happens to the row
afterwards.

### Ledger

A *version* of a file is a number and stands for its bytes, size, mtime and hash at
once, because `record_upload` takes all four from one verified entry. `store` maps
storage names to versions, 0 being a free name; names belong to a file, since the upload
path contains the station link and the file name, and storage adds a suffix when a name
is taken. `row` has the fields later steps read; `aged` is "`processed_at` lies behind
the cutoff".

| Code | Action |
|---|---|
| manifest diff, the agent sends a file | `Wanted`, `Offer` |
| body refused or connection lost (`uploads.receive`) | `LoseUpload` |
| `record_upload`: lock, write bytes, save, commit, delete the superseded | `StoreBytes`, `CommitUpload`, `DeleteSuperseded`, `UploadDies` |
| `waiting_for`, `drain_station_link`, `_drain_file` | `DrainList`, `DrainRead`, `DrainUnreadable` |
| core's flush marker, `StagedFile.save`, `mark_failed` | `DrainFlush`, `MarkProcessed`, `MarkFailed`, `DrainDies` |
| `prunable_for(...).iterator()`, `prune_bytes`, its `on_commit` | `SweepList`, `Prune`, `PruneUnlink`, `PruneFails`, `SweepDies` |
| bulk action, `request_reprocess` | `RedoLoad`, `Redecode`, `Reoffer` |

What an actor keeps of its copy is what it uses later: the drain and the sweep the
storage name (the sweep passes it to the delete), the bulk action whether there were
bytes. Every save names its columns, so a save from an old copy overwrites those and
leaves the rest, exactly as `update_fields` does.

Two history variables say when a load-to-save window was crossed: `overtaken[x]` holds
the files written since actor `x` loaded, and `tainted[f]` becomes true when `x` saves
one of them. The code does let this happen: run `ledger_verdict` shows where. The
invariants exempt tainted rows, which states precisely what the code does guarantee:
everything, except after such a crossing. It also means the exemption is the code's own
gap and not a fault or a retry: rollbacks, dead workers, reused names, pending deletes,
reordered and repeated uploads are all inside the guarantee.

Two checks rest on behaviour outside this repository: storage never hands out a name
that is in use (Django's `get_available_name`), and core holds one lock per station
while it drains, so there is one drain per station link. A station's decoder is there.
The agent's scan window (watermark, re-offer points) is taken as wide enough for the
file in question; `Intake` has the window, and the seven days a request to send again
lives (`REOFFER_REQUEST_TTL`).

### Delivery and LedgerDelivery

`Delivery` is the page one would show the people who run the machines. A file has a
version the ledger describes, bytes that are held or not, a word to the machine not to
send it again (`vouched`), and a status; it may arrive, be processed only when its
records are in the database, be pruned only when it is processed, be asked for again only
when its bytes are gone. There are no requests, copies or names in it. What follows from
it, `NeverLost`, is that what the machine is told not to send is held or persisted.

`LedgerDelivery` maps the ledger to it. A file's bytes are held when the name its row
*carries* leads to the *version the row describes*, so any write, rollback, cleanup or
late delete in the staging area that touched another row's bytes would be a step
`Delivery` does not have. A tainted row maps to "crossed", about which nothing is
promised. `DeliveryIsKept` is checked in run `ledger` and proved in `LedgerProofs`.

### Intake

The readers keep no state, so what is modelled is the conversation: two steps of it, a
sync and a manifest, or a manifest and an upload, may see different configurations.

| Code | Operator or action |
|---|---|
| `limits.concurrent_uploads` | `ConcurrentUploads`, over settings that are absent, text, zero, sensible or too large |
| `manifest_watermark`, the sync's limits | `Floor`, `Told`, `Sync` |
| `read_manifest`, `parse_entries` | `ReadManifest`: over the limit or with one unreadable entry, refused whole |
| `diff_against_ledger` | `Considered`, `Requested`, `Reported`, in `Page` |
| the upload view before the body is read | `Send` |
| the loop of `uploads.receive`, `_guard_size` | `Chunk`, `Fits` |
| the end of the gzip stream, `_verify`, `record_upload` | `Finish`, `Verified` |
| station switch, start date, a new deployment, re-process of pruned files | `Switch`, `SetStart`, `Deploy`, `Reoffer`, `Lapse` |

The bytes of a version are a sequence of blocks (`Content`, over any set `Blocks`) and
the hash of a sequence is the version it belongs to, which is injective by assumption. A
file can be written to while the agent reads it: what arrives is a part of what was
promised followed by what the file has become (`Readings`), or, if the body is cut, any
beginning of that. `silent` remembers every version an answer said nothing about and
`kept` every version that was ever staged, which is what `SilenceMeansHeld` compares. A
page with an unreadable entry, a lost page and a body cut short all count as faults.

The agent is outside the repository; its part follows the agent guide: sync, offer what
lies above the floor in pages, send what is asked for.

### Config

A connection stands for its row, links and mappings, which all find the one device the
same way. `writer` is a row that is saved and whose `post_save` has not run: two
commits, as Django sends the signal after the statement. A delete's signals commit with
it, and so does the edit form, whose view is atomic in Wagtail (external). `form` is the
number an open form's copy carries. `sync` has the three reads of one sync in their
order: the device with the token, the connections and links, the number last.

### Nudge

The only fact about time that matters is kept: the countdown is as long as the latch
lives, and starts after the latch was taken. So a drain is `Due` only when its latch is
gone. What core does with a run (visit each station, lock, list, drain, release) is
external, modelled from what `get_station_data` relies on. `excused` remembers the files
whose own drain met a lock, a pause or a fault: these are the schedule's.

### Fleet

One machine and its connection. Time does not end: a moment is kept as its age in
heartbeat intervals and stops growing where no comparison can tell any more
(`BeatCap`, `WorkCap`, `NewsCap`), which leaves a finite model with real liveness. The
`now` an actor captured is its `lag`. `LivenessOf` is `liveness_of`, ladder and
fallbacks. `Record` is `record_liveness`, one step because it reads and writes under its
row lock. `BeatBegin`, `BeatStamp` and `BeatRecord` are the three commits of a heartbeat.
`RevokeCut` and `RevokeRecord` are the two of a revoke. Storing the passes a beat carries
is part of `BeatRecord`: it cannot fail the beat.

The device's edit form writes the row too. `FormLoad` takes a copy without a lock and
`FormSave` (`AgentDevice.save`, which names no columns) puts back all of it: the stamps,
`liveness_state` and `liveness_since`, none of them on the form. A form that loads while
the machine is online and saves after the sweep has recorded offline moves the state with
no transition row, and the next row then begins where the log did not end. The code has
no guard against it, so `LogIsAChain` tells it apart: `tainted` is true from a save that
puts a state over another the log ends on until the next row, and that one row is not
held against the log. Heartbeats, sweeps and revokes, which all go through
`record_liveness`, have no such exemption. The verdicts need none either: they are worked
out anew from the columns, which a stale copy only makes older. `RevokedReadsUnknown`
exempts a form that was loaded between a revoke's two commits and saved after them, since
a revoked machine is not swept again.

A machine that reports an older cycle reports nothing new. Paused connections (not
published), `last_seen_at` (read by nothing here) and the 90-day pruning of transitions
are left out.

### Pairing

One device and the machines its codes are typed into. Codes and tokens are fresh random
strings, so they are numbers: of the issue, and of the redemption. `origin` remembers the
code a token was given for. Redemption is one step because it holds the row's lock from
the look at the code to the commit; the edit form is two, and saves all it loaded.
Issuing and revoking save named columns that no copy decides. A refused code changes
nothing and is no step. `call` is the device a request was authenticated as; `SavedByName`
is what the request writes of these columns, which is nothing.

`crossed` and `tainted` do for the form what `overtaken` and `tainted` do in `Ledger`.

A device's row meets the others' only in codes and tokens being unique, which fresh
strings are, so one device is enough. `Fleet` has the same redemption and revocation as
they bear on the history of a machine.

### Mirror

A version's number is its place in `agent_release_sort_key`'s order, a build stands for
bytes and their sha256. `upstream` is the index as it is by now, and it can change
between the run's reading of it and the downloads; `Entries` says what an entry can be.
`run` is one `mirror_releases`.

| Code | Action |
|---|---|
| `_read_index`, the sort, `held` | `ReadIndex` |
| the loop, skip, limit | `At`, `Skip`, `NextEntry`, `EndRun` |
| `_fetch_package` for each known kind | `Fetch`, `Refuse` (`Fetches`) |
| `AgentRelease.objects.create` | `CreateRelease` |
| `stored.file.save`, `stored.save`, `stored_files.append` | `StorePackage`, `SavePackage`, `SaveRefused`, `SaveFails` |
| the commit | `CommitRelease` |
| `except`: delete the remembered names | `Undo` |
| the worker dies | `MirrorDies` |
| the admin's create form, with a package or with none | `Upload`, `Announce` |
| the packages panel: replace or add, remove, another kind | `Replace`, `Drop`, `Relabel` |
| the version, the published tick, deletion | `Rename`, `Decide`, `Remove` |

`SavePackage` keeps the code's order: the row is saved before the name is remembered, so
a row that cannot be saved leaves its bytes. `forgotten` is a history variable for
exactly those names, `loose` for the names that an operator's replacement or removal, a
dead worker or a delete that failed has let go of.

The release form asks for nothing but a version: no package is required, the last one can
be removed, and the version itself can be edited, which moves the release as it is. A row
that goes to another version or becomes another kind keeps the name its bytes were stored
under, so a name does not tell whose it is (`Package.file` is a full name). One save of
the form that changes several things is several of these steps.
 Storage is external: a name in use is
never given out again. An index in which a version is not text breaks the sort, which
stands outside the loop that shields one release from the others, so the whole run ends;
the model has it (`garbled`), `UpstreamArrives` exempts it.

### Feed

`OfferedRelease` and `OfferFor` are `offered_release` and `offer_for`; `Serves` is
`artifact_offered_to`, which asks the same question again when the package is downloaded.
`Ask`, `NotOffered` and `Download` are a machine's side of it as the guide describes it:
it takes an offer that is newer or pinned, and installs what hashes to what it was told.

### Shelf and FeedShelf

`Shelf` is to releases what `Delivery` is to files. A version is there or not, staged or
published, and has a build for each package; a machine has a pin and what it runs. A
release arrives in one step, whole, with the bytes its entry states and for nobody to
install yet; everything else that becomes of it is the administrator's doing, to one
release (`Rewrite`) or from one version to another (`Rename`), and is counted in `edits`;
a machine installs its pin, or the newest release there is, as it is at that moment. There
is no index, run, storage, offer or fault in it. What follows from it, `HeldStands`, is
that a release, bytes and all, stands as it is while `edits` does.

`FeedShelf` maps the feed to it. The build of a package is what the storage has under
the name the package's *row* carries, as a download reads it. So bytes stored under a
name in use, a cleanup that takes one file too many, a release committed in parts, a
rollback that forgets half of what it did and a download served on the strength of an
old offer would each be a step `Shelf` does not have. `ShelfIsKept` is checked in run
`mirror` and proved in `MirrorSafety`. `InstallsAreAllowed`, an action property of `Feed`
alone, is part of what it says and is proved by itself.

## Runs

| Run | Asks | Bounds |
|---|---|---|
| `ledger` | is the ledger true under every interleaving, one fault, one re-process, and does it implement `Delivery` | 1 file written twice, 2 uploads at once, 4 storage names |
| `ledger_live` | does it converge, is every file judged | as above, 3 names, no re-process |
| `ledger_verdict` | violation: a verdict lands on a newer row | 1 upload at a time, no fault |
| `config` | can the number be believed, does every machine catch up | 2 machines, 1 connection, 2 writers, 2 edits, 1 form |
| `nudge` | one drain per burst and per file, and the schedule catches the rest | 1 station, 3 files, 1 fault, 1 pause |
| `fleet` | history, silence, stuckness, revocation, published verdict | degraded at 1, offline at 2, stuck after 1, lag 1, 1 upset: a dead worker, a row that cannot be written or a form |
| `fleet_skew` | violation: a late clock becomes the verdict | clock 3 intervals behind, no fault |
| `pairing` | one token per code, nothing dead comes back, no gap, cut off is learned | 2 machines, 3 codes, 2 redemptions, 1 lost answer |
| `pairing_form` | violation: the edit form undoes a revoke | 1 machine, 1 code |
| `mirror` | whole, as stated, nothing left behind, machines unmoved by the mirror, does every step keep the promise of `Shelf`, and does everything arrive | 2 versions, 3 kinds of entry, 2 upstream changes, 2 edits or faults, 3 names, 1 machine |
| `mirror_twice` | violation: an entry that lists one kind twice leaves bytes behind | 1 upstream change, no edit, no fault |
| `intake` | is silence honest, is what is staged what was promised, does every due file arrive | 2 files of 1 station, 3 contents, cap of 1 block, 2 writes, 2 changes by HQ, 1 fault |

Why the bounds are enough. In the ledger files share nothing but the actors' lists, so
one file shows what can go wrong with a row; two versions and two uploads give an old
one that is overtaken, repeated or reordered; four names are the file's own, one for
each of two uploads in flight and one that is pending deletion. `ledger` stops exploring
behind a taint of its only file, where every property holds by its exemption. In `config`
the second machine is there for a connection that moves and the second writer for two
announcements crossing. Three files in `nudge` are one that takes the latch, one that
finds it taken and one that comes after the list was read. In `fleet` the thresholds are
the least that keep the four rungs of the ladder apart, and a lag of one interval is
already enough for an actor to judge by a `now` another has overtaken. A form there is
saved right after the first write it misses, within the interval (`Prompt`): one missed
write is what it takes to put a state, a stamp or a revoke back. `FleetProofs` does
without that bound. In `pairing` two
machines are a machine and the one that replaces it, and three codes one that paired, one
that was outstanding at a revoke and one issued after it.

In `mirror` the entries are a whole one, one whose second package is not what the index
says and one that lists a kind twice; two versions are one that is held or fails and one
that must not suffer for it; three names are the one asked for and one for each of two
writers who find it taken. Edits and faults share a bound (`MaxUpsets`), so two edits, or
an edit and a fault, or two faults meet in a run. What the run has of removals, moves and
renames is one such step before or after another; the proofs have any number. The limit
is two, so the run reaches it, but with two versions it never cuts an entry off: three
versions are past what a run can finish. In `intake` the contents are one block, the same size rewritten, and one block more than the cap, which
is what tells a check of size from a check of bytes and a cap at the end from a cap on
the way; pages of one and of two entries are a page that holds the folder and one that
does not, in either order; two days are before and after a start date.

CHECK_DEADLOCK is off in every run but `intake`: the vendor may stop writing, the
administrator owes nothing, and the bounds on edits, faults and files end a behaviour. In
`intake` the machine's cycles never end, and TLC checks that they cannot get stuck.

### Fairness

Assumed: the agent keeps running cycles (`Offer`), syncs at the top of each, web workers
finish requests they began, a save goes on to its signal, Celery Beat keeps starting the
drain, the sweeps and the fleet sweep, a cache entry with a timeout expires, time
passes, Beat starts the mirror each night and a run goes on to its end, a machine asks
for updates and takes what it is served. All of it is weak fairness. Not assumed: that
the vendor writes, that the administrator acts, that a machine heartbeats or cycles,
that an upload arrives, that a fault occurs or does not, that anybody issues or types a
code, that upstream ever repairs an entry. Of `nudge`, `NudgeSuffices` is a state
property and owes nothing to the schedule's fairness, `ScheduleIsTheNet` does. In
`pairing` all that is fair is that a machine with a token goes on calling.

### What the violations show

Each is listed under `findings` in `PROJECT.json` with the sentence it contradicts.

1. **A verdict for bytes that are gone** (`ledger_verdict`). The drain decodes version 1;
   version 2 is delivered; the stamp marks the row processed. Version 2 is never decoded.
2. **A clock as a verdict** (`fleet_skew`). A machine whose clock is late is called stuck
   as it reports a cycle it has just finished.
3. **A revoke undone** (`pairing_form`). The device form loads; the device is revoked; the
   form saves, and the destroyed code (or token) works.
4. **Bytes nobody names** (`mirror_twice`). An entry lists one kind twice; the second
   package is stored, its row is refused by the unique constraint, the rollback deletes
   the first package and not the second, and the next night does it again.

Other gaps between code and comment are part of the models and named by the exemption a
property makes: a file the sweep strands by pruning a row that was delivered again since
its query, and a re-process that acts on an overtaken copy (`tainted` in `Ledger`), a
number a stale device form writes over and a connection whose move is announced to its
new machine only (`reused` and `moved` in `Config`), a state the same form moves without
a transition row (`tainted` in `Fleet`), a revoke cut off between its two commits
(`revoking = "lost"`), a garbled index that ends a whole run (`garbled` in `Mirror`). No
property covers what it exempts: the hazards these are say so in `PROJECT.json`.

## Proofs

Eight modules hold 37 theorems, each for any sets and any bounds; all that is assumed is
the named ASSUME of the component (`LedgerAssumption`, `MirrorAssumption`,
`FeedAssumption`, ...), which TLC evaluates in every run.

| Module | Theorem | Statement |
|---|---|---|
| `LedgerProofs` | `TypeCorrect` | `Spec => []TypeOK` |
| | `VerdictSafe` | `Spec => []VerdictIsTrue` |
| | `BytesSafe` | `Spec => []BytesAreTheRows` |
| | `LossFree` | `Spec => []NothingLost` |
| | `PruneSafe` | `Spec => PruneOnlyRedundant` |
| | `LeakFree` | `Spec => []NoOrphanBytes` |
| | `LedgerImplementsDelivery` | `Spec => DeliveryIsKept` |
| | `NothingPromisedIsLost` | `Spec => []Promise!NeverLost` |
| `PairingProofs` | `PairingTypeCorrect` | `Spec => []TypeOK` |
| | `SingleUse` | `Spec => []CodeIsSingleUse` |
| | `DeadForGood` | `Spec => []EndedStaysEnded` |
| | `NoWayBack` | `Spec => []RevokeNeedsNewCode` |
| | `NoGap` | `Spec => []PairedIsHeld` |
| | `OneMachineSpeaks` | at all times, two machines whose tokens are both accepted are one |
| `IntakeProofs` | `IntakeTypeCorrect` | `Spec => []TypeOK` |
| | `StagedSafe` | `Spec => []StagedAsPromised` |
| | `SilenceIsSafe` | `Spec => []SilenceMeansHeld` |
| | `FloorReaches` | `Floor` is no later than the start date or than a file asked for again |
| | `UploadsAreBounded` | `ConcurrentUploads(s, e) \in 1..Most` for any setting |
| `MirrorProofs` | `FeedTypeCorrect` | `Spec => []TypeOK` |
| | `InstallsSafe` | `Spec => InstallsAreAllowed` |
| `MirrorSafety` | `BytesSafe` | `Spec => []BytesAreStated` |
| | `WholeOrNothing` | `Spec => []MirroredIsWhole` |
| | `CleanupSafe` | `Spec => []CleanupIsComplete` |
| | `MirrorIsApart` | `Spec => MirrorMovesNoMachine` |
| | `FeedImplementsShelf` | `Spec => ShelfIsKept` |
| | `ReleasesStand` | `Spec => Promise!HeldStands` |
| `ConfigProofs` | `ConfigTypeCorrect` | `Spec => []TypeOK` |
| | `NumberIsSafe` | `Spec => []NumberTellsAll` |
| | `SyncsAreWhole` | `Spec => SyncsCatchUp` |
| `NudgeProofs` | `NudgeTypeCorrect` | `Spec => []TypeOK` |
| | `OnceIsOnce` | `Spec => []DrainedOnce` |
| | `NudgeIsEnough` | `Spec => []NudgeSuffices` |
| `FleetProofs` | `FleetTypeCorrect` | `Spec => []TypeOK` |
| | `LogIsSafe` | `Spec => []LogIsAChain` |
| | `SilenceIsLasting` | `Spec => SilenceStands` |
| | `StuckIsLasting` | `Spec => StuckStands` |

**Ledger.** None of the safety properties is inductive. That a stamp is true depends on
what the drain read, which depends on the name its copy carries still leading to the
bytes it led to; that depends on no delete being pending for that name, and so on round.
The inductive invariant is `Typed /\ Inv`. `Inv` is stated per file, in three parts:
*row* facts (the properties themselves, with the row's status and hash tied to
`persisted` and `rejected`), *name* facts (a name the row carries is under no pending
delete, two uploads of one file are never both inside the lock, the name an upload has
stored under is its own), and *copy* facts (an actor whose copy has not been overtaken
holds what the row still says). The last is where `overtaken` earns its place: an action
that writes the row need not re-establish the copies' facts, only an action that loads
does.

The module has one lemma per action and a frame lemma for each part, so that an action
that touches neither rows nor names is one line. `InvAlways` combines them, and the
theorems follow from it with a temporal step. `LeakFree` needs no more than `Typed /\ Inv`
besides itself: each stored name is accounted for by a row, an upload or a delete that is
still to run, and each step hands a name from one of them to another.

**Delivery.** The refinement, the second half of `LedgerProofs`, adds two facts to that
invariant: every version stored, in flight or in the drain's hands was written by the
vendor (`FromVendor`), and an actor has copies only of files the ledger knows
(`CopiesAreKnown`). Then each action is one step of `Delivery` or none: `CommitUpload`
is `Arrive`, a flush is `Persist`, the verdicts are `Process` and `Fail`, `Prune` and
`Redecode` and `Reoffer` keep their names, a save from an overtaken copy is `Cross`, and
everything in the staging area stutters, because `BytesAreTheRows` says that the name an
untainted row carries is not the one written or deleted. `NothingPromisedIsLost` proves
the promise's own consequence through the mapping.

**Pairing.** Besides `PairingAssumption` there is `ClosedAssumption`: the value that
stands for "no copy" is not a row. The strengthening is small. That the row's token is
never a dead one needs it to be the last one minted; that a code is used once needs no
token to have been given for the code the row still has; a form's save keeps both only
because an uncrossed copy *is* the row (`Window`). `NoGap` needs the machines too: what
is on its way to a machine is newer than what it holds (`Copies`), so an answer never
overwrites a working token, and what is refused is not the row's token, because the
row's token is never revoked.

`OneMachineSpeaks` needs no exemption for the form. A form can bring a dead token back
to the row, but tokens move only from an answer to the machine it was meant for
(`OneSpeaks`), so the token it brings back is still one machine's.

**Intake.** The types need to know of offers: a file that is on a page, asked for or on
its way is in the folder (`Offered`), and the floor is a day because every set of days
there is has an earliest. `StagedAsPromised` and `SilenceMeansHeld` are proved together,
by an invariant `Safe` that adds one fact, `Vouched`: a hash the ledger has for a file
is that of a version that was staged once. It is what makes the diff's silence honest,
since the diff compares hashes and never looks at bytes; and it is kept by `Finish`
because the hash is taken of the bytes written down, whatever the entry said.
`FloorReaches` and `UploadsAreBounded` are about the two operators a machine's cycle is
told by.

**Mirror and feed.** `MirrorSafety` proves the invariant `Safe` over the types of
`MirrorProofs`. None of its properties stands alone: that a row's bytes are its own needs
to know that the cleanup of a failed run deletes none of them, and that needs to know
which names the run remembers. So every stored name is carried by a row (`Rows`), known
to the run or let go of (`Whose`), and never two of these: no two rows share a name,
though the rows move between versions and kinds (`OwnNames`), the names of a run are its
own (`Kept`), agree with the rows it has not committed (`Drafts`), and what is still to be
stored and what has its row make up what the index listed (`Following`), which is what
makes a committed release whole. `MirrorIsApart` follows because a run writes only free
names and commits only staged releases. `InstallsSafe` is about one step, and needs only
types: the download asks again.

**Shelf.** `Safe` is nearly all the refinement needs: a run writes only free names, so
it moves no build of a release that is there (`Rows`, `Kept`), and when it commits, what
it has stored is what the entry stated (`Drafts`, `Following`). One fact is added,
`Asked`: a machine never holds an offer of the version it runs. `CommitRelease` is then
`Arrive`, an edit of the version is `Rename`, every other of the administrator's steps is
a `Rewrite` of one release, `Download` is `Install`, and all the rest, the failures and
the cleanup among them, stutters. `ReleasesStand` is proved of `Shelf` alone, where only
`Rewrite` and `Rename` touch a release that is held, and carried to the feed by the
refinement: there it says of storage, rows and cleanup together that nothing but an edit
changes what a download yields.

**Config.** The number alone is not inductive, since a sync carries two readings to a
machine before it reads the number. `Telling` adds that a sync nobody has written across
agrees with the rows it has read so far, and that a machine is never ahead of a number no
stale form has written over: then a bump always takes the number past the machine. The
signal of a saved row may find another device by the time it runs, and the proof shows
where `moved` is needed: a link's bump that follows its connection to another machine.

`SyncsAreWhole` is the step the liveness of the component rests on, and has none of its
exemptions: an answer nobody has written across is the whole configuration, whatever the
number on it, and nothing but a write makes it untrue.

**Nudge.** `DrainedOnce` rests on the lists: a file on one is undrained and its station is
locked by the run whose list it is, and a lock has one holder. `NudgeSuffices` rests on
the latch: while it is held, the drain it promises is queued or about to be, so what is
left to that drain was there before it read.

**Fleet.** `LogIsAChain` is inductive as it stands. `record_liveness` keeps it whoever
calls it (`RecordKeepsChain`), which is the point of the lock and the re-read there; the
form's save is the one other step that moves the state, and keeps it only by being told
apart (`FormKeepsChain`). The theorem says so for any number of heartbeats at once and
for forms that stay open while others write. The other two theorems are about the ladder
rather than the log: a column of the row is made younger by the machine's own calls, or
by a form that puts back what it loaded, and by nothing else (`ColumnsAge`), and each
rung reads only some of the columns, so silence survives everything but a call and a
form, and being stuck survives even a call. They need that a paired machine has a time it
was paired at, on the row and on a form's copy (`Enrolled`), which is what `liveness_of`
falls back to. Both were checked on `MCFleet` before they were proved, and are stated in
`FleetProofs`.

Only model-checked: liveness, that is `LedgerConverges`, `EveryFileJudged`,
`EveryMachineCatchesUp`, `ScheduleIsTheNet`, `SilenceIsNoticed`, `StuckIsNoticed`,
`RevokedReadsUnknown`, `EvidenceFollows`, `CutOffIsLearned`, `UpstreamArrives`,
`FleetFollows` and `FolderConverges`. Liveness and ENABLED are outside what the installed
provers do, and so is induction over data. Every invariant and every action property a
passing run checks is proved as well, and both refinements. No module here uses RECURSIVE
operators.

## Not modelled

Listed with reasons in `PROJECT.json`. In short:

- Collection passes: rows for people to read, on which nothing in the plugin acts. A pass
  stored twice or lost changes no other state, so there is nothing to relate it to.
- The field checks of `entries.py` and `heartbeat.py`, which refuse or default one value
  and touch no state: that an entry can be read is one outcome in `Intake`.
- Parsing of a release's version, URL schemes and size limits of a download: one outcome
  of `Fetches`.
- Deletion of station links and devices, the throttle, paused connections in the
  published verdicts, pruning of old transitions.
- Wagtail declarations, panels, listings, URLs, wording, payload layout: no state.

Core, the FTP plugin, Celery, Django's storage and the Windows agent are external.

## Plan

In this order, should the project go on:

1. A second machine in `Feed`, for pins that differ, and three versions, so that the
   mirror's limit cuts an entry off; both need a smaller administrator.
2. A station link that is deleted while its files are drained, which ends rows `Ledger`
   now assumes to stay.
