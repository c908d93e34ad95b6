---------------------------------- MODULE Intake ----------------------------------
(* A machine's cycle against ADL's readers: the floor and the limits a sync hands  *)
(* out, the manifest read page by page and answered from the ledger (manifest.py,  *)
(* entries.py), and each upload checked against its promise as its bytes arrive    *)
(* (uploads.py), while HQ switches stations, moves start dates and redeploys, and  *)
(* an operator asks for pruned files again.                                        *)
(*                                                                                 *)
(* The agent lies outside the repository. Here it does what the guide says of it:  *)
(* it syncs, offers everything it sees from the floor on, in pages of the size it  *)
(* was told, and sends what it is asked for, so many at once. A version of a file  *)
(* is a number; Content gives its bytes, as blocks. What becomes of a file that    *)
(* was recorded is Ledger's.                                                       *)

EXTENDS Naturals, Sequences, FiniteSets

CONSTANTS
    Files,          \* files in the machine's folders
    Links,          \* station links
    LinkOf,         \* whose file each file is
    Day,            \* the mtime of each file: backfilled files have an old one
    MaxDay,         \* bound: mtimes and start dates
    Versions,       \* contents a file can have, as numbers from 1
    Blocks,         \* what contents are made of
    Content,        \* the blocks of each version
    Cap,            \* MAX_UPLOAD_BYTES
    PageLimits,     \* what MANIFEST_PAGE_LIMIT can be across releases
    Raws,           \* what the number of concurrent uploads can be configured as
    Default,        \* DEFAULT_CONCURRENT_UPLOADS
    Most,           \* MOST_CONCURRENT_UPLOADS
    MaxWrites,      \* bound: writes of the vendor
    MaxMoves,       \* bound: what HQ and the operator do
    MaxFaults       \* bound: lost requests, unreadable entries, cut or torn bodies

Raw == [kind : {"absent", "text", "number"}, value : Nat]

ASSUME IntakeAssumption ==
    /\ IsFiniteSet(Files)
    /\ LinkOf \in [Files -> Links]
    /\ MaxDay \in Nat /\ Day \in [Files -> 1..MaxDay]
    /\ Versions \subseteq Nat \ {0}
    /\ Content \in [Versions -> Seq(Blocks)]
    /\ \A v, w \in Versions : Content[v] = Content[w] => v = w
    /\ Cap \in Nat
    /\ PageLimits \subseteq Nat \ {0}
    /\ Raws \subseteq Raw
    /\ Default \in 1..Most /\ Most \in Nat
    /\ MaxWrites \in Nat /\ MaxMoves \in Nat /\ MaxFaults \in Nat

VARIABLES
    folder,     \* the machine's disk: the version of each file, 0 before the first
    link,       \* each station link: the machine's and enabled, disabled, or not its own
    start,      \* collection start dates, 0 for none
    conf,       \* what this instance tells machines: page limit, concurrent uploads
    row,        \* the ledger: hash, a request to re-send, and the bytes staged
    told,       \* the sync the machine's cycle works from
    pending,    \* files the cycle has still to offer
    wanted,     \* the version ADL asked for of each file, 0 for none
    body,       \* each upload being received
    phase,      \* how far the cycle is
    silent,     \* offered versions that an answer said nothing about (history)
    kept,       \* versions that were ever staged (history)
    writes, moves, faults

vars == <<folder, link, start, conf, row, told, pending, wanted, body, phase, silent,
          kept, writes, moves, faults>>

NoRow == [hash |-> 0, asked |-> "no", bytes |-> <<>>]
NoBody == [ver |-> 0, blocks |-> <<>>, gzip |-> FALSE, whole |-> FALSE, got |-> <<>>]

-----------------------------------------------------------------------------------
(* What ADL tells machines.                                                        *)

\* mutant: whatever was configured is handed out.
ConcurrentUploadsAsGiven(setting, environ) == setting.value

\* concurrent_uploads: the setting, else the environment; nonsense is the default and
\* the instance's own limit holds whatever it is given.
ConcurrentUploads(setting, environ) ==
    LET raw == IF setting.kind = "absent" THEN environ ELSE setting IN
    IF raw.kind # "number" \/ raw.value < 1 THEN Default
    ELSE IF raw.value > Most THEN Most ELSE raw.value

\* manifest_watermark: the start date, pulled down by what is asked for again.
Floor(l) ==
    LET asked == {f \in Files : LinkOf[f] = l /\ row[f].asked = "live"}
        days == {start[l]} \cup {Day[f] : f \in asked} IN
    CHOOSE d \in days : \A e \in days : d <= e

Told == [limit |-> conf.limit, uploads |-> conf.uploads,
         floor |-> [l \in Links |-> Floor(l)], links |-> {l \in Links : link[l] = "on"}]

Fault == faults < MaxFaults /\ faults' = faults + 1

Init ==
    /\ folder = [f \in Files |-> 0]
    /\ link = [l \in Links |-> "on"]
    /\ start = [l \in Links |-> 0]
    /\ \E limit \in PageLimits, s, e \in Raws :
           conf = [limit |-> limit, uploads |-> ConcurrentUploads(s, e)]
    /\ row = [f \in Files |-> NoRow]
    /\ told = Told
    /\ pending = {}
    /\ wanted = [f \in Files |-> 0]
    /\ body = [f \in Files |-> NoBody]
    /\ phase = "idle"
    /\ silent = {}
    /\ kept = [f \in Files |-> {}]
    /\ writes = 0 /\ moves = 0 /\ faults = 0

-----------------------------------------------------------------------------------
(* The vendor, HQ and the operator.                                                *)

\* The vendor writes a file, appends to it or rewrites it.
Write(f, v) ==
    /\ writes < MaxWrites
    /\ writes' = writes + 1
    /\ v # folder[f]
    /\ folder' = [folder EXCEPT ![f] = v]
    /\ UNCHANGED <<link, start, conf, row, told, pending, wanted, body, phase, silent,
                   kept, moves, faults>>

Move ==
    /\ moves < MaxMoves
    /\ moves' = moves + 1
    /\ UNCHANGED <<folder, told, pending, wanted, body, phase, silent, kept, writes,
                   faults>>

\* A station link is switched on or off, given to another machine or given back.
Switch(l, state) ==
    /\ Move
    /\ state # link[l]
    /\ link' = [link EXCEPT ![l] = state]
    /\ UNCHANGED <<start, conf, row>>

\* The collection start date is moved.
SetStart(l, d) ==
    /\ Move
    /\ d # start[l]
    /\ start' = [start EXCEPT ![l] = d]
    /\ UNCHANGED <<link, conf, row>>

\* The instance is upgraded or configured anew.
Deploy(limit, setting, environ) ==
    /\ Move
    /\ conf' = [limit |-> limit, uploads |-> ConcurrentUploads(setting, environ)]
    /\ conf' # conf
    /\ UNCHANGED <<link, start, row>>

\* request_reprocess of a file whose bytes are pruned: the hash is forgotten.
Reoffer(f) ==
    /\ Move
    /\ row[f].hash # 0
    /\ row' = [row EXCEPT ![f] = [NoRow EXCEPT !.asked = "live"]]
    /\ UNCHANGED <<link, start, conf>>

\* REOFFER_REQUEST_TTL runs out.
Lapse(f) ==
    /\ row[f].asked = "live"
    /\ row' = [row EXCEPT ![f].asked = "lapsed"]
    /\ UNCHANGED <<folder, link, start, conf, told, pending, wanted, body, phase, silent,
                   kept, writes, moves, faults>>

-----------------------------------------------------------------------------------
(* The cycle and the manifest.                                                     *)

\* A cycle begins with a sync. It will offer what it sees from the floor on.
Sync ==
    /\ phase = "idle"
    /\ phase' = "offering"
    /\ told' = Told
    /\ pending' = {f \in Files : /\ folder[f] # 0 /\ LinkOf[f] \in told'.links
                                 /\ Day[f] >= told'.floor[LinkOf[f]]}
    /\ UNCHANGED <<folder, link, start, conf, row, wanted, body, silent, kept, writes,
                   moves, faults>>

\* mutant: a page that is too large is cut short instead of being refused.
ReadManifestCut(page, bad) ==
    IF bad # {} THEN {}
    ELSE CHOOSE P \in SUBSET page :
             Cardinality(P) = IF Cardinality(page) > conf.limit THEN conf.limit
                              ELSE Cardinality(page)

\* read_manifest and parse_entries: a page over the limit, or with one entry that cannot
\* be read, is refused whole.
ReadManifest(page, bad) ==
    IF Cardinality(page) > conf.limit \/ bad # {} THEN {} ELSE page

\* diff_against_ledger: links that are not the machine's, or are switched off, are
\* reported; of the rest ADL asks for what it does not hold.
Considered(read) == {f \in read : link[LinkOf[f]] = "on"}
Requested(read) == {f \in Considered(read) : row[f].hash # folder[f]}
Reported(read) == read \ Considered(read)

\* The machine offers a page of what is left, as large as it was told a page may be.
Page(page, bad) ==
    LET read == ReadManifest(page, bad) IN
    /\ phase = "offering" /\ pending # {}
    /\ page \subseteq pending /\ bad \subseteq page
    /\ Cardinality(page) = IF Cardinality(pending) > told.limit THEN told.limit
                           ELSE Cardinality(pending)
    /\ IF bad = {} THEN UNCHANGED faults ELSE Fault
    /\ pending' = pending \ page
    /\ wanted' = [f \in Files |-> IF f \in Requested(read) THEN folder[f] ELSE wanted[f]]
    /\ silent' = IF read = {} THEN silent
                 ELSE silent \cup {<<f, folder[f]>> :
                                      f \in page \ (Requested(read) \cup Reported(read))}
    /\ UNCHANGED <<folder, link, start, conf, row, told, body, phase, kept, writes, moves>>

\* The request or its answer is lost, and the page waits for the next cycle.
LosePage ==
    /\ phase = "offering" /\ pending # {}
    /\ Fault
    /\ pending' = {}
    /\ UNCHANGED <<folder, link, start, conf, row, told, wanted, body, phase, silent,
                   kept, writes, moves>>

StartSending ==
    /\ phase = "offering" /\ pending = {}
    /\ phase' = "sending"
    /\ UNCHANGED <<folder, link, start, conf, row, told, pending, wanted, body, silent,
                   kept, writes, moves, faults>>

EndCycle ==
    /\ phase = "sending"
    /\ \A f \in Files : wanted[f] = 0 /\ body[f] = NoBody
    /\ phase' = "idle"
    /\ UNCHANGED <<folder, link, start, conf, row, told, pending, wanted, body, silent,
                   kept, writes, moves, faults>>

-----------------------------------------------------------------------------------
(* The uploads.                                                                    *)

\* What can be read of the file while the vendor may be writing it: a part of what it
\* was offered as, then what it has become.
Readings(f) ==
    LET was == Content[wanted[f]]
        is == Content[folder[f]] IN
    {SubSeq(was, 1, i) \o SubSeq(is, i + 1, Len(is)) : i \in 0..Len(was)}

\* What arrives of it: all, or what there was when the connection or the stream broke.
Arrivals(f, whole) ==
    IF whole THEN Readings(f)
    ELSE UNION {{SubSeq(r, 1, i) : i \in 0..Len(r)} : r \in Readings(f)}

Sending == {f \in Files : body[f] # NoBody}

\* One upload reaches the view. The link is looked up again; the size it was offered
\* with, and the size of what is attached, are looked at before a byte is read.
Send(f, blocks, gzip, whole) ==
    /\ phase = "sending" /\ wanted[f] # 0
    /\ Cardinality(Sending) < told.uploads
    /\ blocks \in Arrivals(f, whole)
    /\ IF whole THEN UNCHANGED faults ELSE Fault
    /\ wanted' = [wanted EXCEPT ![f] = 0]
    /\ body' = IF \/ link[LinkOf[f]] # "on"
                  \/ Len(Content[wanted[f]]) > Cap
                  \/ ~gzip /\ Len(blocks) > Cap
               THEN body
               ELSE [body EXCEPT ![f] = [ver |-> wanted[f], blocks |-> blocks,
                                         gzip |-> gzip, whole |-> whole, got |-> <<>>]]
    /\ UNCHANGED <<folder, link, start, conf, row, told, pending, phase, silent, kept,
                   writes, moves>>

\* mutant: the size that counts is the size at the end.
FitsUnguarded(got) == TRUE

Fits(got) == Len(got) <= Cap

\* The next chunk, unpacked, is written down if the cap allows it.
Chunk(f) ==
    LET b == body[f]
        got == Append(b.got, Head(b.blocks)) IN
    /\ b.blocks # <<>>
    /\ body' = [body EXCEPT ![f] =
                   IF Fits(got) THEN [b EXCEPT !.got = got, !.blocks = Tail(b.blocks)]
                   ELSE NoBody]
    /\ UNCHANGED <<folder, link, start, conf, row, told, pending, wanted, phase, silent,
                   kept, writes, moves, faults>>

\* mutant: a file of the right size is the right file.
VerifiedBySize(b) == (b.gzip => b.whole) /\ Len(b.got) = Len(Content[b.ver])

\* decompress(None) and _verify: the gzip stream has ended, and size and hash are those
\* of the entry.
Verified(b) == (b.gzip => b.whole) /\ b.got = Content[b.ver]

\* The end of the body: it is recorded, or refused and offered again next cycle.
Finish(f) ==
    LET b == body[f] IN
    /\ b # NoBody /\ b.blocks = <<>>
    /\ body' = [body EXCEPT ![f] = NoBody]
    /\ IF Verified(b)
       THEN /\ row' = [row EXCEPT ![f] = [hash |-> b.ver, asked |-> "no", bytes |-> b.got]]
            /\ kept' = [kept EXCEPT ![f] = @ \cup {b.ver}]
       ELSE UNCHANGED <<row, kept>>
    /\ UNCHANGED <<folder, link, start, conf, told, pending, wanted, phase, silent,
                   writes, moves, faults>>

-----------------------------------------------------------------------------------

Outside ==
    \/ \E f \in Files, v \in Versions : Write(f, v)
    \/ \E l \in Links, state \in {"on", "off", "gone"} : Switch(l, state)
    \/ \E l \in Links, d \in 0..MaxDay : SetStart(l, d)
    \/ \E limit \in PageLimits, s, e \in Raws : Deploy(limit, s, e)
    \/ \E f \in Files : Reoffer(f) \/ Lapse(f)

CycleStep ==
    \/ Sync \/ StartSending \/ EndCycle
    \/ \E page \in SUBSET pending, bad \in SUBSET pending : Page(page, bad)

SendStep(f) ==
    /\ wanted[f] # 0
    /\ \E whole, gzip \in BOOLEAN : \E blocks \in Arrivals(f, whole) :
           Send(f, blocks, gzip, whole)

ReceiveStep(f) == Chunk(f) \/ Finish(f)

Next ==
    \/ Outside
    \/ CycleStep \/ LosePage
    \/ \E f \in Files : SendStep(f) \/ ReceiveStep(f)

Spec == Init /\ [][Next]_vars

\* The machine keeps running cycles and sending what it was asked for, and a web worker
\* that has begun to read a body goes on. Nobody else owes anything.
FairSpec ==
    /\ Spec
    /\ WF_vars(CycleStep)
    /\ \A f \in Files : WF_vars(SendStep(f)) /\ WF_vars(ReceiveStep(f))

-----------------------------------------------------------------------------------
(* Properties.                                                                     *)

Telling == [limit : PageLimits, uploads : 1..Most]

\* The number of uploads a machine is told is one that lets it work and lets this
\* instance live, whatever was configured.
TypeOK ==
    /\ folder \in [Files -> Versions \cup {0}]
    /\ link \in [Links -> {"on", "off", "gone"}]
    /\ start \in [Links -> 0..MaxDay]
    /\ conf \in Telling
    /\ row \in [Files -> [hash : Versions \cup {0}, asked : {"no", "live", "lapsed"},
                          bytes : Seq(Blocks)]]
    /\ told \in [limit : PageLimits, uploads : 1..Most, floor : [Links -> 0..MaxDay],
                 links : SUBSET Links]
    /\ pending \subseteq Files
    /\ wanted \in [Files -> Versions \cup {0}]
    /\ body \in [Files -> [ver : Versions \cup {0}, blocks : Seq(Blocks),
                           gzip : BOOLEAN, whole : BOOLEAN, got : Seq(Blocks)]]
    /\ phase \in {"idle", "offering", "sending"}
    /\ silent \subseteq Files \X Versions
    /\ kept \in [Files -> SUBSET Versions]
    /\ writes \in 0..MaxWrites /\ moves \in 0..MaxMoves /\ faults \in 0..MaxFaults

\* What is staged is what its hash describes, though the file is written to while it is
\* read, the stream breaks, and a body may unpack to more than was said; and nothing is
\* ever written down past the cap.
StagedAsPromised ==
    \A f \in Files :
        /\ row[f].hash # 0 => row[f].bytes = Content[row[f].hash]
        /\ Len(body[f].got) <= Cap

\* A machine takes silence about a file it offered for "already held", so ADL is silent
\* only about what it has had: not about a page it refused, an entry it could not read,
\* or a station that is switched off or not the machine's.
SilenceMeansHeld == \A p \in silent : p[2] \in kept[p[1]]

\* Due(f): ADL would take the file as it stands, and wants it.
Due(f) ==
    /\ folder[f] # 0 /\ Len(Content[folder[f]]) <= Cap
    /\ link[LinkOf[f]] = "on"
    /\ Day[f] >= start[LinkOf[f]] \/ row[f].asked = "live"

\* Once the vendor and HQ stop, every file a station is due comes to be held as it
\* stands: a backfilled one, one beyond the first page, one that was asked for again
\* though it lies before the start date, and whatever the limits were changed to.
FolderConverges == <>[](\A f \in Files : Due(f) => row[f].hash = folder[f])
====
