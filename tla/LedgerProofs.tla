------------------------------- MODULE LedgerProofs -------------------------------
(* What the ledger keeps for every number of files, versions, requests, names   *)
(* and faults. Types first; then one file at a time: FileInv(f) says where the  *)
(* bytes of f are, who may still delete them, and what a copy of f's row that   *)
(* nobody has overtaken still tells its holder.                                 *)

EXTENDS LedgerDelivery, TLAPS

USE LedgerAssumption DEF LedgerAssumption

-----------------------------------------------------------------------------------
(* Types.                                                                       *)

\* What the record types do not say: only a live request, drain or sweep names a
\* file, and then it names a real one.
Shape ==
    /\ \A u \in Uploads :
          /\ up[u].pc # "idle" => up[u].file \in Files /\ up[u].ver \in Versions
          /\ up[u].pc = "stored" => up[u].alias \in Aliases
          /\ up[u].pc = "committed" => up[u].old \in Aliases
    /\ cur.stage # "none" => cur.file \in Files /\ cur.ver \in Versions
    /\ unlink # Unlinked => unlink.file \in Files /\ unlink.alias \in Aliases
Typed == TypeOK /\ Shape

\* The saves of one column or two leave a row a row.
LEMMA RowSaves ==
  ASSUME NEW r \in Row
  PROVE  /\ \A s \in {"received", "processed", "failed"} :
               [r EXCEPT !.status = s, !.aged = FALSE] \in Row
         /\ [r EXCEPT !.aged = TRUE] \in Row
         /\ [r EXCEPT !.file = NoFile] \in Row
         /\ [r EXCEPT !.hash = 0] \in Row
<1>1. ASSUME NEW s \in {"received", "processed", "failed"}
      PROVE  [r EXCEPT !.status = s, !.aged = FALSE] \in Row
  BY DEF Row
<1>2. [r EXCEPT !.aged = TRUE] \in Row
  BY DEF Row
<1>3. [r EXCEPT !.file = NoFile] \in Row
  BY DEF Row, Names
<1>4. [r EXCEPT !.hash = 0] \in Row
  BY DEF Row
<1>. QED BY <1>1, <1>2, <1>3, <1>4

\* The same of the whole table.
LEMMA RowUpdateType ==
  ASSUME Typed, NEW f \in Files
  PROVE  /\ \A s \in {"received", "processed", "failed"} :
               [row EXCEPT ![f].status = s, ![f].aged = FALSE] \in [Files -> Row]
         /\ [row EXCEPT ![f].aged = TRUE] \in [Files -> Row]
         /\ [row EXCEPT ![f].file = NoFile] \in [Files -> Row]
         /\ [row EXCEPT ![f].hash = 0] \in [Files -> Row]
<1>1. row \in [Files -> Row] /\ row[f] \in Row
  BY DEF Typed, TypeOK
<1>2. ASSUME NEW s \in {"received", "processed", "failed"}
      PROVE  [row EXCEPT ![f].status = s, ![f].aged = FALSE] \in [Files -> Row]
  <2>1. [row EXCEPT ![f].status = s, ![f].aged = FALSE]
          = [row EXCEPT ![f] = [row[f] EXCEPT !.status = s, !.aged = FALSE]]
    BY <1>1
  <2>. QED BY <1>1, <2>1, RowSaves
<1>. QED BY <1>1, <1>2, RowSaves

\* A request's record stays one as it moves from its bytes to its commit.
LEMMA UploadMoves ==
  ASSUME NEW r \in Upload, NEW a \in Names, NEW o \in Names
  PROVE  /\ [r EXCEPT !.pc = "stored", !.alias = a, !.old = o] \in Upload
         /\ [r EXCEPT !.pc = "committed"] \in Upload
         /\ Idle \in Upload
<1>1. [r EXCEPT !.pc = "stored", !.alias = a, !.old = o] \in Upload
  BY DEF Upload
<1>2. [r EXCEPT !.pc = "committed"] \in Upload
  BY DEF Upload
<1>3. Idle \in Upload
  BY DEF Upload, Idle, Names
<1>. QED BY <1>1, <1>2, <1>3

\* A save from a copy keeps the histories' types.
LEMMA SavedFromType ==
  ASSUME Typed, NEW f \in Files, NEW x \in Actors, SavedFrom(x, f)
  PROVE  /\ overtaken' \in [Actors -> SUBSET Files]
         /\ tainted' \in [Files -> BOOLEAN]
  BY DEF Typed, TypeOK, SavedFrom, Written

LEMMA InitTyped == Init => Typed
  BY DEF Init, TypeOK, Row, Upload, Current, NoRow, Idle, NoCurrent, Unlinked, Names,
         Versions, Actors, Shape, Typed

LEMMA GrowTyped ==
  ASSUME Typed, NEW f \in Files, Grow(f)
  PROVE  Typed'
  BY DEF Typed, TypeOK, Shape, Grow

LEMMA OfferTyped ==
  ASSUME Typed, NEW u \in Uploads, NEW f \in Files, Offer(u, f)
  PROVE  Typed'
<1>1. folder[f] \in Versions
  BY DEF Typed, TypeOK, Offer, Versions
<1>2. up' \in [Uploads -> Upload]
  BY DEF Typed, TypeOK, Offer, Upload, Idle, Names
<1>3. TypeOK'
  BY <1>2 DEF Typed, TypeOK, Offer
<1>4. Shape'
  BY <1>1 DEF Typed, TypeOK, Shape, Offer, Idle
<1>. QED BY <1>3, <1>4 DEF Typed

LEMMA LoseUploadTyped ==
  ASSUME Typed, NEW u \in Uploads, LoseUpload(u)
  PROVE  Typed'
<1>1. up' \in [Uploads -> Upload]
  BY DEF Typed, TypeOK, LoseUpload, Upload, Idle, Names
<1>2. TypeOK'
  BY <1>1 DEF Typed, TypeOK, LoseUpload, Fault
<1>3. Shape'
  BY DEF Typed, TypeOK, Shape, LoseUpload, Idle, Names
<1>. QED BY <1>2, <1>3 DEF Typed

LEMMA StoreBytesTyped ==
  ASSUME Typed, NEW u \in Uploads, StoreBytes(u)
  PROVE  Typed'
<1>. DEFINE f == up[u].file
<1>1. f \in Files /\ up[u].ver \in Versions /\ row[f] \in Row
  BY DEF Typed, TypeOK, Shape, StoreBytes, Upload
<1>2. PICK a \in Available(f) :
         /\ store' = [store EXCEPT ![f][a] = up[u].ver]
         /\ up' = [up EXCEPT ![u].pc = "stored", ![u].alias = a,
                             ![u].old = row[f].file]
  BY DEF StoreBytes
<1>3. a \in Aliases
  BY <1>2 DEF Available
<1>4. up' \in [Uploads -> Upload]
  <2>1. up \in [Uploads -> Upload] /\ up[u] \in Upload /\ row[f].file \in Names
    BY <1>1 DEF Typed, TypeOK, Row
  <2>2. up' = [up EXCEPT ![u] = [up[u] EXCEPT !.pc = "stored", !.alias = a,
                                              !.old = row[f].file]]
    BY <1>2, <2>1
  <2>. QED BY <1>3, <2>1, <2>2, UploadMoves DEF Names
<1>5. store' \in [Files -> [Aliases -> 0..MaxVersion]]
  BY <1>1, <1>2, <1>3 DEF Typed, TypeOK, Versions
<1>6. TypeOK'
  BY <1>4, <1>5 DEF Typed, TypeOK, StoreBytes
<1>7. Shape'
  BY <1>1, <1>2, <1>3 DEF Typed, TypeOK, Shape, StoreBytes, Upload
<1>. QED BY <1>6, <1>7 DEF Typed

LEMMA CommitUploadTyped ==
  ASSUME Typed, NEW u \in Uploads, CommitUpload(u)
  PROVE  Typed'
<1>. DEFINE f == up[u].file
<1>1. f \in Files /\ up[u].ver \in Versions /\ row[f] \in Row
  BY DEF Typed, TypeOK, Shape, CommitUpload, Upload
<1>2. Delivered(u) \in Row
  BY DEF Typed, TypeOK, Delivered, Row, Upload
<1>3. row' \in [Files -> Row]
  BY <1>1, <1>2 DEF Typed, TypeOK, CommitUpload
<1>4. up' \in [Uploads -> Upload]
  <2>1. up \in [Uploads -> Upload] /\ up[u] \in Upload
    BY DEF Typed, TypeOK
  <2>2. up' = [up EXCEPT ![u] = IF Supersedes(u) THEN [up[u] EXCEPT !.pc = "committed"]
                                                ELSE Idle]
    BY <2>1 DEF CommitUpload
  <2>. QED BY <2>1, <2>2, UploadMoves DEF Names
<1>5. overtaken' \in [Actors -> SUBSET Files]
  BY <1>1 DEF Typed, TypeOK, CommitUpload, Written
<1>6. TypeOK'
  BY <1>3, <1>4, <1>5 DEF Typed, TypeOK, CommitUpload
<1>7. Shape'
  BY <1>1 DEF Typed, TypeOK, Shape, CommitUpload, Upload, Supersedes, Idle, Names
<1>. QED BY <1>6, <1>7 DEF Typed

LEMMA DeleteSupersededTyped ==
  ASSUME Typed, NEW u \in Uploads, DeleteSuperseded(u)
  PROVE  Typed'
  BY DEF Typed, TypeOK, Shape, DeleteSuperseded, Upload, Idle, Names, Versions, Row

LEMMA UploadDiesTyped ==
  ASSUME Typed, NEW u \in Uploads, UploadDies(u)
  PROVE  Typed'
  BY DEF Typed, TypeOK, Shape, UploadDies, Fault, Upload, Idle, Names, Versions

LEMMA DrainListTyped ==
  ASSUME Typed,  DrainList
  PROVE  Typed'
  BY DEF Typed, TypeOK, Shape, DrainList, Loaded, Names, Row, Actors

LEMMA DrainReadTyped ==
  ASSUME Typed, NEW f \in Files, DrainRead(f)
  PROVE  Typed'
<1>. DEFINE v == store[f][listed[f]]
<1>1. listed[f] \in Aliases /\ v \in Versions
  BY DEF Typed, TypeOK, DrainRead, Names, Versions
<1>2. cur'.file = f /\ cur'.ver = v /\ cur' \in Current
  BY <1>1 DEF DrainRead, Current, Versions
<1>3. rejected' \in [Files -> SUBSET Versions]
  BY <1>1 DEF Typed, TypeOK, DrainRead
<1>4. TypeOK'
  BY <1>2, <1>3 DEF Typed, TypeOK, DrainRead
<1>5. Shape'
  BY <1>1, <1>2 DEF Typed, Shape, DrainRead
<1>. QED BY <1>4, <1>5 DEF Typed

LEMMA DrainUnreadableTyped ==
  ASSUME Typed, NEW f \in Files, DrainUnreadable(f)
  PROVE  Typed'
  BY DEF Typed, TypeOK, Shape, DrainUnreadable, Names, Fault

LEMMA DrainFlushTyped ==
  ASSUME Typed,  DrainFlush
  PROVE  Typed'
  BY DEF Typed, TypeOK, Shape, DrainFlush, Current

LEMMA SaveVerdictTyped ==
  ASSUME Typed,  MarkProcessed \/ MarkFailed
  PROVE  Typed'
<1>1. PICK s \in {"processed", "failed"} : SaveVerdict(s) /\ cur.stage # "none"
  BY DEF MarkProcessed, MarkFailed
<1>. DEFINE f == cur.file
<1>2. f \in Files
  BY <1>1 DEF Typed, Shape
<1>3. row' \in [Files -> Row]
  BY <1>1, <1>2, RowUpdateType DEF SaveVerdict
<1>4. overtaken' \in [Actors -> SUBSET Files] /\ tainted' \in [Files -> BOOLEAN]
  BY <1>1, <1>2, SavedFromType DEF SaveVerdict, Actors
<1>5. listed' \in [Files -> Names] /\ cur' \in Current
  BY <1>1, <1>2 DEF SaveVerdict, Typed, TypeOK, NoCurrent, Current, Names
<1>6. TypeOK'
  BY <1>1, <1>3, <1>4, <1>5 DEF SaveVerdict, Typed, TypeOK
<1>7. Shape'
  BY <1>1 DEF SaveVerdict, Typed, Shape, NoCurrent
<1>. QED BY <1>6, <1>7 DEF Typed

LEMMA DrainDiesTyped ==
  ASSUME Typed,  DrainDies
  PROVE  Typed'
  BY DEF Typed, TypeOK, Shape, DrainDies, Fault, NoCurrent, Current, Names

LEMMA AgeTyped ==
  ASSUME Typed, NEW f \in Files, Age(f)
  PROVE  Typed'
<1>1. row' \in [Files -> Row]
  BY RowUpdateType DEF Age
<1>. QED BY <1>1 DEF Typed, TypeOK, Shape, Age

LEMMA SweepListTyped ==
  ASSUME Typed,  SweepList
  PROVE  Typed'
  BY DEF Typed, TypeOK, Shape, SweepList, Loaded, Names, Row, Actors

LEMMA PruneTyped ==
  ASSUME Typed, NEW f \in Files, Prune(f)
  PROVE  Typed'
<1>1. row' \in [Files -> Row]
  BY RowUpdateType DEF Prune
<1>2. overtaken' \in [Actors -> SUBSET Files] /\ tainted' \in [Files -> BOOLEAN]
  BY SavedFromType DEF Prune, Actors
<1>3. swept' \in [Files -> Names] /\ unlink' \in [file : Files \cup {NoFile}, alias : Names]
  BY DEF Prune, Typed, TypeOK, Names
<1>4. unlink'.file \in Files /\ unlink'.alias \in Aliases
  BY DEF Prune, Typed, TypeOK, Names
<1>5. TypeOK'
  BY <1>1, <1>2, <1>3 DEF Prune, Typed, TypeOK
<1>6. Shape'
  BY <1>4 DEF Prune, Typed, Shape
<1>. QED BY <1>5, <1>6 DEF Typed

LEMMA PruneUnlinkTyped ==
  ASSUME Typed, PruneUnlink
  PROVE  Typed'
  BY DEF Typed, TypeOK, Shape, PruneUnlink, Names, Unlinked

LEMMA SweepDiesTyped ==
  ASSUME Typed, SweepDies \/ PruneFails
  PROVE  Typed'
<1>1. CASE SweepDies
  BY <1>1 DEF Typed, TypeOK, Shape, SweepDies, Names, Unlinked, Fault
<1>2. CASE PruneFails
  <2>1. swept' \in [Files -> Names] /\ (unlink' = unlink \/ unlink' = Unlinked)
    BY <1>2 DEF Typed, TypeOK, PruneFails, Names
  <2>. QED BY <1>2, <2>1 DEF Typed, TypeOK, Shape, PruneFails, Names, Unlinked, Fault
<1>. QED BY <1>1, <1>2

LEMMA RedoLoadTyped ==
  ASSUME Typed, NEW F \in SUBSET Files, RedoLoad(F)
  PROVE  Typed'
  BY DEF Typed, TypeOK, Shape, RedoLoad, Loaded, Actors

LEMMA RedoTyped ==
  ASSUME Typed, NEW f \in Files, Redecode(f) \/ Reoffer(f)
  PROVE  Typed'
<1>1. row' \in [Files -> Row]
  <2>1. CASE Redecode(f)
    BY <2>1, RowUpdateType DEF Redecode
  <2>2. CASE Reoffer(f)
    BY <2>2, RowUpdateType DEF Reoffer
  <2>. QED BY <2>1, <2>2
<1>2. overtaken' \in [Actors -> SUBSET Files] /\ tainted' \in [Files -> BOOLEAN]
  BY SavedFromType DEF Redecode, Reoffer, Actors
<1>3. ticked' \in [Files -> {"no", "held", "pruned"}]
  BY DEF Redecode, Reoffer, Typed, TypeOK
<1>. QED BY <1>1, <1>2, <1>3 DEF Redecode, Reoffer, Typed, TypeOK, Shape

\* Every step keeps the types.
LEMMA NextTyped == Typed /\ [Next]_vars => Typed'
<1>. SUFFICES ASSUME Typed, [Next]_vars PROVE Typed'
  OBVIOUS
<1>1. CASE UNCHANGED vars
  BY <1>1 DEF Typed, TypeOK, Shape, vars
<1>2. ASSUME NEW f \in Files, Grow(f) \/ Age(f) PROVE Typed'
  BY <1>2, GrowTyped, AgeTyped
<1>3. ASSUME NEW u \in Uploads, NEW f \in Files, Offer(u, f) PROVE Typed'
  BY <1>3, OfferTyped
<1>4. ASSUME NEW u \in Uploads, LoseUpload(u) \/ UploadStep(u) \/ UploadDies(u)
      PROVE  Typed'
  BY <1>4, LoseUploadTyped, StoreBytesTyped, CommitUploadTyped, DeleteSupersededTyped,
     UploadDiesTyped DEF UploadStep
<1>5. CASE DrainStep \/ DrainDies
  BY <1>5, DrainListTyped, DrainReadTyped, DrainUnreadableTyped, DrainFlushTyped,
     SaveVerdictTyped, DrainDiesTyped DEF DrainStep
<1>6. CASE SweepStep \/ PruneFails \/ SweepDies
  BY <1>6, SweepListTyped, PruneTyped, PruneUnlinkTyped, SweepDiesTyped DEF SweepStep
<1>7. ASSUME NEW F \in SUBSET Files, RedoLoad(F) PROVE Typed'
  BY <1>7, RedoLoadTyped
<1>8. CASE RedoStep
  BY <1>8, RedoTyped DEF RedoStep
<1>. QED
  BY <1>1, <1>2, <1>3, <1>4, <1>5, <1>6, <1>7, <1>8 DEF Next

LEMMA TypedAlways == Spec => []Typed
  BY InitTyped, NextTyped, PTL DEF Spec

\* Every variable keeps its type, for every bound.
THEOREM TypeCorrect == Spec => []TypeOK
<1>1. Typed => TypeOK
  BY DEF Typed
<1>. QED BY <1>1, TypedAlways, PTL

-----------------------------------------------------------------------------------
(* One file at a time.                                                          *)

Fresh(x, f) == f \notin overtaken[x]
StoredBy(u, f) == up[u].pc = "stored" /\ up[u].file = f
DeletingFor(u, f) == up[u].pc = "committed" /\ up[u].file = f

\* The row agrees with its bytes and with what was made of them.
RowInv(f) ==
    /\ row[f].status = "absent" => row[f] = NoRow
    /\ row[f].status # "absent" => row[f].ver \in Versions
    /\ row[f].status \in {"received", "failed"} => row[f].file # NoFile
    /\ row[f].aged => row[f].status = "processed"
    /\ row[f].hash # row[f].ver => row[f].hash = 0 /\ row[f].file = NoFile
    /\ BytesFit(f)
    /\ VerdictFits(f)

\* Every name of f in use has one holder: the row, the request that is storing, a
\* request that has yet to delete what it superseded, or the sweep.
NameInv(f) ==
    /\ \A u \in Uploads : StoredBy(u, f) =>
          /\ store[f][up[u].alias] = up[u].ver
          /\ up[u].old = row[f].file
          /\ up[u].alias # row[f].file
          /\ \A w \in Uploads : StoredBy(w, f) => w = u
          /\ \A w \in Uploads : DeletingFor(w, f) => up[w].old # up[u].alias
    /\ \A u \in Uploads : DeletingFor(u, f) =>
          /\ store[f][up[u].old] # 0
          /\ up[u].old # row[f].file
          /\ \A w \in Uploads : DeletingFor(w, f) /\ up[w].old = up[u].old => w = u
    /\ unlink.file = f =>
          /\ store[f][unlink.alias] # 0
          /\ unlink.alias # row[f].file
          /\ \A u \in Uploads : StoredBy(u, f) => up[u].alias # unlink.alias
          /\ \A u \in Uploads : DeletingFor(u, f) => up[u].old # unlink.alias

\* A copy nobody has overtaken is still the row.
CopyInv(f) ==
    /\ Fresh("drain", f) /\ listed[f] # NoFile =>
          row[f].status = "received" /\ row[f].file = listed[f]
    /\ cur.file = f =>
          /\ listed[f] # NoFile
          /\ Fresh("drain", f) => cur.ver = row[f].ver
          /\ cur.stage = "flushed" => cur.ver \in persisted[f]
          /\ cur.stage = "rejected" => cur.ver \in rejected[f]
    /\ Fresh("sweep", f) /\ swept[f] # NoFile =>
          row[f].status = "processed" /\ row[f].aged /\ row[f].file = swept[f]
    /\ Fresh("redo", f) =>
          /\ ticked[f] = "held" => row[f].file # NoFile
          /\ ticked[f] = "pruned" => row[f].file = NoFile /\ row[f].status = "processed"

FileInv(f) == ~tainted[f] => RowInv(f) /\ NameInv(f) /\ CopyInv(f)
Inv == \A f \in Files : FileInv(f)

\* What a step must leave alone for each part of FileInv(g) to survive it.
LEMMA RowFrame ==
  ASSUME NEW g \in Files, RowInv(g), row'[g] = row[g],
         row[g].file # NoFile => store'[g][row[g].file] = store[g][row[g].file],
         persisted[g] \subseteq persisted'[g], rejected[g] \subseteq rejected'[g]
  PROVE  RowInv(g)'
  BY DEF RowInv, BytesFit, VerdictFits

LEMMA NameFrame ==
  ASSUME NEW g \in Files, NameInv(g), row'[g].file = row[g].file, store'[g] = store[g],
         \A w \in Uploads : (StoredBy(w, g) \/ DeletingFor(w, g))' => up'[w] = up[w],
         unlink'.file = g => unlink' = unlink
  PROVE  NameInv(g)'
  BY DEF NameInv, StoredBy, DeletingFor

LEMMA CopyFrame ==
  ASSUME NEW g \in Files, CopyInv(g), row'[g] = row[g], listed'[g] = listed[g],
         cur' = cur, swept'[g] = swept[g], ticked'[g] = ticked[g],
         overtaken' = overtaken,
         persisted' = persisted, rejected' = rejected
  PROVE  CopyInv(g)'
  BY DEF CopyInv, Fresh

\* A write to another file's row leaves g's copies as they were.
LEMMA CopyFrameOther ==
  ASSUME NEW g \in Files, NEW f \in Files, f # g, CopyInv(g), Written(f),
         row'[g] = row[g], listed'[g] = listed[g], swept'[g] = swept[g],
         ticked'[g] = ticked[g], cur' = cur,
         persisted' = persisted, rejected' = rejected
  PROVE  CopyInv(g)'
  BY DEF CopyInv, Fresh, Written, Actors

\* A write to g's own row overtakes every copy, and the rest is about the decode.
LEMMA CopyFrameOwn ==
  ASSUME NEW g \in Files, CopyInv(g), Written(g), listed'[g] = listed[g], cur' = cur,
         persisted' = persisted, rejected' = rejected
  PROVE  CopyInv(g)'
  BY DEF CopyInv, Fresh, Written, Actors

\* The request's own part of the frame, for requests that end or have no name yet.
LEMMA UploadFrame ==
  ASSUME Typed, NEW u \in Uploads, NEW r, up' = [up EXCEPT ![u] = r],
         r.pc \in {"idle", "sent"}
  PROVE  \A g \in Files, w \in Uploads :
            (StoredBy(w, g) \/ DeletingFor(w, g))' => up'[w] = up[w]
  BY DEF Typed, TypeOK, StoredBy, DeletingFor

\* The parts of FileInv(g), from the invariant.
LEMMA Parts ==
  ASSUME Inv, NEW g \in Files, ~tainted[g]
  PROVE  RowInv(g) /\ NameInv(g) /\ CopyInv(g)
  BY DEF Inv, FileInv

LEMMA InitInv == Init => Inv
  BY DEF Init, Inv, FileInv, RowInv, NameInv, CopyInv, BytesFit, VerdictFits, Fresh,
         StoredBy, DeletingFor, NoRow, Idle, NoCurrent, Unlinked

LEMMA GrowInv ==
  ASSUME Typed, Inv, NEW f \in Files, Grow(f)
  PROVE  Inv'
<1>. SUFFICES ASSUME NEW g \in Files, ~tainted'[g]
     PROVE  (RowInv(g) /\ NameInv(g) /\ CopyInv(g))'
  BY DEF Inv, FileInv
<1>1. RowInv(g) /\ NameInv(g) /\ CopyInv(g)
  BY Parts DEF Grow
<1>2. RowInv(g)'
  BY <1>1, RowFrame DEF Grow
<1>3. NameInv(g)'
  BY <1>1, NameFrame DEF Grow
<1>4. CopyInv(g)'
  BY <1>1, CopyFrame DEF Grow
<1>. QED BY <1>2, <1>3, <1>4

LEMMA OfferInv ==
  ASSUME Typed, Inv, NEW u \in Uploads, NEW f \in Files,
         Offer(u, f) \/ LoseUpload(u) \/ UploadDies(u)
  PROVE  Inv'
<1>. SUFFICES ASSUME NEW g \in Files, ~tainted'[g]
     PROVE  (RowInv(g) /\ NameInv(g) /\ CopyInv(g))'
  BY DEF Inv, FileInv
<1>1. RowInv(g) /\ NameInv(g) /\ CopyInv(g)
  BY Parts DEF Offer, LoseUpload, UploadDies
<1>2. \A w \in Uploads : (StoredBy(w, g) \/ DeletingFor(w, g))' => up'[w] = up[w]
  <2>1. CASE Offer(u, f)
    <3>. DEFINE r == [Idle EXCEPT !.pc = "sent", !.file = f, !.ver = folder[f]]
    <3>1. r.pc = "sent" /\ up' = [up EXCEPT ![u] = r]
      BY <2>1 DEF Offer, Idle
    <3>. HIDE DEF r
    <3>. QED BY <3>1, UploadFrame
  <2>2. CASE LoseUpload(u) \/ UploadDies(u)
    <3>1. Idle.pc = "idle" /\ up' = [up EXCEPT ![u] = Idle]
      BY <2>2 DEF LoseUpload, UploadDies, Idle
    <3>. QED BY <3>1, UploadFrame
  <2>. QED BY <2>1, <2>2
<1>3. UNCHANGED <<row, store, listed, cur, swept, unlink, ticked, persisted, rejected,
                  overtaken>>
  BY DEF Offer, LoseUpload, UploadDies
<1>4. RowInv(g)'
  BY <1>1, <1>3, RowFrame
<1>5. NameInv(g)'
  BY <1>1, <1>2, <1>3, NameFrame
<1>6. CopyInv(g)'
  BY <1>1, <1>3, CopyFrame
<1>. QED BY <1>4, <1>5, <1>6

\* Storage hands out a name that nobody of this file holds.
LEMMA NewName ==
  ASSUME Typed, NEW u \in Uploads, NEW f \in Files, up[u].file = f,
         RowInv(f), NameInv(f), NEW a \in Available(f)
  PROVE  /\ a \in Aliases
         /\ row[f].file # a
         /\ \A w \in Uploads : DeletingFor(w, f) => up[w].old # a
         /\ unlink.file = f => unlink.alias # a
<1>1. CASE store[f][Own] = 0 /\ a = Own
  <2>1. row[f].file # a
    BY <1>1 DEF RowInv, BytesFit, NoRow, Versions
  <2>. QED BY <1>1, <2>1 DEF NameInv
<1>2. CASE Unused(f, a) /\ a \in Aliases
  BY <1>2 DEF Unused, DeletingFor
<1>. QED BY <1>1, <1>2 DEF Available

LEMMA StoreBytesInv ==
  ASSUME Typed, Inv, NEW u \in Uploads, StoreBytes(u)
  PROVE  Inv'
<1>. SUFFICES ASSUME NEW g \in Files, ~tainted'[g]
     PROVE  (RowInv(g) /\ NameInv(g) /\ CopyInv(g))'
  BY DEF Inv, FileInv
<1>. DEFINE f == up[u].file
<1>1. RowInv(g) /\ NameInv(g) /\ CopyInv(g)
  BY Parts DEF StoreBytes
<1>2. f \in Files /\ up[u].ver \in Versions /\ up[u].pc = "sent"
  BY DEF Typed, Shape, StoreBytes
<1>3. PICK a \in Available(f) :
         /\ store' = [store EXCEPT ![f][a] = up[u].ver]
         /\ up' = [up EXCEPT ![u].pc = "stored", ![u].alias = a,
                             ![u].old = row[f].file]
  BY DEF StoreBytes
<1>4. /\ a \in Aliases
      /\ store \in [Files -> [Aliases -> 0..MaxVersion]]
      /\ up \in [Uploads -> Upload] /\ up[u] \in Upload
  BY <1>3 DEF Typed, TypeOK, Available
<1>5. /\ \A w \in Uploads \ {u} : up'[w] = up[w]
      /\ up'[u].pc = "stored" /\ up'[u].alias = a /\ up'[u].old = row[f].file
      /\ up'[u].file = f /\ up'[u].ver = up[u].ver
  BY <1>3, <1>4 DEF Upload
<1>6. CopyInv(g)'
  BY <1>1, CopyFrame DEF StoreBytes
<1>7. CASE g # f
  <2>1. store'[g] = store[g]
    BY <1>2, <1>3, <1>7, <1>4
  <2>2. RowInv(g)'
    BY <1>1, <2>1, RowFrame DEF StoreBytes
  <2>3. \A w \in Uploads : (StoredBy(w, g) \/ DeletingFor(w, g))' => up'[w] = up[w]
    BY <1>5, <1>7 DEF StoredBy, DeletingFor
  <2>4. NameInv(g)'
    BY <1>1, <2>1, <2>3, NameFrame DEF StoreBytes
  <2>. QED BY <1>6, <2>2, <2>4
<1>8. CASE g = f
  <2>1. /\ row[g].file # a
        /\ \A w \in Uploads : DeletingFor(w, g) => up[w].old # a
        /\ unlink.file = g => unlink.alias # a
    BY <1>1, <1>2, <1>8, NewName
  <2>2. /\ store'[g][a] = up[u].ver
        /\ \A b \in Aliases : b # a => store'[g][b] = store[g][b]
    BY <1>2, <1>3, <1>4, <1>8
  <2>3. row[g].file \in Names
    BY <1>2 DEF Typed, TypeOK, Row
  <2>4. RowInv(g)'
    <3>1. row[g].file # NoFile => store'[g][row[g].file] = store[g][row[g].file]
      BY <2>1, <2>2, <2>3 DEF Names
    <3>2. row' = row /\ persisted' = persisted /\ rejected' = rejected
      BY DEF StoreBytes
    <3>. QED BY <1>1, <3>1, <3>2, RowFrame
  <2>0. ASSUME NEW w \in Uploads, StoredBy(w, g)' PROVE w = u
    BY <1>5, <1>8, <2>0 DEF StoreBytes, Locked, StoredBy
  <2>5. \A w \in Uploads : DeletingFor(w, g)' => w # u /\ DeletingFor(w, g)
    BY <1>5, <1>8 DEF DeletingFor
  <2>6. \A w \in Uploads : DeletingFor(w, g)' => up'[w] = up[w] /\ up[w].old \in Aliases
    BY <1>5, <2>5 DEF DeletingFor, Typed, Shape
  <2>7. row' = row /\ unlink' = unlink
    BY DEF StoreBytes
  <2>8. ASSUME NEW w \in Uploads, StoredBy(w, g)'
        PROVE  /\ store'[g][up'[w].alias] = up'[w].ver
               /\ up'[w].old = row'[g].file
               /\ up'[w].alias # row'[g].file
               /\ \A v \in Uploads : StoredBy(v, g)' => v = w
               /\ \A v \in Uploads : DeletingFor(v, g)' => up'[v].old # up'[w].alias
    <3>0. \A v \in Uploads : StoredBy(v, g)' => v = u
      BY <2>0
    <3>1. w = u
      BY <2>0, <2>8
    <3>2. store'[g][up'[w].alias] = up'[w].ver
      BY <1>5, <2>2, <3>1
    <3>3. up'[w].old = row'[g].file
      BY <1>5, <1>8, <2>7, <3>1
    <3>4. up'[w].alias # row'[g].file
      BY <1>5, <2>1, <2>7, <3>1
    <3>5. ASSUME NEW v \in Uploads, DeletingFor(v, g)' PROVE up'[v].old # up'[w].alias
      BY <1>5, <2>1, <2>5, <2>6, <3>1, <3>5 DEF StoredBy, DeletingFor
    <3>. QED BY <3>0, <3>1, <3>2, <3>3, <3>4, <3>5
  <2>9. ASSUME NEW w \in Uploads, DeletingFor(w, g)'
        PROVE  /\ store'[g][up'[w].old] # 0
               /\ up'[w].old # row'[g].file
               /\ \A v \in Uploads : DeletingFor(v, g)' /\ up'[v].old = up'[w].old
                                      => v = w
    <3>1. DeletingFor(w, g) /\ up'[w] = up[w] /\ up[w].old \in Aliases /\ up[w].old # a
      BY <2>1, <2>5, <2>6, <2>9 DEF DeletingFor
    <3>2. store[g][up[w].old] # 0 /\ up[w].old # row[g].file
      BY <1>1, <3>1 DEF NameInv
    <3>3. store'[g][up'[w].old] # 0
      BY <2>2, <3>1, <3>2
    <3>4. up'[w].old # row'[g].file
      BY <2>7, <3>1, <3>2
    <3>5. ASSUME NEW v \in Uploads, DeletingFor(v, g)', up'[v].old = up'[w].old
          PROVE  v = w
      <4>1. DeletingFor(v, g) /\ up[v].old = up[w].old
        BY <2>5, <2>6, <3>1, <3>5 DEF DeletingFor
      <4>. QED BY <1>1, <3>1, <4>1 DEF NameInv
    <3>. QED BY <3>3, <3>4, <3>5
  <2>10. ASSUME unlink'.file = g
         PROVE  /\ store'[g][unlink'.alias] # 0
                /\ unlink'.alias # row'[g].file
                /\ \A w \in Uploads : StoredBy(w, g)' => up'[w].alias # unlink'.alias
                /\ \A w \in Uploads : DeletingFor(w, g)' => up'[w].old # unlink'.alias
    <3>1. /\ unlink' = unlink /\ unlink.file = g
          /\ unlink.alias \in Aliases /\ unlink.alias # a
      BY <2>1, <2>7, <2>10 DEF Typed, Shape, Unlinked
    <3>2. store[g][unlink.alias] # 0 /\ unlink.alias # row[g].file
      BY <1>1, <3>1 DEF NameInv
    <3>3. store'[g][unlink'.alias] # 0
      BY <2>2, <3>1, <3>2
    <3>4. unlink'.alias # row'[g].file
      BY <2>7, <3>1, <3>2
    <3>5. ASSUME NEW w \in Uploads, StoredBy(w, g)' PROVE up'[w].alias # unlink'.alias
      BY <1>5, <2>0, <3>1, <3>5
    <3>6. ASSUME NEW w \in Uploads, DeletingFor(w, g)' PROVE up'[w].old # unlink'.alias
      <4>1. DeletingFor(w, g) /\ up'[w] = up[w]
        BY <2>5, <2>6, <3>6 DEF DeletingFor
      <4>. QED BY <1>1, <3>1, <4>1 DEF NameInv
    <3>. QED BY <3>3, <3>4, <3>5, <3>6
  <2>11. NameInv(g)'
    BY <2>8, <2>9, <2>10 DEF NameInv
  <2>. QED BY <1>6, <1>8, <2>4, <2>11
<1>. QED BY <1>7, <1>8

LEMMA CommitUploadInv ==
  ASSUME Typed, Inv, NEW u \in Uploads, CommitUpload(u)
  PROVE  Inv'
<1>. SUFFICES ASSUME NEW g \in Files, ~tainted'[g]
     PROVE  (RowInv(g) /\ NameInv(g) /\ CopyInv(g))'
  BY DEF Inv, FileInv
<1>1. RowInv(g) /\ NameInv(g) /\ CopyInv(g)
  BY Parts DEF CommitUpload
<1>2. PICK f \in Files : f = up[u].file
  BY DEF Typed, Shape, CommitUpload
<1>3. /\ up[u].pc = "stored" /\ up[u].ver \in Versions /\ up[u].alias \in Aliases
      /\ up \in [Uploads -> Upload] /\ row \in [Files -> Row]
  BY DEF Typed, TypeOK, Shape, CommitUpload
<1>4. /\ \A w \in Uploads \ {u} : up'[w] = up[w]
      /\ up'[u] = IF Supersedes(u) THEN [up[u] EXCEPT !.pc = "committed"] ELSE Idle
  BY <1>3 DEF CommitUpload
<1>5. up'[u].pc = IF Supersedes(u) THEN "committed" ELSE "idle"
  BY <1>3, <1>4 DEF Upload, Idle
<1>6. Supersedes(u) => up'[u].file = f /\ up'[u].old = up[u].old
  BY <1>2, <1>3, <1>4 DEF Upload
<1>7. CASE g # f
  <2>1. row'[g] = row[g]
    BY <1>2, <1>3, <1>7 DEF CommitUpload
  <2>2. \A w \in Uploads : (StoredBy(w, g) \/ DeletingFor(w, g))' => up'[w] = up[w]
    BY <1>4, <1>5, <1>6, <1>7 DEF StoredBy, DeletingFor
  <2>3. RowInv(g)'
    BY <1>1, <2>1, RowFrame DEF CommitUpload
  <2>4. NameInv(g)'
    BY <1>1, <2>1, <2>2, NameFrame DEF CommitUpload
  <2>5. Written(f)
    BY <1>2 DEF CommitUpload
  <2>6. CopyInv(g)'
    BY <1>1, <1>7, <2>1, <2>5, CopyFrameOther DEF CommitUpload
  <2>. QED BY <2>3, <2>4, <2>6
<1>8. CASE g = f
  <2>1. row'[g] = Delivered(u) /\ store' = store /\ unlink' = unlink
    BY <1>2, <1>3, <1>8 DEF CommitUpload
  <2>2. StoredBy(u, g) /\ up[u].alias # NoFile
    BY <1>2, <1>3, <1>8 DEF StoredBy
  <2>3. /\ store[g][up[u].alias] = up[u].ver
        /\ up[u].old = row[g].file
        /\ up[u].alias # row[g].file
        /\ \A w \in Uploads : StoredBy(w, g) => w = u
        /\ \A w \in Uploads : DeletingFor(w, g) => up[w].old # up[u].alias
    BY <1>1, <2>2 DEF NameInv
  <2>4. RowInv(g)'
    BY <1>3, <2>1, <2>3 DEF RowInv, BytesFit, VerdictFits, Delivered
  <2>5. CopyInv(g)'
    BY <1>1, <1>2, <1>8, CopyFrameOwn DEF CommitUpload
  <2>6. ASSUME NEW w \in Uploads, StoredBy(w, g)' PROVE FALSE
    BY <1>4, <1>5, <2>3, <2>6 DEF StoredBy
  <2>7. ASSUME NEW w \in Uploads, DeletingFor(w, g)'
        PROVE  \/ DeletingFor(w, g) /\ w # u /\ up'[w] = up[w]
               \/ w = u /\ Supersedes(u) /\ up'[w].old = row[g].file
    BY <1>3, <1>4, <1>5, <1>6, <2>3, <2>7 DEF DeletingFor
  <2>8. Supersedes(u) => store[g][row[g].file] # 0
    BY <1>1, <2>3 DEF Supersedes, RowInv, BytesFit, NoRow, Versions
  <2>9. ASSUME NEW w \in Uploads, DeletingFor(w, g)'
        PROVE  /\ store'[g][up'[w].old] # 0
               /\ up'[w].old # row'[g].file
               /\ \A v \in Uploads : DeletingFor(v, g)' /\ up'[v].old = up'[w].old
                                      => v = w
    <3>1. CASE DeletingFor(w, g) /\ w # u /\ up'[w] = up[w]
      <4>1. store[g][up[w].old] # 0 /\ up[w].old # row[g].file
        BY <1>1, <3>1 DEF NameInv
      <4>2. up'[w].old # row'[g].file
        BY <2>1, <2>3, <3>1 DEF Delivered
      <4>3. ASSUME NEW v \in Uploads, DeletingFor(v, g)', up'[v].old = up'[w].old
            PROVE  v = w
        <5>1. DeletingFor(v, g) /\ up[v].old = up[w].old
          BY <2>7, <3>1, <4>1, <4>3
        <5>. QED BY <1>1, <3>1, <5>1 DEF NameInv
      <4>. QED BY <2>1, <3>1, <4>1, <4>2, <4>3
    <3>2. CASE w = u /\ Supersedes(u) /\ up'[w].old = row[g].file
      <4>1. store'[g][up'[w].old] # 0
        BY <2>1, <2>8, <3>2
      <4>2. up'[w].old # row'[g].file
        BY <2>1, <2>3, <3>2 DEF Delivered
      <4>3. ASSUME NEW v \in Uploads, DeletingFor(v, g)', up'[v].old = up'[w].old
            PROVE  v = w
        <5>1. ASSUME DeletingFor(v, g), up'[v] = up[v] PROVE FALSE
          BY <1>1, <3>2, <4>3, <5>1 DEF NameInv
        <5>. QED BY <2>7, <3>2, <4>3, <5>1
      <4>. QED BY <4>1, <4>2, <4>3
    <3>. QED BY <2>7, <2>9, <3>1, <3>2
  <2>10. ASSUME unlink'.file = g
         PROVE  /\ store'[g][unlink'.alias] # 0
                /\ unlink'.alias # row'[g].file
                /\ \A w \in Uploads : DeletingFor(w, g)' => up'[w].old # unlink'.alias
    <3>1. /\ store[g][unlink.alias] # 0 /\ unlink.alias # row[g].file
          /\ up[u].alias # unlink.alias
      BY <1>1, <2>1, <2>2, <2>10 DEF NameInv
    <3>2. unlink'.alias # row'[g].file
      BY <2>1, <3>1 DEF Delivered
    <3>3. ASSUME NEW w \in Uploads, DeletingFor(w, g)' PROVE up'[w].old # unlink'.alias
      <4>1. DeletingFor(w, g) => up[w].old # unlink.alias
        BY <1>1, <2>1, <2>10 DEF NameInv
      <4>. QED BY <2>1, <2>7, <3>1, <3>3, <4>1
    <3>. QED BY <2>1, <3>1, <3>2, <3>3
  <2>11. NameInv(g)'
    BY <2>6, <2>9, <2>10 DEF NameInv
  <2>. QED BY <2>4, <2>5, <2>11
<1>. QED BY <1>7, <1>8

\* A name deleted under file f: what is left of f's bytes is what others hold.
LEMMA DeleteFrame ==
  ASSUME NEW f \in Files, NEW a \in Aliases,
         store \in [Files -> [Aliases -> 0..MaxVersion]],
         store' = [store EXCEPT ![f][a] = 0]
  PROVE  /\ \A g \in Files : g # f => store'[g] = store[g]
         /\ \A b \in Names : b # a => store'[f][b] = store[f][b]
<1>1. store' = [store EXCEPT ![f] = [store[f] EXCEPT ![a] = 0]]
  OBVIOUS
<1>2. store'[f] = [store[f] EXCEPT ![a] = 0]
  BY <1>1
<1>3. ASSUME NEW b \in Names, b # a PROVE store'[f][b] = store[f][b]
  BY <1>2, <1>3
<1>. QED BY <1>1, <1>3

LEMMA DeleteSupersededInv ==
  ASSUME Typed, Inv, NEW u \in Uploads, DeleteSuperseded(u)
  PROVE  Inv'
<1>. SUFFICES ASSUME NEW g \in Files, ~tainted'[g]
     PROVE  (RowInv(g) /\ NameInv(g) /\ CopyInv(g))'
  BY DEF Inv, FileInv
<1>1. RowInv(g) /\ NameInv(g) /\ CopyInv(g)
  BY Parts DEF DeleteSuperseded
<1>2. PICK f \in Files, a \in Aliases : f = up[u].file /\ a = up[u].old
  BY DEF Typed, Shape, DeleteSuperseded
<1>3. /\ \A h \in Files : h # f => store'[h] = store[h]
      /\ \A b \in Names : b # a => store'[f][b] = store[f][b]
  BY <1>2, DeleteFrame DEF DeleteSuperseded, Typed, TypeOK
<1>4. /\ \A w \in Uploads \ {u} : up'[w] = up[w]
      /\ up'[u].pc = "idle"
  BY DEF DeleteSuperseded, Typed, TypeOK, Idle
<1>5. /\ row' = row /\ unlink' = unlink
      /\ row[g].file \in Names /\ unlink.alias \in Names
      /\ \A w \in Uploads : up[w].alias \in Names /\ up[w].old \in Names
  BY DEF DeleteSuperseded, Typed, TypeOK, Row, Upload
<1>6. CopyInv(g)'
  BY <1>1, CopyFrame DEF DeleteSuperseded
<1>7. CASE g # f
  <2>1. \A w \in Uploads : (StoredBy(w, g) \/ DeletingFor(w, g))' => up'[w] = up[w]
    BY <1>4 DEF StoredBy, DeletingFor
  <2>2. NameInv(g)'
    BY <1>1, <1>3, <1>5, <1>7, <2>1, NameFrame
  <2>3. RowInv(g)'
    BY <1>1, <1>3, <1>7, RowFrame DEF DeleteSuperseded
  <2>. QED BY <1>6, <2>2, <2>3
<1>8. CASE g = f
  <2>1. DeletingFor(u, g)
    BY <1>2, <1>8 DEF DeletingFor, DeleteSuperseded
  <2>2. row[g].file # a
    BY <1>1, <1>2, <2>1 DEF NameInv
  <2>3. RowInv(g)'
    BY <1>1, <1>3, <1>5, <1>8, <2>2, RowFrame DEF DeleteSuperseded
  <2>4. ASSUME NEW w \in Uploads, StoredBy(w, g)'
        PROVE  StoredBy(w, g) /\ up'[w] = up[w] /\ up[w].alias # a
    <3>1. StoredBy(w, g) /\ up'[w] = up[w]
      BY <1>4, <2>4 DEF StoredBy
    <3>. QED BY <1>1, <1>2, <2>1, <3>1 DEF NameInv
  <2>5. ASSUME NEW w \in Uploads, DeletingFor(w, g)'
        PROVE  DeletingFor(w, g) /\ up'[w] = up[w] /\ up[w].old # a
    <3>1. DeletingFor(w, g) /\ up'[w] = up[w] /\ w # u
      BY <1>4, <2>5 DEF DeletingFor
    <3>. QED BY <1>1, <1>2, <2>1, <3>1 DEF NameInv
  <2>6. unlink.file = g => unlink.alias # a
    BY <1>1, <1>2, <2>1 DEF NameInv
  <2>7. ASSUME NEW w \in Uploads, StoredBy(w, g)'
        PROVE  /\ store'[g][up'[w].alias] = up'[w].ver
               /\ up'[w].old = row'[g].file
               /\ up'[w].alias # row'[g].file
               /\ \A v \in Uploads : StoredBy(v, g)' => v = w
               /\ \A v \in Uploads : DeletingFor(v, g)' => up'[v].old # up'[w].alias
    <3>1. StoredBy(w, g) /\ up'[w] = up[w] /\ up[w].alias # a
      BY <2>4, <2>7
    <3>2. /\ store[g][up[w].alias] = up[w].ver
          /\ up[w].old = row[g].file
          /\ up[w].alias # row[g].file
      BY <1>1, <3>1 DEF NameInv
    <3>3. store'[g][up'[w].alias] = up'[w].ver
      BY <1>3, <1>5, <1>8, <3>1, <3>2
    <3>4. ASSUME NEW v \in Uploads, StoredBy(v, g)' PROVE v = w
      <4>1. StoredBy(v, g)
        BY <2>4, <3>4
      <4>. QED BY <1>1, <3>1, <4>1 DEF NameInv
    <3>5. ASSUME NEW v \in Uploads, DeletingFor(v, g)' PROVE up'[v].old # up'[w].alias
      <4>1. DeletingFor(v, g) /\ up'[v] = up[v]
        BY <2>5, <3>5
      <4>. QED BY <1>1, <3>1, <4>1 DEF NameInv
    <3>. QED BY <1>5, <3>1, <3>2, <3>3, <3>4, <3>5
  <2>8. ASSUME NEW w \in Uploads, DeletingFor(w, g)'
        PROVE  /\ store'[g][up'[w].old] # 0
               /\ up'[w].old # row'[g].file
               /\ \A v \in Uploads : DeletingFor(v, g)' /\ up'[v].old = up'[w].old
                                      => v = w
    <3>1. DeletingFor(w, g) /\ up'[w] = up[w] /\ up[w].old # a
      BY <2>5, <2>8
    <3>2. store[g][up[w].old] # 0 /\ up[w].old # row[g].file
      BY <1>1, <3>1 DEF NameInv
    <3>3. store'[g][up'[w].old] # 0
      BY <1>3, <1>5, <1>8, <3>1, <3>2
    <3>4. ASSUME NEW v \in Uploads, DeletingFor(v, g)', up'[v].old = up'[w].old
          PROVE  v = w
      <4>1. DeletingFor(v, g) /\ up[v].old = up[w].old
        BY <2>5, <3>1, <3>4
      <4>. QED BY <1>1, <3>1, <4>1 DEF NameInv
    <3>. QED BY <1>5, <3>1, <3>2, <3>3, <3>4
  <2>9. ASSUME unlink'.file = g
        PROVE  /\ store'[g][unlink'.alias] # 0
               /\ unlink'.alias # row'[g].file
               /\ \A w \in Uploads : StoredBy(w, g)' => up'[w].alias # unlink'.alias
               /\ \A w \in Uploads : DeletingFor(w, g)' => up'[w].old # unlink'.alias
    <3>1. store[g][unlink.alias] # 0 /\ unlink.alias # row[g].file
      BY <1>1, <1>5, <2>9 DEF NameInv
    <3>2. store'[g][unlink'.alias] # 0
      BY <1>3, <1>5, <1>8, <2>6, <2>9, <3>1
    <3>3. ASSUME NEW w \in Uploads, StoredBy(w, g)' PROVE up'[w].alias # unlink'.alias
      <4>1. StoredBy(w, g) /\ up'[w] = up[w]
        BY <2>4, <3>3
      <4>. QED BY <1>1, <1>5, <2>9, <4>1 DEF NameInv
    <3>4. ASSUME NEW w \in Uploads, DeletingFor(w, g)' PROVE up'[w].old # unlink'.alias
      <4>1. DeletingFor(w, g) /\ up'[w] = up[w]
        BY <2>5, <3>4
      <4>. QED BY <1>1, <1>5, <2>9, <4>1 DEF NameInv
    <3>. QED BY <1>5, <3>1, <3>2, <3>3, <3>4
  <2>10. NameInv(g)'
    BY <2>7, <2>8, <2>9 DEF NameInv
  <2>. QED BY <1>6, <2>3, <2>10
<1>. QED BY <1>7, <1>8

LEMMA DrainListInv ==
  ASSUME Typed, Inv, DrainList
  PROVE  Inv'
<1>. SUFFICES ASSUME NEW g \in Files, ~tainted'[g]
     PROVE  (RowInv(g) /\ NameInv(g) /\ CopyInv(g))'
  BY DEF Inv, FileInv
<1>1. RowInv(g) /\ NameInv(g) /\ CopyInv(g)
  BY Parts DEF DrainList
<1>2. RowInv(g)'
  BY <1>1, RowFrame DEF DrainList
<1>3. NameInv(g)'
  BY <1>1, NameFrame DEF DrainList
<1>4. listed'[g] # NoFile => row[g].status = "received" /\ row[g].file = listed'[g]
  BY DEF DrainList, Waiting
<1>5. CopyInv(g)'
  BY <1>1, <1>4 DEF DrainList, CopyInv, Fresh, Loaded, NoCurrent, Actors
<1>. QED BY <1>2, <1>3, <1>5

LEMMA DrainReadInv ==
  ASSUME Typed, Inv, NEW f \in Files, DrainRead(f)
  PROVE  Inv'
<1>. SUFFICES ASSUME NEW g \in Files, ~tainted'[g]
     PROVE  (RowInv(g) /\ NameInv(g) /\ CopyInv(g))'
  BY DEF Inv, FileInv
<1>1. RowInv(g) /\ NameInv(g) /\ CopyInv(g)
  BY Parts DEF DrainRead
<1>2. /\ cur'.file = f /\ cur'.ver = store[f][listed[f]]
      /\ cur'.stage \in {"decoded", "rejected"}
      /\ cur'.stage = "rejected" => cur'.ver \in rejected'[f]
      /\ \A h \in Files : rejected[h] \subseteq rejected'[h]
  BY DEF DrainRead, Typed, TypeOK
<1>3. RowInv(g)'
  BY <1>1, <1>2, RowFrame DEF DrainRead
<1>4. NameInv(g)'
  BY <1>1, NameFrame DEF DrainRead
<1>5. g = f /\ Fresh("drain", g) => cur'.ver = row[g].ver
  BY <1>1, <1>2 DEF DrainRead, CopyInv, RowInv, BytesFit
<1>6. CopyInv(g)'
  BY <1>1, <1>2, <1>5 DEF DrainRead, CopyInv, Fresh, NoCurrent
<1>. QED BY <1>3, <1>4, <1>6

LEMMA DrainOtherInv ==
  ASSUME Typed, Inv,
         DrainFlush \/ DrainDies \/ \E f \in Files : DrainUnreadable(f)
  PROVE  Inv'
<1>. SUFFICES ASSUME NEW g \in Files, ~tainted'[g]
     PROVE  (RowInv(g) /\ NameInv(g) /\ CopyInv(g))'
  BY DEF Inv, FileInv
<1>1. RowInv(g) /\ NameInv(g) /\ CopyInv(g)
  BY Parts DEF DrainFlush, DrainDies, DrainUnreadable
<1>2. /\ UNCHANGED <<row, store, up, swept, unlink, ticked, rejected, overtaken>>
      /\ persisted[g] \subseteq persisted'[g]
  BY DEF DrainFlush, DrainDies, DrainUnreadable, Typed, TypeOK
<1>3. RowInv(g)'
  BY <1>1, <1>2, RowFrame
<1>4. NameInv(g)'
  BY <1>1, <1>2, NameFrame
<1>5. CopyInv(g)'
  <2>1. CASE DrainFlush
    BY <1>1, <2>1 DEF DrainFlush, CopyInv, Fresh, Typed, TypeOK, Current, Versions, Shape
  <2>2. CASE DrainDies
    BY <1>1, <2>2 DEF DrainDies, CopyInv, Fresh, NoCurrent
  <2>3. CASE \E f \in Files : DrainUnreadable(f)
    BY <1>1, <2>3 DEF DrainUnreadable, CopyInv, Fresh, NoCurrent, Typed, TypeOK
  <2>. QED BY <2>1, <2>2, <2>3
<1>. QED BY <1>3, <1>4, <1>5

\* A save lands on f: what the histories say of f, and of the other files.
LEMMA SavedFromEffect ==
  ASSUME Typed, NEW f \in Files, NEW x \in Actors, SavedFrom(x, f)
  PROVE  /\ Written(f)
         /\ ~tainted'[f] => Fresh(x, f)
         /\ \A g \in Files : ~tainted'[g] => ~tainted[g]
  BY DEF SavedFrom, Typed, TypeOK, Fresh

LEMMA SaveVerdictInv ==
  ASSUME Typed, Inv, MarkProcessed \/ MarkFailed
  PROVE  Inv'
<1>. SUFFICES ASSUME NEW g \in Files, ~tainted'[g]
     PROVE  (RowInv(g) /\ NameInv(g) /\ CopyInv(g))'
  BY DEF Inv, FileInv
<1>1. PICK s \in {"processed", "failed"} :
        /\ SaveVerdict(s)
        /\ s = "processed" => cur.stage = "flushed"
        /\ s = "failed" => cur.stage = "rejected"
  BY DEF MarkProcessed, MarkFailed
<1>2. PICK f \in Files : f = cur.file
  BY <1>1 DEF Typed, Shape
<1>3. SavedFrom("drain", f) /\ "drain" \in Actors
  BY <1>1, <1>2 DEF SaveVerdict, Actors
<1>4. Written(f) /\ (~tainted'[f] => Fresh("drain", f)) /\ ~tainted[g]
  BY <1>3, SavedFromEffect
<1>5. RowInv(g) /\ NameInv(g) /\ CopyInv(g)
  BY <1>4, Parts
<1>6. /\ row' = [row EXCEPT ![f].status = s, ![f].aged = FALSE]
      /\ listed' = [listed EXCEPT ![f] = NoFile]
      /\ cur' = NoCurrent
      /\ UNCHANGED <<store, up, swept, unlink, ticked, persisted, rejected>>
  BY <1>1, <1>2 DEF SaveVerdict
<1>7. row \in [Files -> Row] /\ row[f] \in Row /\ listed \in [Files -> Names]
  BY DEF Typed, TypeOK
<1>8. CASE g # f
  <2>1. row'[g] = row[g] /\ listed'[g] = listed[g]
    BY <1>6, <1>7, <1>8
  <2>2. RowInv(g)'
    BY <1>5, <1>6, <2>1, RowFrame
  <2>3. NameInv(g)'
    BY <1>5, <1>6, <2>1, NameFrame
  <2>4. CopyInv(g)'
    BY <1>4, <1>5, <1>6, <1>8, <2>1 DEF CopyInv, Fresh, Written, Actors, NoCurrent
  <2>. QED BY <2>2, <2>3, <2>4
<1>9. CASE g = f
  <2>1. /\ row'[g].ver = row[g].ver /\ row'[g].hash = row[g].hash
        /\ row'[g].file = row[g].file /\ row'[g].status = s /\ row'[g].aged = FALSE
    BY <1>6, <1>7, <1>9 DEF Row
  <2>2. row[g].status = "received" /\ cur.ver = row[g].ver
    BY <1>2, <1>4, <1>5, <1>9 DEF CopyInv
  <2>3. row[g].ver \in Versions /\ row[g].file # NoFile
    BY <1>5, <2>2 DEF RowInv
  <2>4. VerdictFits(g)'
    BY <1>1, <1>2, <1>5, <1>6, <1>9, <2>1, <2>2 DEF VerdictFits, CopyInv
  <2>5. BytesFit(g)'
    BY <1>5, <1>6, <2>1 DEF BytesFit, RowInv
  <2>6. RowInv(g)'
    BY <1>5, <2>1, <2>3, <2>4, <2>5 DEF RowInv
  <2>7. NameInv(g)'
    BY <1>5, <1>6, <2>1, NameFrame
  <2>8. CopyInv(g)'
    BY <1>4, <1>6, <1>9 DEF CopyInv, Fresh, Written, Actors, NoCurrent
  <2>. QED BY <2>6, <2>7, <2>8
<1>. QED BY <1>8, <1>9

LEMMA AgeInv ==
  ASSUME Typed, Inv, NEW f \in Files, Age(f)
  PROVE  Inv'
<1>. SUFFICES ASSUME NEW g \in Files, ~tainted'[g]
     PROVE  (RowInv(g) /\ NameInv(g) /\ CopyInv(g))'
  BY DEF Inv, FileInv
<1>1. RowInv(g) /\ NameInv(g) /\ CopyInv(g)
  BY Parts DEF Age
<1>2. /\ row' = [row EXCEPT ![f].aged = TRUE] /\ row[f].status = "processed"
      /\ row \in [Files -> Row] /\ row[f] \in Row
      /\ UNCHANGED <<store, up, listed, cur, swept, unlink, ticked, persisted, rejected,
                     overtaken>>
  BY DEF Age, Typed, TypeOK
<1>3. CASE g # f
  <2>1. row'[g] = row[g]
    BY <1>2, <1>3
  <2>. QED BY <1>1, <1>2, <2>1, RowFrame, NameFrame, CopyFrame
<1>4. CASE g = f
  <2>1. /\ row'[g].ver = row[g].ver /\ row'[g].hash = row[g].hash
        /\ row'[g].file = row[g].file /\ row'[g].status = "processed"
        /\ row'[g].aged = TRUE
    BY <1>2, <1>4 DEF Row
  <2>2. RowInv(g)'
    BY <1>1, <1>2, <1>4, <2>1 DEF RowInv, BytesFit, VerdictFits
  <2>3. NameInv(g)'
    BY <1>1, <1>2, <2>1, NameFrame
  <2>4. CopyInv(g)'
    BY <1>1, <1>2, <1>4, <2>1 DEF CopyInv, Fresh
  <2>. QED BY <2>2, <2>3, <2>4
<1>. QED BY <1>3, <1>4

LEMMA SweepListInv ==
  ASSUME Typed, Inv, SweepList
  PROVE  Inv'
<1>. SUFFICES ASSUME NEW g \in Files, ~tainted'[g]
     PROVE  (RowInv(g) /\ NameInv(g) /\ CopyInv(g))'
  BY DEF Inv, FileInv
<1>1. RowInv(g) /\ NameInv(g) /\ CopyInv(g)
  BY Parts DEF SweepList
<1>2. RowInv(g)'
  BY <1>1, RowFrame DEF SweepList
<1>3. NameInv(g)'
  BY <1>1, NameFrame DEF SweepList
<1>4. swept'[g] # NoFile =>
         row[g].status = "processed" /\ row[g].aged /\ row[g].file = swept'[g]
  BY DEF SweepList, Prunable
<1>5. CopyInv(g)'
  BY <1>1, <1>4 DEF SweepList, CopyInv, Fresh, Loaded, Typed, TypeOK, Actors
<1>. QED BY <1>2, <1>3, <1>5

\* What the sweep's copy still tells it when its save does not taint the row.
LEMMA PruneFresh ==
  ASSUME Typed, Inv, NEW f \in Files, Prune(f), ~tainted'[f]
  PROVE  /\ ~tainted[f]
         /\ row[f].status = "processed" /\ row[f].aged /\ row[f].file = swept[f]
         /\ swept[f] \in Aliases
<1>1. SavedFrom("sweep", f) /\ "sweep" \in Actors
  BY DEF Prune, Actors
<1>2. ~tainted[f] /\ Fresh("sweep", f)
  BY <1>1, SavedFromEffect
<1>3. CopyInv(f)
  BY <1>2, Parts
<1>. QED BY <1>2, <1>3 DEF CopyInv, Prune, Typed, TypeOK, Names

LEMMA PruneInv ==
  ASSUME Typed, Inv, NEW f \in Files, Prune(f)
  PROVE  Inv'
<1>. SUFFICES ASSUME NEW g \in Files, ~tainted'[g]
     PROVE  (RowInv(g) /\ NameInv(g) /\ CopyInv(g))'
  BY DEF Inv, FileInv
<1>1. SavedFrom("sweep", f) /\ "sweep" \in Actors
  BY DEF Prune, Actors
<1>2. Written(f) /\ ~tainted[g]
  BY <1>1, SavedFromEffect
<1>3. RowInv(g) /\ NameInv(g) /\ CopyInv(g)
  BY <1>2, Parts
<1>4. /\ row' = [row EXCEPT ![f].file = NoFile]
      /\ swept' = [swept EXCEPT ![f] = NoFile]
      /\ unlink' = [file |-> f, alias |-> swept[f]]
      /\ ~Locked(f)
      /\ UNCHANGED <<store, up, listed, cur, ticked, persisted, rejected>>
      /\ row \in [Files -> Row] /\ row[f] \in Row /\ swept \in [Files -> Names]
  BY DEF Prune, Typed, TypeOK
<1>5. CASE g # f
  <2>1. row'[g] = row[g] /\ swept'[g] = swept[g] /\ unlink'.file # g
    BY <1>4, <1>5
  <2>2. RowInv(g)'
    BY <1>3, <1>4, <2>1, RowFrame
  <2>3. NameInv(g)'
    BY <1>3, <1>4, <2>1, NameFrame
  <2>4. CopyInv(g)'
    BY <1>2, <1>3, <1>4, <1>5, <2>1, CopyFrameOther
  <2>. QED BY <2>2, <2>3, <2>4
<1>6. CASE g = f
  <2>1. /\ row'[g].ver = row[g].ver /\ row'[g].hash = row[g].hash
        /\ row'[g].file = NoFile /\ row'[g].status = row[g].status
        /\ row'[g].aged = row[g].aged
    BY <1>4, <1>6 DEF Row
  <2>2. /\ row[g].status = "processed" /\ row[g].aged /\ row[g].file = swept[g]
        /\ swept[g] \in Aliases
    BY <1>6, PruneFresh
  <2>3. RowInv(g)'
    BY <1>3, <1>4, <2>1, <2>2 DEF RowInv, BytesFit, VerdictFits
  <2>4. CopyInv(g)'
    BY <1>2, <1>3, <1>4, <1>6 DEF CopyInv, Fresh, Written, Actors
  <2>5. ASSUME NEW w \in Uploads, StoredBy(w, g)' PROVE FALSE
    BY <1>4, <1>6, <2>5 DEF StoredBy, Locked
  <2>6. store[g][swept[g]] # 0
    BY <1>3, <2>2 DEF RowInv, BytesFit, Versions
  <2>7. ASSUME NEW w \in Uploads, DeletingFor(w, g)'
        PROVE  /\ DeletingFor(w, g) /\ up'[w] = up[w]
               /\ store[g][up[w].old] # 0
               /\ up[w].old # row[g].file /\ up[w].old \in Aliases
    <3>1. DeletingFor(w, g) /\ up'[w] = up[w]
      BY <1>4, <2>7 DEF DeletingFor
    <3>2. up[w].old \in Aliases
      BY <3>1 DEF DeletingFor, Typed, Shape
    <3>. QED BY <1>3, <3>1, <3>2 DEF NameInv
  <2>8. ASSUME NEW w \in Uploads, DeletingFor(w, g)'
        PROVE  /\ store'[g][up'[w].old] # 0
               /\ up'[w].old # row'[g].file
               /\ \A v \in Uploads : DeletingFor(v, g)' /\ up'[v].old = up'[w].old
                                      => v = w
    <3>1. store'[g][up'[w].old] # 0 /\ up'[w].old # row'[g].file
      BY <1>4, <2>1, <2>7, <2>8
    <3>2. ASSUME NEW v \in Uploads, DeletingFor(v, g)', up'[v].old = up'[w].old
          PROVE  v = w
      <4>1. DeletingFor(v, g) /\ DeletingFor(w, g) /\ up[v].old = up[w].old
        BY <2>7, <2>8, <3>2
      <4>. QED BY <1>3, <4>1 DEF NameInv
    <3>. QED BY <3>1, <3>2
  <2>9. ASSUME NEW w \in Uploads, DeletingFor(w, g)' PROVE up'[w].old # unlink'.alias
    BY <1>4, <1>6, <2>2, <2>7, <2>9
  <2>10. store'[g][unlink'.alias] # 0 /\ unlink'.alias # row'[g].file
    BY <1>4, <1>6, <2>1, <2>2, <2>6
  <2>11. NameInv(g)'
    BY <2>5, <2>8, <2>9, <2>10 DEF NameInv
  <2>. QED BY <2>3, <2>4, <2>11
<1>. QED BY <1>5, <1>6

LEMMA PruneUnlinkInv ==
  ASSUME Typed, Inv, PruneUnlink
  PROVE  Inv'
<1>. SUFFICES ASSUME NEW g \in Files, ~tainted'[g]
     PROVE  (RowInv(g) /\ NameInv(g) /\ CopyInv(g))'
  BY DEF Inv, FileInv
<1>1. RowInv(g) /\ NameInv(g) /\ CopyInv(g)
  BY Parts DEF PruneUnlink
<1>2. PICK f \in Files, a \in Aliases : f = unlink.file /\ a = unlink.alias
  BY DEF Typed, Shape, PruneUnlink
<1>3. /\ \A h \in Files : h # f => store'[h] = store[h]
      /\ \A b \in Names : b # a => store'[f][b] = store[f][b]
  BY <1>2, DeleteFrame DEF PruneUnlink, Typed, TypeOK
<1>4. /\ row' = row /\ up' = up /\ unlink'.file # g
      /\ row[g].file \in Names
      /\ \A w \in Uploads : up[w].alias \in Names /\ up[w].old \in Names
  BY DEF PruneUnlink, Typed, TypeOK, Row, Upload, Unlinked
<1>5. CopyInv(g)'
  BY <1>1, CopyFrame DEF PruneUnlink
<1>6. CASE g # f
  <2>1. NameInv(g)'
    BY <1>1, <1>3, <1>4, <1>6, NameFrame
  <2>2. RowInv(g)'
    BY <1>1, <1>3, <1>6, RowFrame DEF PruneUnlink
  <2>. QED BY <1>5, <2>1, <2>2
<1>7. CASE g = f
  <2>1. /\ row[g].file # a
        /\ \A w \in Uploads : StoredBy(w, g) => up[w].alias # a
        /\ \A w \in Uploads : DeletingFor(w, g) => up[w].old # a
    BY <1>1, <1>2, <1>7 DEF NameInv
  <2>2. RowInv(g)'
    BY <1>1, <1>3, <1>4, <1>7, <2>1, RowFrame DEF PruneUnlink
  <2>3. ASSUME NEW w \in Uploads, StoredBy(w, g)
        PROVE  store'[g][up[w].alias] = up[w].ver
    BY <1>1, <1>3, <1>4, <1>7, <2>1, <2>3 DEF NameInv
  <2>4. ASSUME NEW w \in Uploads, DeletingFor(w, g)
        PROVE  store'[g][up[w].old] # 0
    BY <1>1, <1>3, <1>4, <1>7, <2>1, <2>4 DEF NameInv
  <2>5. NameInv(g)'
    BY <1>1, <1>4, <2>3, <2>4 DEF NameInv, StoredBy, DeletingFor
  <2>. QED BY <1>5, <2>2, <2>5
<1>. QED BY <1>6, <1>7

LEMMA SweepDiesInv ==
  ASSUME Typed, Inv, SweepDies \/ PruneFails
  PROVE  Inv'
<1>. SUFFICES ASSUME NEW g \in Files, ~tainted'[g]
     PROVE  (RowInv(g) /\ NameInv(g) /\ CopyInv(g))'
  BY DEF Inv, FileInv
<1>1. RowInv(g) /\ NameInv(g) /\ CopyInv(g)
  BY Parts DEF SweepDies, PruneFails
<1>2. /\ unlink' = unlink \/ unlink' = Unlinked
      /\ swept'[g] = swept[g] \/ swept'[g] = NoFile
      /\ UNCHANGED <<row, store, up, listed, cur, ticked, persisted, rejected, overtaken>>
  BY DEF SweepDies, PruneFails, Typed, TypeOK
<1>3. RowInv(g)'
  BY <1>1, <1>2, RowFrame
<1>4. NameInv(g)'
  BY <1>1, <1>2, NameFrame DEF Unlinked
<1>5. CopyInv(g)'
  BY <1>1, <1>2 DEF CopyInv, Fresh
<1>. QED BY <1>3, <1>4, <1>5

LEMMA RedoLoadInv ==
  ASSUME Typed, Inv, NEW F \in SUBSET Files, RedoLoad(F)
  PROVE  Inv'
<1>. SUFFICES ASSUME NEW g \in Files, ~tainted'[g]
     PROVE  (RowInv(g) /\ NameInv(g) /\ CopyInv(g))'
  BY DEF Inv, FileInv
<1>1. RowInv(g) /\ NameInv(g) /\ CopyInv(g)
  BY Parts DEF RedoLoad
<1>2. RowInv(g)'
  BY <1>1, RowFrame DEF RedoLoad
<1>3. NameInv(g)'
  BY <1>1, NameFrame DEF RedoLoad
<1>4. /\ ticked'[g] = "held" => row[g].file # NoFile
      /\ ticked'[g] = "pruned" => row[g].file = NoFile /\ row[g].status # "absent"
  BY DEF RedoLoad
<1>5. row[g].status \in {"absent", "received", "processed", "failed"}
  BY DEF Typed, TypeOK, Row
<1>6. ticked'[g] = "pruned" => row[g].status = "processed"
  BY <1>1, <1>4, <1>5 DEF RowInv
<1>7. CopyInv(g)'
  BY <1>1, <1>4, <1>6 DEF RedoLoad, CopyInv, Fresh, Loaded, Typed, TypeOK, Actors
<1>. QED BY <1>2, <1>3, <1>7

LEMMA RedoInv ==
  ASSUME Typed, Inv, NEW f \in Files, Redecode(f) \/ Reoffer(f)
  PROVE  Inv'
<1>. SUFFICES ASSUME NEW g \in Files, ~tainted'[g]
     PROVE  (RowInv(g) /\ NameInv(g) /\ CopyInv(g))'
  BY DEF Inv, FileInv
<1>1. SavedFrom("redo", f) /\ "redo" \in Actors
  BY DEF Redecode, Reoffer, Actors
<1>2. Written(f) /\ (~tainted'[f] => Fresh("redo", f)) /\ ~tainted[g]
  BY <1>1, SavedFromEffect
<1>3. RowInv(g) /\ NameInv(g) /\ CopyInv(g)
  BY <1>2, Parts
<1>4. /\ UNCHANGED <<store, up, listed, cur, swept, unlink, persisted, rejected>>
      /\ ticked' = [ticked EXCEPT ![f] = "no"]
      /\ row \in [Files -> Row] /\ row[f] \in Row
      /\ ticked \in [Files -> {"no", "held", "pruned"}]
  BY DEF Redecode, Reoffer, Typed, TypeOK
<1>5. CASE g # f
  <2>1. row'[g] = row[g] /\ ticked'[g] = ticked[g]
    BY <1>4, <1>5 DEF Redecode, Reoffer
  <2>2. RowInv(g)'
    BY <1>3, <1>4, <2>1, RowFrame
  <2>3. NameInv(g)'
    BY <1>3, <1>4, <2>1, NameFrame
  <2>4. CopyInv(g)'
    BY <1>2, <1>3, <1>4, <1>5, <2>1, CopyFrameOther
  <2>. QED BY <2>2, <2>3, <2>4
<1>6. CASE g = f
  <2>1. CopyInv(g)'
    BY <1>2, <1>3, <1>4, <1>6, CopyFrameOwn
  <2>2. CASE Redecode(f)
    <3>1. /\ row'[g].ver = row[g].ver /\ row'[g].hash = row[g].hash
          /\ row'[g].file = row[g].file /\ row'[g].status = "received"
          /\ row'[g].aged = FALSE
      BY <1>4, <1>6, <2>2 DEF Redecode, Row
    <3>2. row[g].file # NoFile
      BY <1>2, <1>3, <1>6, <2>2 DEF Redecode, CopyInv
    <3>3. row[g].ver \in Versions
      BY <1>3, <3>2 DEF RowInv, NoRow
    <3>4. RowInv(g)'
      BY <1>3, <1>4, <3>1, <3>2, <3>3 DEF RowInv, BytesFit, VerdictFits
    <3>5. NameInv(g)'
      BY <1>3, <1>4, <3>1, NameFrame
    <3>. QED BY <2>1, <3>4, <3>5
  <2>3. CASE Reoffer(f)
    <3>1. /\ row'[g].ver = row[g].ver /\ row'[g].hash = 0
          /\ row'[g].file = row[g].file /\ row'[g].status = row[g].status
          /\ row'[g].aged = row[g].aged
      BY <1>4, <1>6, <2>3 DEF Reoffer, Row
    <3>2. row[g].file = NoFile /\ row[g].status = "processed"
      BY <1>2, <1>3, <1>6, <2>3 DEF Reoffer, CopyInv
    <3>3. RowInv(g)'
      BY <1>3, <1>4, <3>1, <3>2 DEF RowInv, BytesFit, VerdictFits
    <3>4. NameInv(g)'
      BY <1>3, <1>4, <3>1, NameFrame
    <3>. QED BY <2>1, <3>3, <3>4
  <2>. QED BY <2>2, <2>3
<1>. QED BY <1>5, <1>6

\* Every step keeps the invariant.
LEMMA NextInv == Typed /\ Inv /\ [Next]_vars => Inv'
<1>. SUFFICES ASSUME Typed, Inv, [Next]_vars PROVE Inv'
  OBVIOUS
<1>1. CASE UNCHANGED vars
  BY <1>1 DEF vars, Inv, FileInv, RowInv, NameInv, CopyInv, BytesFit, VerdictFits,
              Fresh, StoredBy, DeletingFor
<1>2. ASSUME NEW f \in Files, Grow(f) \/ Age(f) PROVE Inv'
  BY <1>2, GrowInv, AgeInv
<1>3. ASSUME NEW u \in Uploads, NEW f \in Files, Offer(u, f) PROVE Inv'
  BY <1>3, OfferInv
<1>4. ASSUME NEW u \in Uploads, LoseUpload(u) \/ UploadDies(u) PROVE Inv'
  <2>1. CASE Files = {}
    BY <2>1 DEF Inv
  <2>2. CASE \E f \in Files : TRUE
    BY <1>4, <2>2, OfferInv
  <2>. QED BY <2>1, <2>2
<1>5. ASSUME NEW u \in Uploads, UploadStep(u) PROVE Inv'
  BY <1>5, StoreBytesInv, CommitUploadInv, DeleteSupersededInv DEF UploadStep
<1>6. CASE DrainStep \/ DrainDies
  BY <1>6, DrainListInv, DrainReadInv, DrainOtherInv, SaveVerdictInv DEF DrainStep
<1>7. CASE SweepStep \/ PruneFails \/ SweepDies
  BY <1>7, SweepListInv, PruneInv, PruneUnlinkInv, SweepDiesInv DEF SweepStep
<1>8. ASSUME NEW F \in SUBSET Files, RedoLoad(F) PROVE Inv'
  BY <1>8, RedoLoadInv
<1>9. CASE RedoStep
  BY <1>9, RedoInv DEF RedoStep
<1>. QED
  BY <1>1, <1>2, <1>3, <1>4, <1>5, <1>6, <1>7, <1>8, <1>9 DEF Next

\* The inductive invariant, with the types it needs.
LEMMA InvAlways == Spec => [](Typed /\ Inv)
<1>1. Init => Typed /\ Inv
  BY InitTyped, InitInv
<1>2. Typed /\ Inv /\ [Next]_vars => (Typed /\ Inv)'
  BY NextTyped, NextInv
<1>. QED BY <1>1, <1>2, PTL DEF Spec

-----------------------------------------------------------------------------------
(* What the ledger promises.                                                    *)

\* "Processed" means persisted and "failed" means these bytes, on every row that no
\* stale save has touched.
THEOREM VerdictSafe == Spec => []VerdictIsTrue
<1>1. Inv => VerdictIsTrue
  BY DEF Inv, FileInv, RowInv, VerdictIsTrue
<1>. QED BY <1>1, InvAlways, PTL

\* The name a row carries leads to the bytes it describes: storage's renaming, the
\* deletes left for after a commit, rollbacks and dead workers included.
THEOREM BytesSafe == Spec => []BytesAreTheRows
<1>1. Inv => BytesAreTheRows
  BY DEF Inv, FileInv, RowInv, BytesAreTheRows
<1>. QED BY <1>1, InvAlways, PTL

\* A version the machine is told not to send again is persisted, or is here.
THEOREM LossFree == Spec => []NothingLost
<1>1. Typed /\ Inv => NothingLost
  <2>. SUFFICES ASSUME Typed, Inv, NEW f \in Files, ~tainted[f], row[f].hash # 0
       PROVE  \/ row[f].hash \in persisted[f]
              \/ row[f].file # NoFile /\ store[f][row[f].file] = row[f].hash
    BY DEF NothingLost, Recoverable
  <2>1. RowInv(f) /\ row[f].hash = row[f].ver
    BY Parts DEF RowInv
  <2>2. row[f].status \in {"absent", "received", "processed", "failed"}
    BY DEF Typed, TypeOK, Row
  <2>3. row[f].status # "absent"
    BY <2>1 DEF RowInv, NoRow
  <2>4. CASE row[f].status = "processed"
    BY <2>1, <2>4 DEF RowInv, VerdictFits
  <2>5. CASE row[f].status \in {"received", "failed"}
    BY <2>1, <2>5 DEF RowInv, BytesFit
  <2>. QED BY <2>2, <2>3, <2>4, <2>5
<1>. QED BY <1>1, InvAlways, PTL

\* Bytes leave a row only through retention, from a row that is processed, past its
\* keep, and persisted.
THEOREM PruneSafe == Spec => PruneOnlyRedundant
<1>. DEFINE Redundant ==
       \A f \in Files :
          /\ row[f].file # NoFile /\ row'[f].file = NoFile
          /\ ~tainted'[f]
          => row[f].status = "processed" /\ row[f].aged
             /\ row[f].ver \in persisted[f]
<1>1. Typed /\ Inv /\ [Next]_vars => [Redundant]_vars
  <2>. SUFFICES ASSUME Typed, Inv, Next, NEW f \in Files,
                       row[f].file # NoFile, row'[f].file = NoFile, ~tainted'[f]
       PROVE  row[f].status = "processed" /\ row[f].aged
              /\ row[f].ver \in persisted[f]
    OBVIOUS
  <2>1. row \in [Files -> Row] /\ \A h \in Files : row[h] \in Row
    BY DEF Typed, TypeOK
  <2>2. Prune(f)
    <3>1. row' # row
      OBVIOUS
    <3>2. ASSUME NEW h \in Files, Age(h) PROVE FALSE
      BY <2>1, <3>2 DEF Age, Row
    <3>3. ASSUME NEW u \in Uploads, CommitUpload(u) PROVE FALSE
      BY <2>1, <3>3 DEF CommitUpload, Delivered, Typed, Shape
    <3>4. ASSUME MarkProcessed \/ MarkFailed PROVE FALSE
      BY <2>1, <3>4 DEF MarkProcessed, MarkFailed, SaveVerdict, Row
    <3>5. ASSUME NEW h \in Files, Redecode(h) \/ Reoffer(h) PROVE FALSE
      BY <2>1, <3>5 DEF Redecode, Reoffer, Row
    <3>6. ASSUME NEW h \in Files, Prune(h) PROVE Prune(f)
      BY <2>1, <3>6 DEF Prune
    <3>. QED
      BY <3>1, <3>2, <3>3, <3>4, <3>5, <3>6
      DEF Next, Grow, Offer, LoseUpload, UploadStep, StoreBytes, DeleteSuperseded,
          UploadDies, DrainStep, DrainList, DrainRead, DrainUnreadable, DrainFlush,
          DrainDies, SweepStep, SweepList, PruneUnlink, PruneFails,
          SweepDies, RedoLoad, RedoStep
  <2>3. ~tainted[f] /\ row[f].status = "processed" /\ row[f].aged
    BY <2>2, PruneFresh
  <2>4. RowInv(f)
    BY <2>3, Parts
  <2>. QED BY <2>3, <2>4 DEF RowInv, VerdictFits
<1>. QED BY <1>1, InvAlways, PTL DEF Spec, PruneOnlyRedundant

\* A step that moves neither the bytes of f, nor the names that account for them.
LEMMA AccountFrame ==
  ASSUME NEW f \in Files, NEW a \in Aliases, Accounted(f, a),
         row'[f].file = row[f].file, unlink' = unlink,
         \A u \in Uploads : (StoredBy(u, f) \/ DeletingFor(u, f)) => up'[u] = up[u]
  PROVE  Accounted(f, a)'
  BY DEF Accounted, StoredBy, DeletingFor

LEMMA UploadAccounts ==
  ASSUME Typed, Inv, NoOrphanBytes, NEW v \in Uploads, UploadStep(v)
  PROVE  NoOrphanBytes'
<1>0. UNCHANGED <<faults, tainted>>
  BY DEF UploadStep, StoreBytes, CommitUpload, DeleteSuperseded
<1>. SUFFICES ASSUME faults = 0, NEW g \in Files, NEW b \in Aliases, ~tainted[g],
                     store'[g][b] # 0
     PROVE  Accounted(g, b)'
  BY <1>0 DEF NoOrphanBytes
<1>1. store[g][b] # 0 => Accounted(g, b)
  BY DEF NoOrphanBytes
<1>2. PICK f \in Files : f = up[v].file
  BY DEF UploadStep, StoreBytes, CommitUpload, DeleteSuperseded, Typed, Shape
<1>3. NameInv(g)
  BY Parts
<1>4. \A w \in Uploads : w # v => up'[w] = up[w]
  BY DEF UploadStep, StoreBytes, CommitUpload, DeleteSuperseded, Typed, TypeOK
<1>5. CASE StoreBytes(v)
  <2>1. PICK a \in Available(f) :
           /\ store' = [store EXCEPT ![f][a] = up[v].ver]
           /\ up' = [up EXCEPT ![v].pc = "stored", ![v].alias = a, ![v].old = row[f].file]
    BY <1>2, <1>5 DEF StoreBytes
  <2>2. a \in Aliases /\ up[v].pc = "sent" /\ UNCHANGED <<row, unlink>>
    BY <1>5, <2>1 DEF Available, StoreBytes
  <2>3. up'[v].pc = "stored" /\ up'[v].alias = a /\ up'[v].file = f
    BY <1>2, <2>1 DEF Typed, TypeOK, Upload
  <2>4. CASE g = f /\ b = a
    BY <2>3, <2>4 DEF Accounted
  <2>5. CASE ~(g = f /\ b = a)
    <3>1. store'[g][b] = store[g][b]
      BY <2>1, <2>2, <2>5 DEF Typed, TypeOK
    <3>. QED BY <1>1, <1>4, <2>2, <3>1, AccountFrame DEF StoredBy, DeletingFor
  <2>. QED BY <2>4, <2>5
<1>6. CASE CommitUpload(v)
  <2>1. /\ up[v].pc = "stored" /\ UNCHANGED <<store, unlink>>
        /\ row' = [row EXCEPT ![f] = Delivered(v)]
        /\ up' = [up EXCEPT ![v] = IF Supersedes(v) THEN [@ EXCEPT !.pc = "committed"]
                                                    ELSE Idle]
    BY <1>2, <1>6 DEF CommitUpload
  <2>2. row'[f].file = up[v].alias /\ \A h \in Files : h # f => row'[h] = row[h]
    BY <2>1 DEF Delivered, Typed, TypeOK
  <2>3. CASE g # f
    BY <1>1, <1>2, <1>4, <2>1, <2>2, <2>3, AccountFrame DEF StoredBy, DeletingFor
  <2>4. CASE g = f
    <3>1. up[v].old = row[f].file
      BY <1>2, <1>3, <2>1, <2>4 DEF NameInv, StoredBy
    <3>2. CASE row[f].file = b
      <4>1. CASE Supersedes(v)
        <5>1. up'[v].pc = "committed" /\ up'[v].old = b /\ up'[v].file = f
          BY <1>2, <2>1, <3>1, <3>2, <4>1 DEF Typed, TypeOK, Upload
        <5>. QED BY <2>4, <5>1 DEF Accounted
      <4>2. CASE ~Supersedes(v)
        BY <2>2, <2>4, <3>1, <3>2, <4>2 DEF Supersedes, Accounted
      <4>. QED BY <4>1, <4>2
    <3>3. CASE up[v].alias = b
      BY <2>2, <2>4, <3>3 DEF Accounted
    <3>4. CASE row[f].file # b /\ up[v].alias # b
      BY <1>1, <1>4, <2>1, <2>4, <3>4 DEF Accounted
    <3>. QED BY <3>2, <3>3, <3>4
  <2>. QED BY <2>3, <2>4
<1>7. CASE DeleteSuperseded(v)
  <2>1. PICK a \in Aliases : a = up[v].old
    BY <1>7 DEF DeleteSuperseded, Typed, Shape
  <2>2. /\ store' = [store EXCEPT ![f][a] = 0] /\ UNCHANGED <<row, unlink>>
        /\ up[v].pc = "committed"
    BY <1>2, <1>7, <2>1 DEF DeleteSuperseded
  <2>3. ~(g = f /\ b = a) /\ store'[g][b] = store[g][b]
    BY <2>1, <2>2 DEF Typed, TypeOK
  <2>. QED BY <1>1, <1>2, <1>4, <2>1, <2>2, <2>3 DEF Accounted
<1>. QED BY <1>5, <1>6, <1>7 DEF UploadStep

LEMMA SweepAccounts ==
  ASSUME Typed, Inv, NoOrphanBytes, SweepStep
  PROVE  NoOrphanBytes'
<1>. SUFFICES ASSUME faults' = 0, NEW g \in Files, NEW b \in Aliases, ~tainted'[g],
                     store'[g][b] # 0
     PROVE  Accounted(g, b)'
  BY DEF NoOrphanBytes
<1>1. faults = 0 /\ UNCHANGED up
  BY DEF SweepStep, SweepList, PruneUnlink, Prune
<1>2. CASE SweepList
  BY <1>1, <1>2, AccountFrame DEF SweepList, NoOrphanBytes
<1>3. ASSUME NEW f \in Files, Prune(f) PROVE Accounted(g, b)'
  <2>1. /\ row' = [row EXCEPT ![f].file = NoFile] /\ UNCHANGED store
        /\ unlink = Unlinked /\ unlink' = [file |-> f, alias |-> swept[f]]
        /\ SavedFrom("sweep", f)
    BY <1>3 DEF Prune
  <2>2. ~tainted[g]
    BY <2>1, SavedFromEffect DEF Actors
  <2>3. Accounted(g, b)
    BY <1>1, <2>1, <2>2 DEF NoOrphanBytes
  <2>4. CASE g = f
    BY <1>1, <1>3, <2>1, <2>3, <2>4, PruneFresh DEF Accounted, Unlinked
  <2>5. CASE g # f
    <3>1. row'[g] = row[g]
      BY <2>1, <2>5 DEF Typed, TypeOK
    <3>. QED BY <1>1, <2>1, <2>3, <3>1 DEF Accounted, Unlinked
  <2>. QED BY <2>4, <2>5
<1>4. CASE PruneUnlink
  <2>1. PICK f \in Files, a \in Aliases : f = unlink.file /\ a = unlink.alias
    BY <1>4 DEF PruneUnlink, Typed, Shape
  <2>2. store' = [store EXCEPT ![f][a] = 0] /\ UNCHANGED <<row, tainted>>
    BY <1>4, <2>1 DEF PruneUnlink
  <2>3. ~(g = f /\ b = a) /\ store'[g][b] = store[g][b]
    BY <2>1, <2>2 DEF Typed, TypeOK
  <2>. QED BY <1>1, <2>1, <2>2, <2>3 DEF NoOrphanBytes, Accounted
<1>. QED BY <1>2, <1>3, <1>4 DEF SweepStep

LEMMA OthersAccount ==
  ASSUME Typed, NoOrphanBytes, UNCHANGED <<store, unlink>>, faults' = 0 => faults = 0,
         \A f \in Files : row'[f].file = row[f].file /\ (~tainted'[f] => ~tainted[f]),
         \A f \in Files, u \in Uploads : (StoredBy(u, f) \/ DeletingFor(u, f)) => up'[u] = up[u]
  PROVE  NoOrphanBytes'
  BY AccountFrame DEF NoOrphanBytes

LEMMA NextAccounts == Typed /\ Inv /\ NoOrphanBytes /\ [Next]_vars => NoOrphanBytes'
<1>. SUFFICES ASSUME Typed, Inv, NoOrphanBytes, [Next]_vars PROVE NoOrphanBytes'
  OBVIOUS
<1>0. row \in [Files -> Row] /\ faults \in Nat
  BY DEF Typed, TypeOK
<1>1. CASE Fault
  BY <1>0, <1>1 DEF Fault, NoOrphanBytes
<1>2. ASSUME NEW u \in Uploads, NEW f \in Files, Offer(u, f) PROVE NoOrphanBytes'
  <2>1. \A w \in Uploads : w # u => up'[w] = up[w]
    BY <1>2 DEF Offer, Typed, TypeOK
  <2>. QED BY <1>2, <2>1, OthersAccount DEF Offer, StoredBy, DeletingFor
<1>3. ASSUME NEW f \in Files, Grow(f) \/ Age(f) PROVE NoOrphanBytes'
  <2>1. \A g \in Files : row'[g].file = row[g].file
    BY <1>0, <1>3 DEF Grow, Age, Row
  <2>. QED BY <1>3, <2>1, OthersAccount DEF Grow, Age
<1>4. CASE MarkProcessed \/ MarkFailed
  <2>1. PICK f \in Files : /\ f = cur.file
                           /\ SavedFrom("drain", f)
                           /\ \E s \in {"processed", "failed"} :
                                 row' = [row EXCEPT ![f].status = s, ![f].aged = FALSE]
    BY <1>4 DEF MarkProcessed, MarkFailed, SaveVerdict, Typed, Shape
  <2>2. \A g \in Files : row'[g].file = row[g].file /\ (~tainted'[g] => ~tainted[g])
    BY <1>0, <2>1, SavedFromEffect DEF Row, Actors
  <2>. QED BY <1>4, <2>2, OthersAccount DEF MarkProcessed, MarkFailed, SaveVerdict
<1>5. ASSUME NEW f \in Files, Redecode(f) \/ Reoffer(f) PROVE NoOrphanBytes'
  <2>1. SavedFrom("redo", f)
    BY <1>5 DEF Redecode, Reoffer
  <2>2. \A g \in Files : row'[g].file = row[g].file /\ (~tainted'[g] => ~tainted[g])
    BY <1>0, <1>5, <2>1, SavedFromEffect DEF Redecode, Reoffer, Row, Actors
  <2>. QED BY <1>5, <2>2, OthersAccount DEF Redecode, Reoffer
<1>6. CASE /\ UNCHANGED <<row, store, up, unlink, tainted, faults>>
  BY <1>6, OthersAccount
<1>. QED
  BY <1>1, <1>2, <1>3, <1>4, <1>5, <1>6, UploadAccounts, SweepAccounts
  DEF Next, LoseUpload, UploadDies, DrainStep, DrainList, DrainRead, DrainUnreadable,
      DrainFlush, DrainDies, PruneFails, SweepDies, RedoLoad, RedoStep, vars

\* The staging area does not leak while nothing fails: bytes that no row names are
\* about to be named or deleted.
THEOREM LeakFree == Spec => []NoOrphanBytes
<1>1. Init => NoOrphanBytes
  BY DEF Init, NoOrphanBytes
<1>. QED BY <1>1, NextAccounts, InvAlways, PTL DEF Spec

-----------------------------------------------------------------------------------
(* Ledger implements Delivery: the inductive invariant says what of a row Delivery *)
(* sees, and each step is then the step of Delivery it ought to be, or none.       *)
(*                                                                                 *)
(* What the steps of Delivery ask for besides: versions come from the vendor, and  *)
(* what an actor has a copy of is known.                                           *)

FromVendor ==
    /\ \A f \in Files, a \in Aliases : store[f][a] <= folder[f]
    /\ \A u \in Uploads : up[u].file \in Files => up[u].ver <= folder[up[u].file]
    /\ cur.file \in Files => cur.ver <= folder[cur.file]

Copied(f) == listed[f] # NoFile \/ cur.file = f \/ swept[f] # NoFile \/ ticked[f] # "no"
CopiesAreKnown == \A f \in Files : Copied(f) => row[f].status # "absent"

LEMMA InitMore == Init => FromVendor /\ CopiesAreKnown
  BY DEF Init, FromVendor, CopiesAreKnown, Copied, Idle, NoCurrent

\* No step of the ledger lowers a version the vendor wrote.
LEMMA FolderGrows ==
  ASSUME Typed, [Next]_vars
  PROVE  /\ \A f \in Files : folder[f] \in Nat /\ folder'[f] \in Nat /\ folder[f] <= folder'[f]
         /\ ~(\E f \in Files : Grow(f)) => folder' = folder
<1>1. \A f \in Files : folder[f] \in Nat
  BY DEF Typed, TypeOK
<1>2. ASSUME NEW f \in Files, Grow(f) PROVE \A g \in Files : folder'[g] \in Nat /\ folder[g] <= folder'[g]
  BY <1>1, <1>2 DEF Grow, Typed, TypeOK
<1>3. ~(\E f \in Files : Grow(f)) => folder' = folder
  BY DEF Next, Age, Offer, LoseUpload, UploadStep, StoreBytes, CommitUpload,
     DeleteSuperseded, UploadDies, DrainStep, DrainList, DrainRead, DrainUnreadable,
     DrainFlush, MarkProcessed, MarkFailed, SaveVerdict, DrainDies, SweepStep, SweepList,
     Prune, PruneUnlink, PruneFails, SweepDies, RedoLoad, RedoStep, Redecode, Reoffer, vars
<1>. QED BY <1>1, <1>2, <1>3

LEMMA NextFromVendor ==
  ASSUME Typed, FromVendor, [Next]_vars PROVE FromVendor'
<1>1. \A f \in Files : folder[f] \in Nat /\ folder'[f] \in Nat /\ folder[f] <= folder'[f]
  BY FolderGrows
<1>2. /\ \A f \in Files, a \in Aliases : store[f][a] \in Nat
      /\ \A u \in Uploads : up[u] \in Upload /\ up[u].ver \in Nat
      /\ cur.ver \in Nat /\ up \in [Uploads -> Upload] /\ cur \in Current
  BY DEF Typed, TypeOK, Upload, Current
<1>3. \A f \in Files, a \in Aliases : store'[f][a] <= folder'[f]
  <2>1. ASSUME NEW u \in Uploads, StoreBytes(u) PROVE \A f \in Files, a \in Aliases : store'[f][a] <= folder[f]
    <3>1. up[u].file \in Files
      BY <2>1 DEF StoreBytes, Typed, Shape
    <3>2. PICK b \in Available(up[u].file) : store' = [store EXCEPT ![up[u].file][b] = up[u].ver]
      BY <2>1 DEF StoreBytes
    <3>3. b \in Aliases
      BY <3>2 DEF Available
    <3>. QED BY <1>2, <3>1, <3>2, <3>3 DEF FromVendor, Typed, TypeOK
  <2>2. ASSUME NEW u \in Uploads, DeleteSuperseded(u)
        PROVE  \A f \in Files, a \in Aliases : store'[f][a] <= folder[f]
    <3>1. up[u].file \in Files /\ up[u].old \in Aliases
      BY <2>2 DEF DeleteSuperseded, Typed, Shape
    <3>. QED BY <1>1, <2>2, <3>1 DEF DeleteSuperseded, FromVendor, Typed, TypeOK
  <2>3. ASSUME PruneUnlink PROVE \A f \in Files, a \in Aliases : store'[f][a] <= folder[f]
    <3>1. unlink.file \in Files /\ unlink.alias \in Aliases
      BY <2>3 DEF PruneUnlink, Typed, Shape
    <3>. QED BY <1>1, <2>3, <3>1 DEF PruneUnlink, FromVendor, Typed, TypeOK
  <2>4. \/ store' = store \/ PruneUnlink
        \/ \E u \in Uploads : StoreBytes(u) \/ DeleteSuperseded(u)
    BY DEF Next, Grow, Age, Offer, LoseUpload, UploadStep, CommitUpload, UploadDies,
       DrainStep, DrainList, DrainRead, DrainUnreadable, DrainFlush, MarkProcessed,
       MarkFailed, SaveVerdict, DrainDies, SweepStep, SweepList, Prune, PruneFails,
       SweepDies, RedoLoad, RedoStep, Redecode, Reoffer, vars
  <2>5. \A f \in Files, a \in Aliases : store'[f][a] <= folder[f]
    BY <2>1, <2>2, <2>3, <2>4 DEF FromVendor
  <2>6. \A f \in Files, a \in Aliases : store'[f][a] \in Nat
    BY NextTyped DEF Typed, TypeOK
  <2>. QED BY <1>1, <2>5, <2>6
<1>4. \A u \in Uploads : up'[u].file \in Files => up'[u].ver <= folder'[up'[u].file]
  <2>1. ASSUME NEW u \in Uploads, NEW f \in Files, Offer(u, f)
        PROVE  \A w \in Uploads : w # u => up'[w] = up[w]
    BY <1>2, <2>1 DEF Offer
  <2>2. ASSUME NEW u \in Uploads, NEW f \in Files, Offer(u, f)
        PROVE  up'[u].file = f /\ up'[u].ver = folder[f]
    BY <1>2, <2>2 DEF Offer, Idle
  <2>3. ASSUME NEW u \in Uploads, LoseUpload(u) \/ UploadDies(u) \/ UploadStep(u)
        PROVE  /\ \A w \in Uploads : w # u => up'[w] = up[w]
               /\ up'[u] = Idle \/ (up'[u].file = up[u].file /\ up'[u].ver = up[u].ver)
    <3>1. CASE LoseUpload(u) \/ UploadDies(u) \/ DeleteSuperseded(u)
      BY <1>2, <3>1 DEF LoseUpload, UploadDies, DeleteSuperseded
    <3>2. CASE StoreBytes(u)
      <4>1. PICK a \in Available(up[u].file) :
               up' = [up EXCEPT ![u].pc = "stored", ![u].alias = a,
                                ![u].old = row[up[u].file].file]
        BY <3>2 DEF StoreBytes
      <4>. QED BY <1>2, <4>1 DEF Upload
    <3>3. CASE CommitUpload(u)
      BY <1>2, <3>3 DEF CommitUpload, Upload
    <3>. QED BY <2>3, <3>1, <3>2, <3>3 DEF UploadStep
  <2>4. \/ up' = up
        \/ \E u \in Uploads : LoseUpload(u) \/ UploadDies(u) \/ UploadStep(u)
        \/ \E u \in Uploads, f \in Files : Offer(u, f)
    BY DEF Next, Grow, Age, DrainStep, DrainList, DrainRead, DrainUnreadable, DrainFlush,
       MarkProcessed, MarkFailed, SaveVerdict, DrainDies, SweepStep, SweepList, Prune,
       PruneUnlink, PruneFails, SweepDies, RedoLoad, RedoStep, Redecode, Reoffer, vars
  <2>5. CASE \E u \in Uploads, f \in Files : Offer(u, f)
    <3>1. PICK u \in Uploads, f \in Files : Offer(u, f)
      BY <2>5
    <3>2. folder' = folder
      BY <3>1 DEF Offer
    <3>. QED BY <1>1, <2>1, <2>2, <3>1, <3>2 DEF FromVendor
  <2>6. CASE \E u \in Uploads : LoseUpload(u) \/ UploadDies(u) \/ UploadStep(u)
    <3>1. PICK u \in Uploads : LoseUpload(u) \/ UploadDies(u) \/ UploadStep(u)
      BY <2>6
    <3>2. folder' = folder /\ Idle.file = NoFile
      BY <3>1 DEF Idle, LoseUpload, UploadDies, UploadStep, StoreBytes, CommitUpload,
         DeleteSuperseded
    <3>. QED BY <2>3, <3>1, <3>2 DEF FromVendor
  <2>7. CASE up' = up
    BY <1>1, <1>2, <2>7 DEF FromVendor
  <2>. QED BY <2>4, <2>5, <2>6, <2>7
<1>5. cur'.file \in Files => cur'.ver <= folder'[cur'.file]
  <2>1. ASSUME NEW f \in Files, DrainRead(f) PROVE cur'.file = f /\ cur'.ver <= folder[f]
    BY <1>2, <2>1 DEF DrainRead, FromVendor, Typed, TypeOK, Names
  <2>2. ASSUME DrainFlush PROVE cur'.file = cur.file /\ cur'.ver = cur.ver
    BY <1>2, <2>2 DEF DrainFlush, Current
  <2>3. \/ cur' = cur \/ cur' = NoCurrent \/ DrainFlush
        \/ \E f \in Files : DrainRead(f)
    BY DEF Next, Grow, Age, Offer, LoseUpload, UploadStep, StoreBytes, CommitUpload,
       DeleteSuperseded, UploadDies, DrainStep, DrainList, DrainUnreadable,
       MarkProcessed, MarkFailed, SaveVerdict, DrainDies, SweepStep, SweepList, Prune,
       PruneUnlink, PruneFails, SweepDies, RedoLoad, RedoStep, Redecode, Reoffer, vars
  <2>4. CASE cur' = cur \/ DrainFlush
    BY <1>1, <1>2, <2>2, <2>4 DEF FromVendor
  <2>5. CASE cur' = NoCurrent
    BY <2>5 DEF NoCurrent
  <2>6. CASE \E f \in Files : DrainRead(f)
    <3>1. PICK f \in Files : DrainRead(f)
      BY <2>6
    <3>2. folder' = folder
      BY <3>1 DEF DrainRead
    <3>. QED BY <2>1, <3>1, <3>2
  <2>. QED BY <2>3, <2>4, <2>5, <2>6
<1>. QED BY <1>3, <1>4, <1>5 DEF FromVendor

\* A row, once there, stays.
LEMMA RowsStay ==
  ASSUME Typed, [Next]_vars, NEW f \in Files, row[f].status # "absent"
  PROVE  row'[f].status # "absent"
<1>1. row \in [Files -> Row] /\ row[f] \in Row
  BY DEF Typed, TypeOK
<1>2. ASSUME NEW u \in Uploads, CommitUpload(u) PROVE row'[f].status # "absent"
  BY <1>1, <1>2 DEF CommitUpload, Delivered
<1>3. ASSUME MarkProcessed \/ MarkFailed PROVE row'[f].status # "absent"
  BY <1>1, <1>3 DEF MarkProcessed, MarkFailed, SaveVerdict, Row
<1>4. ASSUME NEW g \in Files, Age(g) \/ Prune(g) \/ Redecode(g) \/ Reoffer(g)
      PROVE  row'[f].status # "absent"
  BY <1>1, <1>4 DEF Age, Prune, Redecode, Reoffer, Row
<1>. QED
  BY <1>2, <1>3, <1>4 DEF Next, Grow, Offer, LoseUpload, UploadStep, StoreBytes,
     DeleteSuperseded, UploadDies, DrainStep, DrainList, DrainRead, DrainUnreadable,
     DrainFlush, DrainDies, SweepStep, SweepList, PruneUnlink, PruneFails, SweepDies,
     RedoLoad, RedoStep, vars

LEMMA NextCopies ==
  ASSUME Typed, CopiesAreKnown, [Next]_vars PROVE CopiesAreKnown'
<1>. SUFFICES ASSUME NEW f \in Files, Copied(f)', ~Copied(f)
     PROVE  row[f].status # "absent"
  BY RowsStay DEF CopiesAreKnown
<1>1. CASE DrainList
  BY <1>1 DEF DrainList, Waiting, Copied
<1>2. CASE SweepList
  BY <1>2 DEF SweepList, Prunable, Copied
<1>3. ASSUME NEW F \in SUBSET Files, RedoLoad(F) PROVE row[f].status # "absent"
  BY <1>3 DEF RedoLoad, Copied
<1>4. ASSUME NEW g \in Files, DrainRead(g) PROVE FALSE
  BY <1>4 DEF DrainRead, Copied
<1>5. CASE DrainFlush
  BY <1>5 DEF DrainFlush, Copied, Typed, TypeOK, Current
<1>6. ASSUME NEW g \in Files, DrainUnreadable(g) \/ Prune(g) \/ Redecode(g) \/ Reoffer(g)
      PROVE  FALSE
  BY <1>6 DEF DrainUnreadable, Prune, Redecode, Reoffer, Copied, Typed, TypeOK
<1>7. CASE MarkProcessed \/ MarkFailed
  BY <1>7 DEF MarkProcessed, MarkFailed, SaveVerdict, Copied, Typed, TypeOK, NoCurrent
<1>8. CASE DrainDies \/ SweepDies
  BY <1>8 DEF DrainDies, SweepDies, Copied, NoCurrent
<1>9. CASE PruneFails
  BY <1>9 DEF PruneFails, Copied, Typed, TypeOK
<1>. QED
  BY <1>1, <1>2, <1>3, <1>4, <1>5, <1>6, <1>7, <1>8, <1>9
  DEF Copied, Next, Grow, Age, Offer, LoseUpload, UploadStep, StoreBytes, CommitUpload,
      DeleteSuperseded, UploadDies, DrainStep, SweepStep, PruneUnlink, RedoStep, vars

-----------------------------------------------------------------------------------
(* What Delivery sees.                                                             *)

\* Storing a flag in Delivery's record.
LEMMA OneFlag ==
  ASSUME NEW r, NEW v, NEW h, NEW k, NEW s, NEW x,
         r = [ver |-> v, held |-> h, vouched |-> k, status |-> s]
  PROVE  /\ [r EXCEPT !.held = x] = [ver |-> v, held |-> x, vouched |-> k, status |-> s]
         /\ [r EXCEPT !.vouched = x] = [ver |-> v, held |-> h, vouched |-> x, status |-> s]
<1>1. [r EXCEPT !.held = x] = [ver |-> v, held |-> x, vouched |-> k, status |-> s]
  OBVIOUS
<1>2. [r EXCEPT !.vouched = x] = [ver |-> v, held |-> h, vouched |-> x, status |-> s]
  OBVIOUS
<1>. QED BY <1>1, <1>2, Zenon

\* A row nobody's window has crossed, as Delivery sees it.
Plain(f) == [ver |-> row[f].ver, held |-> row[f].file # NoFile,
             vouched |-> row[f].hash # 0, status |-> row[f].status]

LEMMA SeenPlain == ASSUME Inv, NEW f \in Files, ~tainted[f] PROVE FileOf(f) = Plain(f)
  BY Parts DEF RowInv, BytesFit, FileOf, HeldBytes, Plain

LEMMA SeenPlainNext ==
  ASSUME Inv', NEW f \in Files, ~tainted'[f] PROVE FileOf(f)' = Plain(f)'
<1>1. RowInv(f)'
  BY DEF Inv, FileInv
<1>. QED BY <1>1 DEF RowInv, BytesFit, FileOf, HeldBytes, Plain

\* Delivery sees the row and the taint, and nothing else of the ledger.
LEMMA SeenSame ==
  ASSUME Inv, Inv', NEW f \in Files, row'[f] = row[f], tainted'[f] = tainted[f]
  PROVE  FileOf(f)' = FileOf(f)
<1>1. CASE tainted[f]
  BY <1>1 DEF FileOf
<1>2. CASE ~tainted[f]
  BY <1>2, SeenPlain, SeenPlainNext DEF Plain
<1>. QED BY <1>1, <1>2

F == [f \in Files |-> FileOf(f)]

\* A step that writes one row changes one file of Delivery's.
LEMMA OneFile ==
  ASSUME Inv, Inv', NEW f \in Files,
         \A g \in Files : g # f => row'[g] = row[g] /\ tainted'[g] = tainted[g]
  PROVE  F' = [F EXCEPT ![f] = FileOf(f)']
<1>1. \A g \in Files : g # f => FileOf(g)' = FileOf(g)
  BY SeenSame
<1>. QED BY <1>1 DEF F

\* A save from a copy that was overtaken, and what it does to Delivery's file.
LEMMA Crosses ==
  ASSUME Typed, Inv, Inv', CopiesAreKnown, NEW f \in Files, NEW x \in Actors,
         SavedFrom(x, f), Copied(f), UNCHANGED <<folder, persisted>>,
         \A g \in Files : g # f => row'[g] = row[g], tainted'[f]
  PROVE  F' = F \/ Promise!Cross(f)
<1>1. \A g \in Files : g # f => tainted'[g] = tainted[g]
  BY DEF SavedFrom, Typed, TypeOK
<1>2. F' = [F EXCEPT ![f] = FileOf(f)']
  BY <1>1, OneFile
<1>3. CASE tainted[f]
  <2>1. FileOf(f)' = FileOf(f)
    BY <1>3 DEF FileOf
  <2>. QED BY <1>2, <2>1 DEF F
<1>4. CASE ~tainted[f]
  <2>1. row[f].status \notin {"absent", "crossed"}
    BY DEF CopiesAreKnown, Typed, TypeOK, Row
  <2>2. F[f].status = row[f].status
    BY <1>4 DEF F, FileOf
  <2>3. FileOf(f)' = Promise!Crossed
    BY DEF FileOf, Promise!Crossed
  <2>. QED BY <1>2, <2>1, <2>2, <2>3 DEF Promise!Cross, Promise!Promised, F
<1>. QED BY <1>3, <1>4

-----------------------------------------------------------------------------------
(* Step by step.                                                                   *)

Strong == Typed /\ Inv /\ FromVendor /\ CopiesAreKnown

\* The steps that write no row.
LEMMA NoRowStep ==
  ASSUME Strong, Strong', [Next]_vars, UNCHANGED <<row, tainted>>
  PROVE  [Promise!Next]_(Promise!vars)
<1>1. F' = F
  BY SeenSame DEF F, Strong
<1>2. ASSUME NEW f \in Files, Grow(f) PROVE Promise!Write(f)
  BY <1>1, <1>2 DEF Grow, Promise!Write, F
<1>3. ASSUME DrainFlush PROVE \E f \in Files, v \in 1..MaxVersion : Promise!Persist(f, v)
  <2>1. cur.file \in Files /\ cur.ver \in Versions /\ cur.ver <= folder[cur.file]
    BY <1>3 DEF DrainFlush, Strong, Typed, Shape, FromVendor
  <2>2. cur.ver \in 1..folder[cur.file]
    BY <2>1 DEF Strong, Typed, TypeOK, Versions
  <2>3. Promise!Persist(cur.file, cur.ver)
    BY <1>1, <1>3, <2>2 DEF DrainFlush, Promise!Persist, F
  <2>. QED BY <2>1, <2>3 DEF Versions
<1>4. \/ \E f \in Files : Grow(f)
      \/ DrainFlush
      \/ UNCHANGED <<folder, persisted>>
  BY DEF Next, Age, Offer, LoseUpload, UploadStep, StoreBytes, CommitUpload,
     DeleteSuperseded, UploadDies, DrainStep, DrainList, DrainRead, DrainUnreadable,
     MarkProcessed, MarkFailed, SaveVerdict, DrainDies, SweepStep, SweepList, Prune,
     PruneUnlink, PruneFails, SweepDies, RedoLoad, RedoStep, Redecode, Reoffer, vars
<1>5. CASE \E f \in Files : Grow(f)
  BY <1>2, <1>5 DEF Promise!Next
<1>6. CASE DrainFlush
  BY <1>3, <1>6 DEF Promise!Next
<1>7. CASE UNCHANGED <<folder, persisted>>
  BY <1>1, <1>7 DEF Promise!vars, F
<1>. QED BY <1>4, <1>5, <1>6, <1>7

LEMMA CommitDelivers ==
  ASSUME Strong, Strong', NEW u \in Uploads, CommitUpload(u)
  PROVE  [Promise!Next]_(Promise!vars)
<1>0. PICK f \in Files, v \in Versions : f = up[u].file /\ v = up[u].ver
  BY DEF CommitUpload, Strong, Typed, Shape
<1>1. up[u].alias \in Aliases /\ v <= folder[f] /\ folder[f] \in Nat
  BY <1>0 DEF CommitUpload, Strong, Typed, TypeOK, Shape, FromVendor
<1>2. /\ row' = [row EXCEPT ![f] = Delivered(u)]
      /\ UNCHANGED <<folder, tainted, persisted>>
  BY <1>0 DEF CommitUpload
<1>3. /\ row'[f] = Delivered(u) /\ \A g \in Files : g # f => row'[g] = row[g]
      /\ row \in [Files -> Row]
  BY <1>1, <1>2 DEF Strong, Typed, TypeOK
<1>4. F' = [F EXCEPT ![f] = FileOf(f)']
  BY <1>1, <1>2, <1>3, OneFile DEF Strong
<1>5. CASE tainted[f]
  <2>1. FileOf(f)' = FileOf(f)
    BY <1>2, <1>5 DEF FileOf
  <2>2. F' = F
    BY <1>4, <2>1 DEF F
  <2>. QED BY <1>2, <2>2 DEF F, Promise!vars
<1>6. CASE ~tainted[f]
  <2>1. FileOf(f)' = Plain(f)'
    BY <1>1, <1>2, <1>6, SeenPlainNext DEF Strong
  <2>2. Plain(f)' = [ver |-> v, held |-> TRUE, vouched |-> TRUE, status |-> "received"]
    <3>1. /\ row'[f].ver = v /\ row'[f].status = "received"
          /\ row'[f].file = up[u].alias /\ row'[f].hash = v
      BY <1>0, <1>3 DEF Delivered
    <3>2. (row'[f].file # NoFile) = TRUE /\ (row'[f].hash # 0) = TRUE
      BY <1>1, <3>1 DEF Versions
    <3>. QED BY <3>1, <3>2, Zenon DEF Plain
  <2>3. F[f].status # "crossed"
    BY <1>1, <1>3, <1>6 DEF F, FileOf, Row
  <2>4. v \in 1..folder[f]
    BY <1>1 DEF Versions
  <2>5. Promise!Arrive(f, v)
    BY <1>2, <1>4, <2>1, <2>2, <2>3, <2>4 DEF Promise!Arrive, F
  <2>. QED BY <1>1, <2>5 DEF Promise!Next, Versions
<1>. QED BY <1>5, <1>6

\* What a row that a copy is of promises, as Delivery sees it.
LEMMA PlainPromised ==
  ASSUME Strong, NEW f \in Files, ~tainted[f], Copied(f)
  PROVE  Promise!Promised(f) /\ F[f] = Plain(f)
<1>1. row[f].status \notin {"absent", "crossed"}
  BY DEF Strong, CopiesAreKnown, Typed, TypeOK, Row
<1>2. F[f] = Plain(f)
  BY SeenPlain DEF F, Strong
<1>. QED BY <1>1, <1>2 DEF Promise!Promised, F, Plain

\* A save that is not from an overtaken copy finds the file uncrossed before and after.
LEMMA SavedPlain ==
  ASSUME Strong, Strong', NEW f \in Files, NEW x \in Actors, SavedFrom(x, f), Copied(f),
         \A g \in Files : g # f => row'[g] = row[g], ~tainted'[f]
  PROVE  /\ ~tainted[f] /\ Promise!Promised(f) /\ F[f] = Plain(f)
         /\ F' = [F EXCEPT ![f] = Plain(f)']
<1>1. \A g \in Files : g # f => tainted'[g] = tainted[g]
  BY DEF SavedFrom, Strong, Typed, TypeOK
<1>2. ~tainted[f]
  BY SavedFromEffect DEF Strong
<1>3. F' = [F EXCEPT ![f] = FileOf(f)']
  BY <1>1, OneFile DEF Strong
<1>. QED BY <1>2, <1>3, PlainPromised, SeenPlainNext DEF Strong

LEMMA VerdictProcessesOrFails ==
  ASSUME Strong, Strong', MarkProcessed \/ MarkFailed
  PROVE  [Promise!Next]_(Promise!vars)
<1>0. PICK f \in Files, s \in {"processed", "failed"} :
         /\ f = cur.file
         /\ row' = [row EXCEPT ![f].status = s, ![f].aged = FALSE]
  BY DEF MarkProcessed, MarkFailed, SaveVerdict, Strong, Typed, Shape
<1>1. SavedFrom("drain", f) /\ UNCHANGED <<folder, persisted>>
  BY <1>0 DEF MarkProcessed, MarkFailed, SaveVerdict
<1>2. "drain" \in Actors /\ Copied(f)
  BY <1>0 DEF Actors, Copied
<1>3. /\ row'[f].ver = row[f].ver /\ row'[f].file = row[f].file
      /\ row'[f].hash = row[f].hash /\ row'[f].status = s
      /\ \A g \in Files : g # f => row'[g] = row[g]
  BY <1>0 DEF Strong, Typed, TypeOK, Row
<1>4. CASE tainted'[f]
  <2>1. F' = F \/ Promise!Cross(f)
    BY <1>1, <1>2, <1>3, <1>4, Crosses DEF Strong
  <2>. QED BY <1>1, <2>1 DEF Promise!Next, Promise!vars, F
<1>5. CASE ~tainted'[f]
  <2>1. /\ Promise!Promised(f) /\ F[f] = Plain(f)
        /\ F' = [F EXCEPT ![f] = Plain(f)']
    BY <1>1, <1>2, <1>3, <1>5, SavedPlain
  <2>2. Plain(f)' = [Plain(f) EXCEPT !.status = s]
    BY <1>3 DEF Plain
  <2>3. F' = [F EXCEPT ![f].status = s]
    BY <1>1, <2>1, <2>2 DEF F
  <2>4. CASE s = "processed"
    <3>1. VerdictFits(f)'
      BY <1>5 DEF Strong, Inv, FileInv, RowInv
    <3>2. F[f].ver \in persisted[f]
      BY <1>1, <1>3, <2>1, <2>4, <3>1 DEF VerdictFits, Plain
    <3>3. Promise!Process(f)
      BY <1>1, <2>1, <2>3, <2>4, <3>2 DEF Promise!Process, F
    <3>. QED BY <3>3 DEF Promise!Next
  <2>5. CASE s = "failed"
    <3>1. Promise!Fail(f)
      BY <1>1, <2>1, <2>3, <2>5 DEF Promise!Fail, F
    <3>. QED BY <3>1 DEF Promise!Next
  <2>. QED BY <2>4, <2>5
<1>. QED BY <1>4, <1>5

\* A row that ages is the same to Delivery.
LEMMA AgeShowsNothing ==
  ASSUME Strong, Strong', NEW f \in Files, Age(f)
  PROVE  [Promise!Next]_(Promise!vars)
<1>1. /\ row'[f].ver = row[f].ver /\ row'[f].file = row[f].file
      /\ row'[f].hash = row[f].hash /\ row'[f].status = row[f].status
      /\ \A g \in Files : g # f => row'[g] = row[g]
      /\ UNCHANGED <<folder, store, persisted, tainted>>
  BY DEF Age, Strong, Typed, TypeOK, Row
<1>2. FileOf(f)' = FileOf(f)
  BY <1>1 DEF FileOf, HeldBytes
<1>3. \A g \in Files : FileOf(g)' = FileOf(g)
  BY <1>1, <1>2, SeenSame DEF Strong
<1>. QED BY <1>1, <1>3 DEF Promise!vars

LEMMA PrunePrunes ==
  ASSUME Strong, Strong', NEW f \in Files, Prune(f)
  PROVE  [Promise!Next]_(Promise!vars)
<1>1. /\ row' = [row EXCEPT ![f].file = NoFile] /\ swept[f] # NoFile
      /\ SavedFrom("sweep", f) /\ UNCHANGED <<folder, persisted>>
  BY DEF Prune
<1>2. "sweep" \in Actors /\ Copied(f)
  BY <1>1 DEF Actors, Copied
<1>3. /\ row'[f].ver = row[f].ver /\ row'[f].file = NoFile
      /\ row'[f].hash = row[f].hash /\ row'[f].status = row[f].status
      /\ \A g \in Files : g # f => row'[g] = row[g]
  BY <1>1 DEF Strong, Typed, TypeOK, Row
<1>4. CASE tainted'[f]
  <2>1. F' = F \/ Promise!Cross(f)
    BY <1>1, <1>2, <1>3, <1>4, Crosses DEF Strong
  <2>. QED BY <1>1, <2>1 DEF Promise!Next, Promise!vars, F
<1>5. CASE ~tainted'[f]
  <2>1. /\ F[f] = Plain(f) /\ F' = [F EXCEPT ![f] = Plain(f)']
        /\ ~tainted[f]
    BY <1>1, <1>2, <1>3, <1>5, SavedPlain
  <2>2. row[f].status = "processed" /\ row[f].file # NoFile
    BY <1>1, <1>5, PruneFresh DEF Strong
  <2>3. VerdictFits(f)
    BY <2>1, Parts DEF Strong, RowInv
  <2>4. Plain(f)' = [Plain(f) EXCEPT !.held = FALSE]
    <3>1. (row'[f].file # NoFile) = FALSE /\ (row'[f].hash # 0) = (row[f].hash # 0)
      BY <1>3
    <3>2. Plain(f)' = [ver |-> row[f].ver, held |-> FALSE, vouched |-> row[f].hash # 0,
                       status |-> row[f].status]
      BY <1>3, <3>1, Zenon DEF Plain
    <3>3. PICK h, k, x : /\ h = (row[f].file # NoFile) /\ k = (row[f].hash # 0)
                         /\ x = FALSE
      BY Zenon
    <3>4. Plain(f) = [ver |-> row[f].ver, held |-> h, vouched |-> k, status |-> row[f].status]
      BY <3>3, Zenon DEF Plain
    <3>. HIDE DEF Plain
    <3>5. [Plain(f) EXCEPT !.held = x]
            = [ver |-> row[f].ver, held |-> x, vouched |-> k, status |-> row[f].status]
      BY <3>4, OneFlag
    <3>. QED BY <3>2, <3>3, <3>5, Zenon
  <2>5. F' = [F EXCEPT ![f].held = FALSE]
    BY <2>1, <2>4 DEF F
  <2>6. F[f].status = "processed" /\ F[f].held /\ F[f].ver \in persisted[f]
    <3>1. Plain(f).held = (row[f].file # NoFile) /\ Plain(f).ver = row[f].ver
          /\ Plain(f).status = row[f].status
      BY DEF Plain
    <3>. QED BY <2>1, <2>2, <2>3, <3>1 DEF VerdictFits
  <2>7. Promise!Prune(f)
    BY <1>1, <2>5, <2>6 DEF Promise!Prune, F
  <2>. QED BY <2>7 DEF Promise!Next
<1>. QED BY <1>4, <1>5

LEMMA RedoRedecodesOrReoffers ==
  ASSUME Strong, Strong', NEW f \in Files, Redecode(f) \/ Reoffer(f)
  PROVE  [Promise!Next]_(Promise!vars)
<1>1. /\ SavedFrom("redo", f) /\ UNCHANGED <<folder, persisted>> /\ ticked[f] # "no"
  BY DEF Redecode, Reoffer
<1>2. "redo" \in Actors /\ Copied(f)
  BY <1>1 DEF Actors, Copied
<1>3. /\ row'[f].ver = row[f].ver /\ row'[f].file = row[f].file
      /\ Redecode(f) => row'[f].hash = row[f].hash /\ row'[f].status = "received"
      /\ Reoffer(f) => row'[f].hash = 0 /\ row'[f].status = row[f].status
      /\ \A g \in Files : g # f => row'[g] = row[g]
  BY DEF Redecode, Reoffer, Strong, Typed, TypeOK, Row
<1>4. CASE tainted'[f]
  <2>1. F' = F \/ Promise!Cross(f)
    BY <1>1, <1>2, <1>3, <1>4, Crosses DEF Strong
  <2>. QED BY <1>1, <2>1 DEF Promise!Next, Promise!vars, F
<1>5. CASE ~tainted'[f]
  <2>1. /\ Promise!Promised(f) /\ F[f] = Plain(f) /\ F' = [F EXCEPT ![f] = Plain(f)']
        /\ ~tainted[f]
    BY <1>1, <1>2, <1>3, <1>5, SavedPlain
  <2>2. Fresh("redo", f) /\ CopyInv(f)
    BY <1>1, <1>2, <1>5, <2>1, SavedFromEffect, Parts DEF Strong
  <2>3. CASE Redecode(f)
    <3>1. row[f].file # NoFile
      BY <2>2, <2>3 DEF CopyInv, Redecode
    <3>2. Plain(f)' = [Plain(f) EXCEPT !.status = "received"]
      BY <1>3, <2>3 DEF Plain
    <3>3. F' = [F EXCEPT ![f].status = "received"] /\ F[f].held
      BY <2>1, <3>1, <3>2 DEF F, Plain
    <3>4. Promise!Redecode(f)
      BY <1>1, <2>1, <3>3 DEF Promise!Redecode, F
    <3>. QED BY <3>4 DEF Promise!Next
  <2>4. CASE Reoffer(f)
    <3>1. row[f].file = NoFile
      BY <2>2, <2>4 DEF CopyInv, Reoffer
    <3>2. Plain(f)' = [Plain(f) EXCEPT !.vouched = FALSE]
      <4>1. (row'[f].hash # 0) = FALSE /\ (row'[f].file # NoFile) = (row[f].file # NoFile)
        BY <1>3, <2>4
      <4>2. Plain(f)' = [ver |-> row[f].ver, held |-> row[f].file # NoFile,
                         vouched |-> FALSE, status |-> row[f].status]
        BY <1>3, <2>4, <4>1, Zenon DEF Plain
      <4>3. PICK h, k, x : /\ h = (row[f].file # NoFile) /\ k = (row[f].hash # 0)
                           /\ x = FALSE
        BY Zenon
      <4>4. Plain(f) = [ver |-> row[f].ver, held |-> h, vouched |-> k,
                        status |-> row[f].status]
        BY <4>3, Zenon DEF Plain
      <4>5. [Plain(f) EXCEPT !.vouched = x]
              = [ver |-> row[f].ver, held |-> h, vouched |-> x, status |-> row[f].status]
        BY <4>4, OneFlag
      <4>. QED BY <4>2, <4>3, <4>5, Zenon
    <3>3. F' = [F EXCEPT ![f].vouched = FALSE] /\ ~F[f].held
      BY <2>1, <3>1, <3>2 DEF F, Plain
    <3>4. Promise!Reoffer(f)
      BY <1>1, <2>1, <3>3 DEF Promise!Reoffer, F
    <3>. QED BY <3>4 DEF Promise!Next
  <2>. QED BY <2>3, <2>4
<1>. QED BY <1>4, <1>5

LEMMA EveryStep ==
  Strong /\ Strong' /\ [Next]_vars => [Promise!Next]_(Promise!vars)
<1>. SUFFICES ASSUME Strong, Strong', [Next]_vars PROVE [Promise!Next]_(Promise!vars)
  OBVIOUS
<1>1. \/ UNCHANGED <<row, tainted>>
      \/ \E u \in Uploads : CommitUpload(u)
      \/ MarkProcessed \/ MarkFailed
      \/ \E f \in Files : Age(f) \/ Prune(f) \/ Redecode(f) \/ Reoffer(f)
  BY DEF Next, Grow, Offer, LoseUpload, UploadStep, StoreBytes, DeleteSuperseded,
     UploadDies, DrainStep, DrainList, DrainRead, DrainUnreadable, DrainFlush, DrainDies,
     SweepStep, SweepList, PruneUnlink, PruneFails, SweepDies, RedoLoad, RedoStep, vars
<1>. QED
  BY <1>1, NoRowStep, CommitDelivers, VerdictProcessesOrFails, AgeShowsNothing,
     PrunePrunes, RedoRedecodesOrReoffers

LEMMA InitMaps == Init => Promise!Init
<1>. SUFFICES ASSUME Init PROVE Promise!Init
  OBVIOUS
<1>1. ASSUME NEW f \in Files PROVE FileOf(f) = Promise!Absent
  <2>1. row[f] = NoRow /\ tainted[f] = FALSE
    BY DEF Init
  <2>2. HeldBytes(f) = FALSE /\ (row[f].hash # 0) = FALSE
    BY <2>1 DEF HeldBytes, NoRow
  <2>3. row[f].ver = 0 /\ row[f].status = "absent"
    BY <2>1 DEF NoRow
  <2>. QED BY <2>1, <2>2, <2>3, Zenon DEF FileOf, Promise!Absent
<1>. QED BY <1>1 DEF Init, Promise!Init

LEMMA StrongAlways == Spec => []Strong
<1>1. Init => FromVendor /\ CopiesAreKnown
  BY InitMore
<1>2. Typed /\ FromVendor /\ CopiesAreKnown /\ [Next]_vars => (FromVendor /\ CopiesAreKnown)'
  BY NextFromVendor, NextCopies
<1>. QED BY <1>1, <1>2, InvAlways, PTL DEF Spec, Strong

\* Every behaviour of the ledger is one that its promise allows.
THEOREM LedgerImplementsDelivery == Spec => DeliveryIsKept
<1>. QED BY InitMaps, EveryStep, StrongAlways, PTL DEF Spec, DeliveryIsKept, Promise!Spec

\* So the promise's own consequence holds of the ledger: what the machine is told not to
\* send again is held or persisted.
THEOREM NothingPromisedIsLost == Spec => []Promise!NeverLost
<1>1. Strong => Promise!NeverLost
  <2>. SUFFICES ASSUME Strong, NEW f \in Files, F[f].vouched
       PROVE  F[f].held \/ F[f].ver \in persisted[f]
    BY DEF Promise!NeverLost, F
  <2>1. ~tainted[f]
    BY DEF F, FileOf
  <2>2. RowInv(f) /\ row[f].status \in {"absent", "received", "processed", "failed"}
    BY <2>1, Parts DEF Strong, Typed, TypeOK, Row
  <2>3. F[f] = Plain(f)
    BY <2>1, SeenPlain DEF Strong, F
  <2>4. /\ Plain(f).held = (row[f].file # NoFile) /\ Plain(f).ver = row[f].ver
        /\ Plain(f).vouched = (row[f].hash # 0)
    BY DEF Plain
  <2>5. row[f].hash # 0
    BY <2>3, <2>4
  <2>6. row[f].file # NoFile \/ row[f].ver \in persisted[f]
    BY <2>2, <2>5 DEF RowInv, VerdictFits, NoRow
  <2>. QED BY <2>3, <2>4, <2>6
<1>. QED BY <1>1, StrongAlways, PTL
====
