------------------------------- MODULE MirrorProofs -------------------------------
(* What the mirror keeps for every number of versions, builds, kinds, names and    *)
(* faults: its types, and that a machine is only ever offered and given what it    *)
(* may run. Where the bytes are is MirrorSafety's.                                 *)

EXTENDS Feed, TLAPS, SequenceTheorems, WellFoundedInduction

USE MirrorAssumption DEF MirrorAssumption

-----------------------------------------------------------------------------------
(* Types.                                                                          *)

InTransaction == run.pc \in {"saving", "stored"}

\* What the record types do not say: a run past its download has a version and the
\* entry it came from, and a package that is there has a name.
Shape ==
    /\ run.pc \in {"fetched", "saving", "stored", "undo"} => run.ver \in Versions
    /\ run.pc \in {"fetched", "saving", "stored"} => run.index[run.ver] # Unlisted
    /\ run.todo \subseteq Listed(run.index)
    /\ run.pc = "stored" => run.staged # <<>> /\ run.fresh \in Aliases
    /\ \A v \in Versions, k \in Kinds :
           rel[v].pkg[k] # NoPackage => rel[v].pkg[k].file \in Names
    /\ \A k \in Kinds : run.draft[k] # NoPackage => run.draft[k].file \in Names
    /\ ~InTransaction => run.draft = [k \in Kinds |-> NoPackage]

Typed == MirrorTypeOK /\ Shape

LEMMA NoPackageType == NoPackage \in Package /\ NoPackage.file = NoFile
  BY DEF NoPackage, Package

LEMMA NoReleaseType == NoRelease \in Release
<1>1. [k \in Kinds |-> NoPackage] \in [Kinds -> Package]
  BY NoPackageType
<1>. QED BY <1>1 DEF NoRelease, Release

LEMMA NoRunType == NoRun \in Run
<1>1. [k \in Kinds |-> NoPackage] \in [Kinds -> Package]
  BY NoPackageType
<1>2. <<>> \in Seq(Listing)
  BY EmptySeq
<1>. QED BY <1>1, <1>2 DEF NoRun, Run

\* What the first of the packages still to be stored is, and what is left after it.
LEMMA FirstStaged ==
  ASSUME NEW s \in Seq(Listing), s # <<>>
  PROVE  /\ Len(s) \in Nat \ {0}
         /\ Head(s) \in Listing /\ Head(s) = s[1]
         /\ Tail(s) \in Seq(Listing) /\ Len(Tail(s)) = Len(s) - 1
         /\ \A j \in 1..Len(Tail(s)) : Tail(s)[j] = s[j + 1]
<1>1. Len(s) \in Nat \ {0}
  BY EmptySeq
<1>2. s[1] \in Listing
  BY <1>1, ElementOfSeq
<1>. QED BY <1>1, <1>2, HeadTailProperties

LEMMA AvailableNames ==
  ASSUME Typed, NEW v \in Versions, NEW k \in Kinds, NEW a \in Available(v, k)
  PROVE  /\ a \in Aliases /\ <<v, k, a>> \in Names
         /\ store[<<v, k, a>>] = 0 \/ <<v, k, a>> \in loose \cup forgotten
  BY DEF Available, Names

LEMMA CarriedNames ==
  ASSUME Typed, NEW v \in Versions
  PROVE  Carried(v) \subseteq Names
  BY DEF Typed, Shape, Carried, Has

LEMMA StoredNames ==
  ASSUME Typed
  PROVE  Stored \subseteq Names
<1>1. CASE run.pc # "stored"
  BY <1>1 DEF Stored
<1>2. CASE run.pc = "stored"
  <2>1. Head(run.staged) \in Listing
    BY <1>2, FirstStaged DEF Typed, MirrorTypeOK, Run, Shape
  <2>2. Head(run.staged).kind \in Kinds
    BY <2>1 DEF Listing
  <2>. QED BY <1>2, <2>2 DEF Typed, Shape, Stored, Names
<1>. QED BY <1>1, <1>2

LEMMA NextEntryType ==
  ASSUME Typed, NEW v \in Versions
  PROVE  /\ NextEntry(v) \in Run /\ NextEntry(v).pc = "loop"
         /\ NextEntry(v).index = run.index /\ NextEntry(v).draft = run.draft
         /\ NextEntry(v).todo = run.todo \ {v}
         /\ NextEntry(v).written = run.written
<1>1. run \in Run /\ run.considered + 1 \in Nat /\ run.todo \ {v} \in SUBSET Versions
  BY DEF Typed, MirrorTypeOK, Run
<1>2. NextEntry(v) \in Run
  BY <1>1 DEF Run, NextEntry
<1>. QED BY <1>1, <1>2 DEF Run, NextEntry

LEMMA RollBackType ==
  ASSUME Typed
  PROVE  /\ RollBack \in Run /\ RollBack.pc = "undo" /\ RollBack.ver = run.ver
         /\ RollBack.index = run.index /\ RollBack.todo = run.todo
         /\ RollBack.draft = [k \in Kinds |-> NoPackage] /\ RollBack.written = run.written
<1>1. [k \in Kinds |-> NoPackage] \in [Kinds -> Package]
  BY NoPackageType
<1>. QED BY <1>1 DEF Typed, MirrorTypeOK, Run, RollBack

LEMMA InitTyped == MirrorInit => Typed
<1>. SUFFICES ASSUME MirrorInit PROVE Typed
  OBVIOUS
<1>0. <<>> \in Seq(Listing)
  BY EmptySeq
<1>1. run \in Run /\ rel \in [Versions -> Release] /\ promise \in [Versions -> Seq(Listing)]
  BY <1>0, NoRunType, NoReleaseType DEF MirrorInit
<1>2. MirrorTypeOK
  <2>1. 0 \in 0..MaxBuild /\ 0 \in 0..MaxMoves /\ 0 \in 0..MaxUpsets
    OBVIOUS
  <2>2. /\ upstream \in [Versions -> Entries \cup {Unlisted}]
        /\ store \in [Names -> 0..MaxBuild]
    BY <2>1 DEF MirrorInit
  <2>. QED BY <1>1, <2>1, <2>2 DEF MirrorInit, MirrorTypeOK
<1>3. Shape
  BY DEF MirrorInit, Shape, NoRun, NoRelease, InTransaction, Listed
<1>. QED BY <1>2, <1>3 DEF Typed

\* The variables a step of the run alone leaves as they are keep their types.
LEMMA RunTyped ==
  ASSUME Typed, run' \in Run, Shape',
         UNCHANGED <<upstream, garbled, rel, store, promise, moves, edits>>,
         loose' \subseteq Names, forgotten' \subseteq Names, faults' \in 0..MaxUpsets
  PROVE  Typed'
  BY DEF Typed, MirrorTypeOK

\* The run moves on without a transaction.
LEMMA OutsideShape ==
  ASSUME Typed, run' \in Run, UNCHANGED rel,
         run'.pc \in {"idle", "loop"}, run'.todo \subseteq Listed(run'.index),
         run'.draft = [k \in Kinds |-> NoPackage]
  PROVE  Shape'
  BY DEF Typed, Shape, InTransaction, Listed

LEMMA FaultType ==
  ASSUME Typed
  PROVE  /\ Fault => faults' \in 0..MaxUpsets
         /\ UNCHANGED faults => faults' \in 0..MaxUpsets
  BY DEF Typed, MirrorTypeOK, Fault

LEMMA ReadIndexTyped == ASSUME Typed, ReadIndex PROVE Typed'
<1>1. /\ NoRun \in Run /\ Listed(upstream) \in SUBSET Versions
      /\ upstream \in [Versions -> Entries \cup {Unlisted}]
      /\ {v \in Versions : Held(v)} \in SUBSET Versions
  BY NoRunType DEF Listed, Typed, MirrorTypeOK
<1>2. /\ run' \in Run /\ run'.pc = "loop" /\ run'.todo = Listed(run'.index)
      /\ run'.draft = NoRun.draft
  BY <1>1 DEF ReadIndex, Run
<1>3. NoRun.draft = [k \in Kinds |-> NoPackage]
  BY DEF NoRun
<1>4. Shape'
  BY <1>2, <1>3, OutsideShape DEF ReadIndex
<1>. QED BY <1>2, <1>4, RunTyped, FaultType DEF ReadIndex, Typed, MirrorTypeOK

LEMMA StoppedTyped ==
  ASSUME Typed, run' = NoRun,
         UNCHANGED <<upstream, garbled, rel, store, promise, moves, edits>>,
         loose' \subseteq Names, forgotten' \subseteq Names, faults' \in 0..MaxUpsets
  PROVE  Typed'
<1>1. /\ run' \in Run /\ run'.pc = "idle" /\ run'.todo = {}
      /\ run'.draft = [k \in Kinds |-> NoPackage]
  BY NoRunType DEF NoRun
<1>2. Shape'
  BY <1>1, OutsideShape
<1>. QED BY <1>1, <1>2, RunTyped

LEMMA EndRunTyped == ASSUME Typed, EndRun PROVE Typed'
  BY StoppedTyped, FaultType DEF EndRun, Typed, MirrorTypeOK

LEMMA MirrorDiesTyped == ASSUME Typed, MirrorDies PROVE Typed'
<1>1. run.written \subseteq Names
  BY DEF Typed, MirrorTypeOK, Run
<1>2. loose' \subseteq Names /\ forgotten' \subseteq Names
  BY <1>1, StoredNames DEF MirrorDies, Typed, MirrorTypeOK
<1>. QED BY <1>2, StoppedTyped, FaultType DEF MirrorDies

\* The loop goes on to the next entry.
LEMMA NextTyped ==
  ASSUME Typed, NEW v \in Versions, run' = NextEntry(v), ~InTransaction,
         UNCHANGED <<upstream, garbled, rel, store, promise, moves, edits>>,
         loose' \subseteq Names, forgotten' \subseteq Names, faults' \in 0..MaxUpsets
  PROVE  Typed'
<1>1. /\ run' \in Run /\ run'.pc = "loop" /\ run'.todo \subseteq Listed(run'.index)
      /\ run'.draft = [k \in Kinds |-> NoPackage]
  BY NextEntryType DEF Typed, Shape
<1>2. Shape'
  BY <1>1, OutsideShape
<1>. QED BY <1>1, <1>2, RunTyped

LEMMA SkipTyped == ASSUME Typed, NEW v \in Versions, Skip(v) PROVE Typed'
  BY NextTyped, FaultType DEF Skip, At, InTransaction, Typed, MirrorTypeOK

LEMMA RefuseTyped == ASSUME Typed, NEW v \in Versions, Refuse(v) PROVE Typed'
<1>1. faults' \in 0..MaxUpsets
  BY FaultType DEF Refuse
<1>2. loose' \subseteq Names /\ forgotten' \subseteq Names
  BY DEF Refuse, Typed, MirrorTypeOK
<1>. QED BY <1>1, <1>2, NextTyped DEF Refuse, At, AfterFailure, InTransaction

LEMMA FetchTyped == ASSUME Typed, NEW v \in Versions, Fetch(v) PROVE Typed'
<1>1. v \in run.todo /\ run.index[v] # Unlisted /\ run \in Run
  BY DEF Fetch, At, Typed, MirrorTypeOK, Shape, Listed
<1>2. run.index[v] \in Entries
  BY <1>1 DEF Run
<1>3. run.index[v] \in Seq(Listing) /\ v \in 0..MaxRelease
  BY <1>2 DEF Versions
<1>4. run' \in Run
  BY <1>1, <1>3 DEF Fetch, Run
<1>5. /\ run'.pc = "fetched" /\ run'.ver = v /\ run'.index = run.index
      /\ run'.todo = run.todo /\ run'.draft = run.draft
  BY <1>1 DEF Fetch, Run
<1>6. Shape'
  BY <1>1, <1>5 DEF Fetch, At, Typed, Shape, InTransaction, Listed
<1>. QED BY <1>4, <1>6, RunTyped, FaultType DEF Fetch, Typed, MirrorTypeOK

LEMMA CreateReleaseTyped == ASSUME Typed, CreateRelease PROVE Typed'
<1>1. run.ver \in Versions /\ ~InTransaction /\ run \in Run
  BY DEF CreateRelease, Typed, MirrorTypeOK, Shape, InTransaction
<1>2. /\ loose' \subseteq Names /\ forgotten' \subseteq Names /\ faults' \in 0..MaxUpsets
  BY FaultType DEF CreateRelease, Typed, MirrorTypeOK
<1>3. CASE Held(run.ver)
  BY <1>1, <1>2, <1>3, NextTyped DEF CreateRelease, AfterFailure
<1>4. CASE ~Held(run.ver)
  <2>1. run' = [run EXCEPT !.pc = "saving"]
    BY <1>4 DEF CreateRelease
  <2>2. run' \in Run
    BY <1>1, <2>1 DEF Run
  <2>3. /\ run'.pc = "saving" /\ run'.ver = run.ver /\ run'.index = run.index
        /\ run'.todo = run.todo /\ run'.draft = run.draft
    BY <1>1, <2>1 DEF Run
  <2>4. Shape'
    BY <2>3 DEF CreateRelease, Typed, Shape, InTransaction, Listed
  <2>. QED BY <1>2, <2>2, <2>4, RunTyped DEF CreateRelease
<1>. QED BY <1>3, <1>4

LEMMA StorePackageTyped == ASSUME Typed, StorePackage PROVE Typed'
<1>1. /\ run \in Run /\ run.ver \in Versions /\ run.staged \in Seq(Listing)
      /\ run.staged # <<>> /\ run.pc = "saving"
  BY DEF StorePackage, Typed, MirrorTypeOK, Shape, Run
<1>2. Head(run.staged) \in Listing
  BY <1>1, FirstStaged
<1>3. Head(run.staged).kind \in Kinds /\ Head(run.staged).bytes \in 0..MaxBuild
  BY <1>2 DEF Listing
<1>4. PICK a \in Available(run.ver, Head(run.staged).kind) :
         /\ store' = [store EXCEPT ![<<run.ver, Head(run.staged).kind, a>>]
                                     = Head(run.staged).bytes]
         /\ run' = [run EXCEPT !.pc = "stored", !.fresh = a]
         /\ Reused(<<run.ver, Head(run.staged).kind, a>>)
  BY DEF StorePackage
<1>5. a \in Aliases
  BY <1>1, <1>3, AvailableNames
<1>6. run' \in Run
  BY <1>1, <1>4, <1>5 DEF Run
<1>7. /\ run'.pc = "stored" /\ run'.fresh = a /\ run'.ver = run.ver
      /\ run'.index = run.index /\ run'.todo = run.todo /\ run'.draft = run.draft
      /\ run'.staged = run.staged
  BY <1>1, <1>4 DEF Run
<1>8. store' \in [Names -> 0..MaxBuild]
  BY <1>3, <1>4 DEF Typed, MirrorTypeOK
<1>9. Shape'
  BY <1>1, <1>5, <1>7 DEF StorePackage, Typed, Shape, InTransaction, Listed
<1>10. loose' \subseteq Names /\ forgotten' \subseteq Names
  BY <1>4 DEF Reused, Typed, MirrorTypeOK
<1>. QED BY <1>6, <1>8, <1>9, <1>10 DEF StorePackage, Typed, MirrorTypeOK

\* What is being stored has a name, and storage has its bytes under it.
LEMMA FreshName ==
  ASSUME Typed, run.pc = "stored"
  PROVE  /\ run \in Run /\ run.ver \in Versions /\ run.fresh \in Aliases
         /\ run.staged \in Seq(Listing) /\ run.staged # <<>>
         /\ Head(run.staged) \in Listing /\ Head(run.staged).kind \in Kinds
         /\ Tail(run.staged) \in Seq(Listing)
         /\ <<run.ver, Head(run.staged).kind, run.fresh>> \in Names
         /\ store[<<run.ver, Head(run.staged).kind, run.fresh>>] \in 0..MaxBuild
<1>1. /\ run \in Run /\ run.ver \in Versions /\ run.staged \in Seq(Listing)
      /\ run.staged # <<>> /\ run.fresh \in Aliases
  BY DEF Typed, MirrorTypeOK, Shape, Run
<1>2. Head(run.staged) \in Listing /\ Tail(run.staged) \in Seq(Listing)
  BY <1>1, FirstStaged
<1>3. Head(run.staged).kind \in Kinds
  BY <1>2 DEF Listing
<1>4. <<run.ver, Head(run.staged).kind, run.fresh>> \in Names
  BY <1>1, <1>3 DEF Names
<1>. QED BY <1>1, <1>2, <1>3, <1>4 DEF Typed, MirrorTypeOK

\* The run after a row is saved.
LEMMA SavedRun ==
  ASSUME Typed, SavePackage
  PROVE  LET k == Head(run.staged).kind
             name == <<run.ver, k, run.fresh>> IN
         /\ run' \in Run /\ run'.pc = "saving" /\ run'.ver = run.ver
         /\ run'.index = run.index /\ run'.todo = run.todo /\ run'.held = run.held
         /\ run'.staged = Tail(run.staged)
         /\ run'.draft = [run.draft EXCEPT ![k] = [file |-> name, sha |-> store[name]]]
         /\ run'.written = run.written \cup {name}
<1>. DEFINE k == Head(run.staged).kind
            name == <<run.ver, k, run.fresh>>
            p == [file |-> name, sha |-> store[name]]
            d == [run.draft EXCEPT ![k] = p]
            w == run.written \cup {name}
<1>0. run.pc = "stored"
  BY DEF SavePackage
<1>1. /\ run \in Run /\ Tail(run.staged) \in Seq(Listing) /\ k \in Kinds
      /\ name \in Names /\ p \in Package
  BY <1>0, FreshName DEF Package
<1>2. d \in [Kinds -> Package] /\ w \in SUBSET Names
  BY <1>1 DEF Run
<1>3. run' = [run EXCEPT !.pc = "saving", !.staged = Tail(run.staged), !.fresh = NoFile,
                         !.draft = d, !.written = w]
  BY <1>1 DEF SavePackage, Run
<1>. HIDE DEF d, w
<1>4. run' \in Run
  BY <1>1, <1>2, <1>3 DEF Run
<1>5. /\ run'.pc = "saving" /\ run'.ver = run.ver /\ run'.index = run.index
      /\ run'.todo = run.todo /\ run'.held = run.held /\ run'.staged = Tail(run.staged)
      /\ run'.draft = d /\ run'.written = w
  BY <1>1, <1>3 DEF Run
<1>. QED BY <1>4, <1>5 DEF d, w

LEMMA SavePackageTyped == ASSUME Typed, SavePackage PROVE Typed'
<1>. DEFINE k == Head(run.staged).kind
<1>0. run.pc = "stored"
  BY DEF SavePackage
<1>1. <<run.ver, k, run.fresh>> \in Names /\ k \in Kinds
  BY <1>0, FreshName
<1>a. /\ run' \in Run /\ run'.pc = "saving" /\ run'.ver = run.ver
      /\ run'.index = run.index /\ run'.todo = run.todo
  BY SavedRun
<1>d. run.draft \in [Kinds -> Package]
  BY DEF Typed, MirrorTypeOK, Run
<1>e. \A j \in Kinds : run.draft[j] # NoPackage => run.draft[j].file \in Names
  BY <1>0 DEF Typed, Shape
<1>f. run'.draft = [run.draft EXCEPT ![k] =
                      [file |-> <<run.ver, k, run.fresh>>,
                       sha |-> store[<<run.ver, k, run.fresh>>]]]
  BY SavedRun
<1>b. \A j \in Kinds : run'.draft[j] # NoPackage => run'.draft[j].file \in Names
  BY <1>1, <1>d, <1>e, <1>f
<1>c. rel' = rel
  BY DEF SavePackage
<1>2. Shape'
  BY <1>0, <1>a, <1>b, <1>c DEF Typed, Shape, InTransaction
<1>. QED BY <1>2, SavedRun, RunTyped, FaultType DEF SavePackage, Typed, MirrorTypeOK

\* The rows are rolled back, and cleanup comes next.
LEMMA RolledBackTyped ==
  ASSUME Typed, run' = RollBack, run.pc \in {"saving", "stored"},
         UNCHANGED <<upstream, garbled, rel, store, promise, moves, edits>>,
         loose' \subseteq Names, forgotten' \subseteq Names, faults' \in 0..MaxUpsets
  PROVE  Typed'
<1>1. Shape'
  BY RollBackType DEF Typed, Shape, InTransaction, Listed
<1>. QED BY <1>1, RollBackType, RunTyped

LEMMA SaveRefusedTyped == ASSUME Typed, SaveRefused PROVE Typed'
<1>1. loose' \subseteq Names /\ forgotten' \subseteq Names
  BY StoredNames DEF SaveRefused, Typed, MirrorTypeOK
<1>. QED BY <1>1, RolledBackTyped, FaultType DEF SaveRefused

LEMMA SaveFailsTyped == ASSUME Typed, SaveFails PROVE Typed'
<1>1. loose' \subseteq Names /\ forgotten' \subseteq Names
  BY StoredNames DEF SaveFails, Typed, MirrorTypeOK
<1>. QED BY <1>1, RolledBackTyped, FaultType DEF SaveFails

LEMMA CommittedRun ==
  ASSUME Typed, CommitRelease
  PROVE  /\ run' \in Run /\ run'.pc = "loop" /\ run'.index = run.index
         /\ run'.todo = run.todo \ {run.ver} /\ run'.written = {}
         /\ run'.draft = [k \in Kinds |-> NoPackage]
<1>1. run.ver \in Versions
  BY DEF CommitRelease, Typed, Shape
<1>2. NextEntry(run.ver) \in Run /\ NoRun \in Run
  BY <1>1, NextEntryType, NoRunType
<1>3. NoRun.draft = [k \in Kinds |-> NoPackage] /\ NoRun.draft \in [Kinds -> Package]
  BY <1>2 DEF NoRun, Run
<1>4. run' = [NextEntry(run.ver) EXCEPT !.ver = 0, !.draft = NoRun.draft, !.written = {}]
  BY DEF CommitRelease
<1>0. 0 \in 0..MaxRelease /\ {} \in SUBSET Names
  OBVIOUS
<1>5. run' \in Run
  BY <1>0, <1>2, <1>3, <1>4 DEF Run
<1>6. /\ run'.pc = NextEntry(run.ver).pc /\ run'.index = NextEntry(run.ver).index
      /\ run'.todo = NextEntry(run.ver).todo /\ run'.written = {}
      /\ run'.draft = NoRun.draft
  BY <1>2, <1>4 DEF Run
<1>. QED BY <1>1, <1>3, <1>5, <1>6, NextEntryType

LEMMA CommitReleaseTyped == ASSUME Typed, CommitRelease PROVE Typed'
<1>1. /\ run.ver \in Versions /\ run.pc = "saving" /\ run \in Run
      /\ run.index[run.ver] # Unlisted
  BY DEF CommitRelease, Typed, Shape, MirrorTypeOK
<1>2. Mirrored \in Release /\ run.index[run.ver] \in Seq(Listing)
  BY <1>1 DEF Run, Mirrored, Release
<1>3. rel' \in [Versions -> Release] /\ promise' \in [Versions -> Seq(Listing)]
  BY <1>1, <1>2 DEF CommitRelease, Typed, MirrorTypeOK
<1>4. \A v \in Versions : rel'[v] = IF v = run.ver THEN Mirrored ELSE rel[v]
  BY <1>1 DEF CommitRelease, Typed, MirrorTypeOK
<1>5. \A v \in Versions, k \in Kinds :
         rel'[v].pkg[k] # NoPackage => rel'[v].pkg[k].file \in Names
  BY <1>4 DEF Mirrored, Typed, Shape
<1>6. Shape'
  BY <1>5, CommittedRun DEF Typed, Shape, InTransaction, Listed
<1>. QED BY <1>3, <1>6, CommittedRun, FaultType DEF CommitRelease, Typed, MirrorTypeOK

LEMMA UndoneRun ==
  ASSUME Typed, Undo
  PROVE  /\ run' \in Run /\ run'.pc = "loop" /\ run'.index = run.index
         /\ run'.todo = run.todo \ {run.ver} /\ run'.written = {}
         /\ run'.draft = [k \in Kinds |-> NoPackage]
<1>1. run.ver \in Versions /\ run.draft = [k \in Kinds |-> NoPackage]
  BY DEF Undo, Typed, Shape, InTransaction
<1>2. NextEntry(run.ver) \in Run /\ <<>> \in Seq(Listing)
  BY <1>1, NextEntryType, EmptySeq
<1>3. run' = [NextEntry(run.ver) EXCEPT !.ver = 0, !.staged = <<>>, !.written = {}]
  BY DEF Undo, AfterFailure
<1>0. 0 \in 0..MaxRelease /\ {} \in SUBSET Names
  OBVIOUS
<1>4. run' \in Run
  BY <1>0, <1>2, <1>3 DEF Run
<1>5. /\ run'.pc = NextEntry(run.ver).pc /\ run'.index = NextEntry(run.ver).index
      /\ run'.todo = NextEntry(run.ver).todo /\ run'.written = {}
      /\ run'.draft = NextEntry(run.ver).draft
  BY <1>2, <1>3 DEF Run
<1>. QED BY <1>1, <1>4, <1>5, NextEntryType

LEMMA UndoTyped == ASSUME Typed, Undo PROVE Typed'
<1>1. PICK stuck \in SUBSET Remembered :
         /\ IF stuck = {} THEN UNCHANGED faults ELSE Fault
         /\ store' = [n \in Names |-> IF n \in Remembered \ stuck THEN 0 ELSE store[n]]
         /\ loose' = loose \cup stuck
  BY DEF Undo
<1>2. run.written \subseteq Names
  BY DEF Typed, MirrorTypeOK, Run
<1>3. 0 \in 0..MaxBuild
  OBVIOUS
<1>4. store' \in [Names -> 0..MaxBuild] /\ loose' \subseteq Names
  BY <1>1, <1>2, <1>3 DEF Typed, MirrorTypeOK, Remembered
<1>5. Shape'
  BY UndoneRun DEF Undo, Typed, Shape, InTransaction, Listed
<1>6. faults' \in 0..MaxUpsets
  BY <1>1, FaultType
<1>. QED BY <1>4, <1>5, <1>6, UndoneRun DEF Undo, Typed, MirrorTypeOK

\* Whoever is not the mirror leaves the run as it is.
LEMMA OthersShape ==
  ASSUME Typed, UNCHANGED run,
         \A v \in Versions, k \in Kinds :
             rel'[v].pkg[k] # NoPackage => rel'[v].pkg[k].file \in Names
  PROVE  Shape'
  BY DEF Typed, Shape, InTransaction, Listed

\* Storage takes the bytes, and the name is in use.
LEMMA StoredAs ==
  ASSUME Typed, NEW v \in Versions, NEW k \in Kinds, NEW a \in Available(v, k),
         NEW b \in 0..MaxBuild, store' = [store EXCEPT ![<<v, k, a>>] = b]
  PROVE  /\ store' \in [Names -> 0..MaxBuild] /\ store'[<<v, k, a>>] = b
         /\ Uploaded(<<v, k, a>>) = [file |-> <<v, k, a>>, sha |-> b]
         /\ Uploaded(<<v, k, a>>) \in Package
<1>1. <<v, k, a>> \in Names
  BY AvailableNames
<1>2. store' \in [Names -> 0..MaxBuild] /\ store'[<<v, k, a>>] = b
  BY <1>1 DEF Typed, MirrorTypeOK
<1>3. Uploaded(<<v, k, a>>) = [file |-> <<v, k, a>>, sha |-> b]
  BY <1>2 DEF Uploaded
<1>. QED BY <1>1, <1>2, <1>3 DEF Package

LEMMA RepublishTyped ==
  ASSUME Typed, NEW v \in Versions, NEW e \in Entries, Republish(v, e) PROVE Typed'
<1>1. upstream' \in [Versions -> Entries \cup {Unlisted}] /\ moves' \in 0..MaxMoves
  BY DEF Republish, Typed, MirrorTypeOK
<1>2. Shape'
  BY OthersShape DEF Republish, Typed, Shape
<1>. QED BY <1>1, <1>2 DEF Republish, Typed, MirrorTypeOK

LEMMA GarbleTyped == ASSUME Typed, Garble PROVE Typed'
<1>1. moves' \in 0..MaxMoves /\ garbled' \in BOOLEAN
  BY DEF Garble, Typed, MirrorTypeOK
<1>2. Shape'
  BY OthersShape DEF Garble, Typed, Shape
<1>. QED BY <1>1, <1>2 DEF Garble, Typed, MirrorTypeOK

LEMMA EditType == ASSUME Typed, Edit PROVE edits' \in 0..MaxUpsets /\ edits' = edits + 1
  BY DEF Typed, MirrorTypeOK, Edit

\* What an upload makes of the version: one package, under a name storage gave it.
UploadsAs(v, k, b, s, a) ==
    /\ store' = [store EXCEPT ![<<v, k, a>>] = b]
    /\ rel' \in [Versions -> Release]
    /\ \A w \in Versions : w # v => rel'[w] = rel[w]
    /\ rel'[v].state = s /\ rel'[v].source = "uploaded"
    /\ \A j \in Kinds : rel'[v].pkg[j] =
           IF j = k THEN [file |-> <<v, k, a>>, sha |-> b] ELSE NoPackage
    /\ Reused(<<v, k, a>>)

LEMMA UploadRow ==
  ASSUME Typed, NEW v \in Versions, NEW k \in Kinds, NEW b \in 1..MaxBuild,
         NEW s \in {"staged", "published"}, Upload(v, k, b, s)
  PROVE  \E a \in Available(v, k) : UploadsAs(v, k, b, s, a)
<1>1. PICK a \in Available(v, k) :
        /\ store' = [store EXCEPT ![<<v, k, a>>] = b]
        /\ rel' = [rel EXCEPT ![v] = [state |-> s, source |-> "uploaded",
                       pkg |-> [NoRelease.pkg EXCEPT ![k] = Uploaded(<<v, k, a>>)]]]
        /\ Reused(<<v, k, a>>)
  BY DEF Upload
<1>2. /\ Uploaded(<<v, k, a>>) = [file |-> <<v, k, a>>, sha |-> b]
      /\ Uploaded(<<v, k, a>>) \in Package
  <2>1. b \in 0..MaxBuild
    OBVIOUS
  <2>. QED BY <1>1, <2>1, StoredAs
<1>. DEFINE p == [NoRelease.pkg EXCEPT ![k] = Uploaded(<<v, k, a>>)]
            r == [state |-> s, source |-> "uploaded", pkg |-> p]
<1>3. NoRelease.pkg \in [Kinds -> Package] /\ \A j \in Kinds : NoRelease.pkg[j] = NoPackage
  BY NoPackageType DEF NoRelease
<1>4. /\ p \in [Kinds -> Package]
      /\ \A j \in Kinds : p[j] =
             IF j = k THEN [file |-> <<v, k, a>>, sha |-> b] ELSE NoPackage
  BY <1>2, <1>3
<1>5. r \in Release
  BY <1>4 DEF Release
<1>6. /\ rel' \in [Versions -> Release] /\ rel'[v] = r
      /\ \A w \in Versions : w # v => rel'[w] = rel[w]
  BY <1>1, <1>5 DEF Typed, MirrorTypeOK
<1>. QED BY <1>1, <1>4, <1>6 DEF UploadsAs

LEMMA UploadTyped ==
  ASSUME Typed, NEW v \in Versions, NEW k \in Kinds, NEW b \in 1..MaxBuild,
         NEW s \in {"staged", "published"}, Upload(v, k, b, s)
  PROVE  Typed'
<1>1. PICK a \in Available(v, k) : UploadsAs(v, k, b, s, a)
  BY UploadRow
<1>0. b \in 0..MaxBuild
  OBVIOUS
<1>2. <<v, k, a>> \in Names
  BY <1>1, AvailableNames
<1>3. store' \in [Names -> 0..MaxBuild]
  BY <1>0, <1>1, StoredAs DEF UploadsAs
<1>4. \A w \in Versions, j \in Kinds :
         rel'[w].pkg[j] # NoPackage => rel'[w].pkg[j].file \in Names
  BY <1>1, <1>2 DEF UploadsAs, Typed, Shape
<1>5. Shape'
  BY <1>4, OthersShape DEF Upload
<1>6. edits' \in 0..MaxUpsets /\ loose' \subseteq Names /\ forgotten' \subseteq Names
  BY <1>1, EditType DEF UploadsAs, Upload, Reused, Typed, MirrorTypeOK
<1>. QED BY <1>1, <1>3, <1>5, <1>6 DEF UploadsAs, Upload, Typed, MirrorTypeOK

\* What a replacement makes of the version: the one package changes.
ReplacesAs(v, k, b, a) ==
    /\ store' = [store EXCEPT ![<<v, k, a>>] = b]
    /\ rel' \in [Versions -> Release]
    /\ \A w \in Versions : rel'[w].state = rel[w].state /\ (w # v => rel'[w] = rel[w])
    /\ \A j \in Kinds : rel'[v].pkg[j] =
           IF j = k THEN [file |-> <<v, k, a>>, sha |-> b] ELSE rel[v].pkg[j]
    /\ loose' = (loose \ {<<v, k, a>>})
                  \cup (IF Has(v, k) THEN {rel[v].pkg[k].file} ELSE {})
    /\ forgotten' = forgotten \ {<<v, k, a>>}

LEMMA ReplaceRow ==
  ASSUME Typed, NEW v \in Versions, NEW k \in Kinds, NEW b \in 1..MaxBuild, Replace(v, k, b)
  PROVE  \E a \in Available(v, k) : ReplacesAs(v, k, b, a)
<1>1. PICK a \in Available(v, k) :
        /\ store' = [store EXCEPT ![<<v, k, a>>] = b]
        /\ rel' = [rel EXCEPT ![v].pkg[k] = Uploaded(<<v, k, a>>)]
        /\ loose' = (loose \ {<<v, k, a>>})
                  \cup (IF Has(v, k) THEN {rel[v].pkg[k].file} ELSE {})
        /\ forgotten' = forgotten \ {<<v, k, a>>}
  BY DEF Replace
<1>2. /\ Uploaded(<<v, k, a>>) = [file |-> <<v, k, a>>, sha |-> b]
      /\ Uploaded(<<v, k, a>>) \in Package
  <2>1. b \in 0..MaxBuild
    OBVIOUS
  <2>. QED BY <1>1, <2>1, StoredAs
<1>. DEFINE p == [rel[v].pkg EXCEPT ![k] = Uploaded(<<v, k, a>>)]
            r == [rel[v] EXCEPT !.pkg = p]
<1>3. rel[v] \in Release /\ rel[v].pkg \in [Kinds -> Package]
  BY DEF Typed, MirrorTypeOK, Release
<1>4. /\ p \in [Kinds -> Package]
      /\ \A j \in Kinds : p[j] =
             IF j = k THEN [file |-> <<v, k, a>>, sha |-> b] ELSE rel[v].pkg[j]
  BY <1>2, <1>3
<1>. HIDE DEF p
<1>5. r \in Release /\ r.pkg = p /\ r.state = rel[v].state
  BY <1>3, <1>4 DEF Release
<1>6. rel' = [rel EXCEPT ![v] = r]
  BY <1>1 DEF p
<1>. HIDE DEF r
<1>7. /\ rel' \in [Versions -> Release] /\ rel'[v] = r
      /\ \A w \in Versions : w # v => rel'[w] = rel[w]
  BY <1>5, <1>6 DEF Typed, MirrorTypeOK
<1>. QED BY <1>1, <1>4, <1>5, <1>7 DEF ReplacesAs

LEMMA ReplaceTyped ==
  ASSUME Typed, NEW v \in Versions, NEW k \in Kinds, NEW b \in 1..MaxBuild, Replace(v, k, b)
  PROVE  Typed'
<1>1. PICK a \in Available(v, k) : ReplacesAs(v, k, b, a)
  BY ReplaceRow
<1>0. b \in 0..MaxBuild
  OBVIOUS
<1>2. <<v, k, a>> \in Names
  BY <1>1, AvailableNames
<1>3. store' \in [Names -> 0..MaxBuild]
  BY <1>0, <1>1, StoredAs DEF ReplacesAs
<1>4. \A w \in Versions, j \in Kinds :
         rel'[w].pkg[j] # NoPackage => rel'[w].pkg[j].file \in Names
  BY <1>1, <1>2 DEF ReplacesAs, Typed, Shape
<1>5. Shape'
  BY <1>4, OthersShape DEF Replace
<1>6. edits' \in 0..MaxUpsets /\ loose' \subseteq Names /\ forgotten' \subseteq Names
  <2>1. Has(v, k) => rel[v].pkg[k].file \in Names
    BY DEF Has, Typed, Shape
  <2>. QED BY <1>1, <2>1, EditType DEF ReplacesAs, Replace, Typed, MirrorTypeOK
<1>7. promise' \in [Versions -> Seq(Listing)]
  <2>1. <<>> \in Seq(Listing)
    BY EmptySeq
  <2>. QED BY <2>1 DEF Replace, Typed, MirrorTypeOK
<1>. QED BY <1>1, <1>3, <1>5, <1>6, <1>7 DEF ReplacesAs, Replace, Typed, MirrorTypeOK

\* Ticking or unticking changes the state and nothing else of a release.
LEMMA DecideRow ==
  ASSUME Typed, NEW v \in Versions, Decide(v)
  PROVE  /\ rel' \in [Versions -> Release]
         /\ \A w \in Versions : /\ w # v => rel'[w] = rel[w]
                                /\ rel'[w].pkg = rel[w].pkg
         /\ rel'[v].state \in {"staged", "published"}
<1>. DEFINE t == IF rel[v].state = "staged" THEN "published" ELSE "staged"
            r == [rel[v] EXCEPT !.state = t]
<1>1. rel[v] \in Release
  BY DEF Typed, MirrorTypeOK
<1>2. r \in Release /\ r.pkg = rel[v].pkg /\ r.state = t
  BY <1>1 DEF Release
<1>3. rel' = [rel EXCEPT ![v] = r]
  BY <1>1 DEF Decide, Release
<1>. HIDE DEF r
<1>. QED BY <1>2, <1>3 DEF Typed, MirrorTypeOK

LEMMA DecideTyped == ASSUME Typed, NEW v \in Versions, Decide(v) PROVE Typed'
<1>1. Shape'
  BY DecideRow, OthersShape DEF Decide, Typed, Shape
<1>. QED BY <1>1, DecideRow, EditType DEF Decide, Typed, MirrorTypeOK

\* The administrator changes rows, and stores nothing.
LEMMA RowsTyped ==
  ASSUME Typed, UNCHANGED <<upstream, garbled, store, run, forgotten, moves, faults>>, Edit,
         rel' \in [Versions -> Release],
         \A v \in Versions, k \in Kinds :
             rel'[v].pkg[k] # NoPackage => rel'[v].pkg[k].file \in Names,
         promise' \in [Versions -> Seq(Listing)], loose' \subseteq Names
  PROVE  Typed'
<1>1. Shape'
  BY OthersShape
<1>. QED BY <1>1, EditType DEF Typed, MirrorTypeOK

\* A release without its packages.
LEMMA AnnounceRow ==
  ASSUME Typed, NEW v \in Versions, NEW s \in {"staged", "published"}, Announce(v, s)
  PROVE  /\ rel' \in [Versions -> Release]
         /\ \A w \in Versions : w # v => rel'[w] = rel[w]
         /\ rel'[v].state = s /\ \A k \in Kinds : rel'[v].pkg[k] = NoPackage
<1>. DEFINE r == [NoRelease EXCEPT !.state = s, !.source = "uploaded"]
<1>1. NoRelease \in Release /\ NoRelease.pkg = [k \in Kinds |-> NoPackage]
  BY NoReleaseType DEF NoRelease
<1>2. r \in Release /\ r.state = s /\ r.pkg = NoRelease.pkg
  BY <1>1 DEF Release
<1>3. rel' = [rel EXCEPT ![v] = r]
  BY DEF Announce
<1>. HIDE DEF r
<1>. QED BY <1>1, <1>2, <1>3 DEF Typed, MirrorTypeOK

LEMMA AnnounceTyped ==
  ASSUME Typed, NEW v \in Versions, NEW s \in {"staged", "published"}, Announce(v, s)
  PROVE  Typed'
<1>1. \A w \in Versions, k \in Kinds :
         rel'[w].pkg[k] # NoPackage => rel'[w].pkg[k].file \in Names
  BY AnnounceRow DEF Typed, Shape
<1>2. promise' \in [Versions -> Seq(Listing)] /\ loose' \subseteq Names
  BY DEF Announce, Typed, MirrorTypeOK
<1>. QED BY <1>1, <1>2, AnnounceRow, RowsTyped DEF Announce

\* The packages of one version become others.
LEMMA PackagesRow ==
  ASSUME Typed, NEW v \in Versions, NEW p \in [Kinds -> Package],
         rel' = [rel EXCEPT ![v].pkg = p]
  PROVE  /\ rel' \in [Versions -> Release] /\ rel'[v].pkg = p
         /\ \A w \in Versions : rel'[w].state = rel[w].state /\ (w # v => rel'[w] = rel[w])
<1>. DEFINE r == [rel[v] EXCEPT !.pkg = p]
<1>1. rel[v] \in Release
  BY DEF Typed, MirrorTypeOK
<1>2. r \in Release /\ r.pkg = p /\ r.state = rel[v].state
  BY <1>1 DEF Release
<1>3. rel' = [rel EXCEPT ![v] = r]
  OBVIOUS
<1>. HIDE DEF r
<1>. QED BY <1>2, <1>3 DEF Typed, MirrorTypeOK

\* A package is removed: the others stay as they are.
LEMMA DropRow ==
  ASSUME Typed, NEW v \in Versions, NEW k \in Kinds, Drop(v, k)
  PROVE  /\ rel' \in [Versions -> Release]
         /\ \A w \in Versions : rel'[w].state = rel[w].state /\ (w # v => rel'[w] = rel[w])
         /\ \A i \in Kinds : rel'[v].pkg[i] = IF i = k THEN NoPackage ELSE rel[v].pkg[i]
<1>. DEFINE p == [rel[v].pkg EXCEPT ![k] = NoPackage]
<1>1. rel[v].pkg \in [Kinds -> Package]
  BY DEF Typed, MirrorTypeOK, Release
<1>2. /\ p \in [Kinds -> Package]
      /\ \A i \in Kinds : p[i] = IF i = k THEN NoPackage ELSE rel[v].pkg[i]
  BY <1>1, NoPackageType
<1>3. rel' = [rel EXCEPT ![v].pkg = p]
  BY DEF Drop
<1>4. /\ rel' \in [Versions -> Release] /\ rel'[v].pkg = p
      /\ \A w \in Versions : rel'[w].state = rel[w].state /\ (w # v => rel'[w] = rel[w])
  <2>. HIDE DEF p
  <2>. QED BY <1>2, <1>3, PackagesRow
<1>. HIDE DEF p
<1>. QED BY <1>2, <1>4

LEMMA DropTyped ==
  ASSUME Typed, NEW v \in Versions, NEW k \in Kinds, Drop(v, k) PROVE Typed'
<1>1. \A w \in Versions, i \in Kinds :
         rel'[w].pkg[i] # NoPackage => rel'[w].pkg[i].file \in Names
  BY DropRow DEF Typed, Shape
<1>2. <<>> \in Seq(Listing) /\ rel[v].pkg[k].file \in Names
  BY EmptySeq DEF Drop, Has, Typed, Shape
<1>3. promise' \in [Versions -> Seq(Listing)] /\ loose' \subseteq Names
  BY <1>2 DEF Drop, Typed, MirrorTypeOK
<1>. QED BY <1>1, <1>3, DropRow, RowsTyped DEF Drop

\* A package changes its kind, and keeps its name and its bytes.
LEMMA RelabelRow ==
  ASSUME Typed, NEW v \in Versions, NEW k \in Kinds, NEW j \in Kinds, Relabel(v, k, j)
  PROVE  /\ rel' \in [Versions -> Release] /\ k # j
         /\ \A w \in Versions : rel'[w].state = rel[w].state /\ (w # v => rel'[w] = rel[w])
         /\ \A i \in Kinds :
                rel'[v].pkg[i] = IF i = k THEN NoPackage
                                 ELSE IF i = j THEN rel[v].pkg[k] ELSE rel[v].pkg[i]
<1>. DEFINE p == [rel[v].pkg EXCEPT ![j] = rel[v].pkg[k], ![k] = NoPackage]
<1>1. rel[v].pkg \in [Kinds -> Package] /\ k # j
  BY DEF Typed, MirrorTypeOK, Release, Relabel, Has
<1>2. /\ p \in [Kinds -> Package]
      /\ \A i \in Kinds : p[i] = IF i = k THEN NoPackage
                                  ELSE IF i = j THEN rel[v].pkg[k] ELSE rel[v].pkg[i]
  BY <1>1, NoPackageType
<1>3. rel' = [rel EXCEPT ![v].pkg = p]
  BY DEF Relabel
<1>4. /\ rel' \in [Versions -> Release] /\ rel'[v].pkg = p
      /\ \A w \in Versions : rel'[w].state = rel[w].state /\ (w # v => rel'[w] = rel[w])
  <2>. HIDE DEF p
  <2>. QED BY <1>2, <1>3, PackagesRow
<1>. HIDE DEF p
<1>. QED BY <1>1, <1>2, <1>4

LEMMA RelabelTyped ==
  ASSUME Typed, NEW v \in Versions, NEW k \in Kinds, NEW j \in Kinds, Relabel(v, k, j)
  PROVE  Typed'
<1>1. \A w \in Versions, i \in Kinds :
         rel'[w].pkg[i] # NoPackage => rel'[w].pkg[i].file \in Names
  BY RelabelRow DEF Typed, Shape
<1>2. <<>> \in Seq(Listing)
  BY EmptySeq
<1>3. promise' \in [Versions -> Seq(Listing)] /\ loose' \subseteq Names
  BY <1>2 DEF Relabel, Typed, MirrorTypeOK
<1>. QED BY <1>1, <1>3, RelabelRow, RowsTyped DEF Relabel

\* A release moves to another version, packages, promise and all.
LEMMA RenameRow ==
  ASSUME Typed, NEW v \in Versions, NEW w \in Versions, Rename(v, w)
  PROVE  /\ rel' \in [Versions -> Release] /\ promise' \in [Versions -> Seq(Listing)]
         /\ v # w
         /\ \A u \in Versions :
                rel'[u] = IF u = v THEN NoRelease ELSE IF u = w THEN rel[v] ELSE rel[u]
         /\ \A u \in Versions :
                promise'[u] = IF u = v THEN <<>> ELSE IF u = w THEN promise[v] ELSE promise[u]
<1>1. NoRelease \in Release /\ <<>> \in Seq(Listing) /\ v # w
  BY NoReleaseType, EmptySeq DEF Rename, Free
<1>2. /\ rel' = [rel EXCEPT ![w] = rel[v], ![v] = NoRelease]
      /\ promise' = [promise EXCEPT ![w] = promise[v], ![v] = <<>>]
  BY DEF Rename
<1>. QED BY <1>1, <1>2 DEF Typed, MirrorTypeOK

LEMMA RenameTyped ==
  ASSUME Typed, NEW v \in Versions, NEW w \in Versions, Rename(v, w) PROVE Typed'
<1>1. \A u \in Versions, k \in Kinds :
         rel'[u].pkg[k] # NoPackage => rel'[u].pkg[k].file \in Names
  <2>1. \A k \in Kinds : NoRelease.pkg[k] = NoPackage
    BY DEF NoRelease
  <2>. QED BY <2>1, RenameRow DEF Typed, Shape
<1>2. loose' \subseteq Names
  BY DEF Rename, Typed, MirrorTypeOK
<1>. QED BY <1>1, <1>2, RenameRow, RowsTyped DEF Rename

LEMMA RemoveTyped == ASSUME Typed, NEW v \in Versions, Remove(v) PROVE Typed'
<1>1. NoRelease \in Release /\ \A k \in Kinds : NoRelease.pkg[k] = NoPackage
  BY NoReleaseType DEF NoRelease
<1>2. /\ rel' \in [Versions -> Release]
      /\ \A w \in Versions : rel'[w] = IF w = v THEN NoRelease ELSE rel[w]
  BY <1>1 DEF Remove, Typed, MirrorTypeOK
<1>3. \A w \in Versions, k \in Kinds :
         rel'[w].pkg[k] # NoPackage => rel'[w].pkg[k].file \in Names
  BY <1>1, <1>2 DEF Typed, Shape
<1>4. <<>> \in Seq(Listing)
  BY EmptySeq
<1>5. promise' \in [Versions -> Seq(Listing)] /\ loose' \subseteq Names
  BY <1>4, CarriedNames DEF Remove, Typed, MirrorTypeOK
<1>. QED BY <1>2, <1>3, <1>5, RowsTyped DEF Remove

LEMMA StutterTyped == ASSUME Typed, UNCHANGED mirrorVars PROVE Typed'
  BY DEF Typed, MirrorTypeOK, Shape, InTransaction, Listed, mirrorVars

\* A machine asks, is refused or downloads; it changes nothing of the releases.
LEMMA MachineLeaves ==
  ASSUME NEW d \in Devices, MachineStep(d) PROVE UNCHANGED <<mirrorVars, pin>>
  BY DEF MachineStep, Ask, NotOffered, Download

LEMMA SetPinTyped ==
  ASSUME Typed, NEW d \in Devices, NEW v \in Versions \cup {Nothing}, SetPin(d, v)
  PROVE  Typed'
<1>1. Shape'
  BY OthersShape DEF SetPin, Typed, Shape
<1>. QED BY <1>1, EditType DEF SetPin, Typed, MirrorTypeOK

LEMMA MirrorNextTyped == ASSUME Typed, MirrorNext PROVE Typed'
<1>1. CASE \E v \in Versions : \E e \in Entries : Republish(v, e)
  BY <1>1, RepublishTyped
<1>2. ASSUME NEW v \in Versions, Administer(v) PROVE Typed'
  <2>1. ASSUME NEW p \in LocalPackages, Replace(v, p[1], p[2]) PROVE Typed'
    BY <2>1, ReplaceTyped
  <2>2. ASSUME NEW p \in LocalPackages, NEW s \in {"staged", "published"},
               Upload(v, p[1], p[2], s) PROVE Typed'
    BY <2>2, UploadTyped
  <2>3. ASSUME NEW k \in Kinds, Drop(v, k) \/ \E j \in Kinds : Relabel(v, k, j) PROVE Typed'
    BY <2>3, DropTyped, RelabelTyped
  <2>4. ASSUME NEW w \in Versions, Rename(v, w) PROVE Typed'
    BY <2>4, RenameTyped
  <2>. QED BY <1>2, <2>1, <2>2, <2>3, <2>4, AnnounceTyped, DecideTyped, RemoveTyped
           DEF Administer
<1>3. CASE MirrorStep
  BY <1>3, ReadIndexTyped, EndRunTyped, SkipTyped, FetchTyped, RefuseTyped,
     CreateReleaseTyped, StorePackageTyped, SavePackageTyped, SaveRefusedTyped,
     CommitReleaseTyped, UndoTyped DEF MirrorStep
<1>. QED BY <1>1, <1>2, <1>3, GarbleTyped, SaveFailsTyped, MirrorDiesTyped DEF MirrorNext

-----------------------------------------------------------------------------------
(* The feed: what it offers exists.                                                *)

\* A machine acts on an offer of a release.
OffersAre == \A d \in Devices : offer[d] # NoOffer => offer[d].ver \in Versions

FeedTyped ==
    /\ pin \in [Devices -> Versions \cup {Nothing}]
    /\ offer \in [Devices -> [ver : Versions \cup {Nothing}, pinned : BOOLEAN,
                              sha : 0..MaxBuild]]
    /\ running \in [Devices -> [ver : 0..MaxRelease, build : 0..MaxBuild]]
    /\ OffersAre

\* Of some versions one is the newest.
LEMMA NewestIn ==
  ASSUME NEW V \in SUBSET Versions, V # {}
  PROVE  Newest(V) \in V /\ \A w \in V : w <= Newest(V)
<1>. DEFINE T == {MaxRelease - w : w \in V}
            R == {p \in Nat \X Nat : p[1] < p[2]}
<1>1. R = OpToRel(<, Nat)
  BY DEF OpToRel
<1>2. IsWellFoundedOn(R, Nat)
  BY <1>1, NatLessThanWellFounded
<1>3. T \subseteq Nat /\ T # {}
  <2>1. \A w \in V : w \in Nat /\ MaxRelease - w \in Nat
    BY DEF Versions
  <2>2. PICK u \in V : TRUE
    OBVIOUS
  <2>3. MaxRelease - u \in T
    OBVIOUS
  <2>4. T \subseteq Nat
    BY <2>1
  <2>. QED BY <2>3, <2>4
<1>4. PICK x \in T : \A y \in T : <<y, x>> \notin R
  <2>. HIDE DEF T, R
  <2>. QED BY <1>2, <1>3, WFMin
<1>5. PICK v \in V : x = MaxRelease - v
  OBVIOUS
<1>6. ASSUME NEW w \in V PROVE w <= v
  <2>1. MaxRelease - w \in T /\ ~(MaxRelease - w < MaxRelease - v)
    BY <1>3, <1>4, <1>5
  <2>. QED BY <2>1 DEF Versions
<1>. QED BY <1>6 DEF Newest

\* What a machine is offered is published, and its pin if it has one.
LEMMA OfferedType ==
  ASSUME Typed, FeedTyped, NEW d \in Devices
  PROVE  /\ OfferedRelease(d) \in Published \cup {Nothing}
         /\ pin[d] # Nothing => OfferedRelease(d) \in {pin[d], Nothing}
<1>1. CASE pin[d] # Nothing
  BY <1>1 DEF OfferedRelease
<1>2. CASE pin[d] = Nothing
  <2>1. Published \in SUBSET Versions
    BY DEF Published
  <2>2. Published # {} => Newest(Published) \in Published
    BY <2>1, NewestIn
  <2>. QED BY <1>2, <2>2 DEF OfferedRelease
<1>. QED BY <1>1, <1>2

LEMMA OfferForType ==
  ASSUME Typed, FeedTyped, NEW d \in Devices
  PROVE  /\ OfferFor(d) \in [ver : Versions \cup {Nothing}, pinned : BOOLEAN,
                             sha : 0..MaxBuild]
         /\ OfferFor(d).sha # 0 => OfferFor(d).ver \in Versions
<1>0. 0 \in 0..MaxBuild
  OBVIOUS
<1>1. CASE OfferedRelease(d) = Nothing
  BY <1>0, <1>1 DEF OfferFor, NoOffer
<1>2. CASE OfferedRelease(d) # Nothing
  <2>1. OfferedRelease(d) \in Versions
    BY <1>2, OfferedType DEF Published
  <2>2. rel[OfferedRelease(d)].pkg[Tier[d]].sha \in 0..MaxBuild
    BY <2>1, FeedAssumption DEF FeedAssumption, Typed, MirrorTypeOK, Release, Package
  <2>. QED BY <1>2, <2>1, <2>2 DEF OfferFor
<1>. QED BY <1>1, <1>2

LEMMA AskTyped ==
  ASSUME Typed, FeedTyped, NEW d \in Devices, Ask(d) PROVE FeedTyped'
<1>1. /\ OfferFor(d) \in [ver : Versions \cup {Nothing}, pinned : BOOLEAN, sha : 0..MaxBuild]
      /\ OfferFor(d).ver \in Versions
  BY OfferForType DEF Ask
<1>2. offer' = [offer EXCEPT ![d] = OfferFor(d)] /\ UNCHANGED <<pin, running>>
  BY DEF Ask
<1>. QED BY <1>1, <1>2 DEF FeedTyped, OffersAre

\* The machine is done with the offer.
LEMMA OfferDropped ==
  ASSUME FeedTyped, NEW d \in Devices, offer' = [offer EXCEPT ![d] = NoOffer]
  PROVE  /\ offer' \in [Devices -> [ver : Versions \cup {Nothing}, pinned : BOOLEAN,
                                    sha : 0..MaxBuild]]
         /\ OffersAre'
<1>1. 0 \in 0..MaxBuild
  OBVIOUS
<1>2. NoOffer \in [ver : Versions \cup {Nothing}, pinned : BOOLEAN, sha : 0..MaxBuild]
  BY <1>1 DEF NoOffer
<1>. QED BY <1>2 DEF FeedTyped, OffersAre

LEMMA DownloadTyped ==
  ASSUME Typed, FeedTyped, NEW d \in Devices, Download(d) PROVE FeedTyped'
<1>. DEFINE v == offer[d].ver
            bytes == store[rel[v].pkg[Tier[d]].file]
<1>1. v \in Versions /\ Tier[d] \in Kinds /\ rel[v].pkg[Tier[d]] # NoPackage
  BY FeedAssumption DEF FeedAssumption, Download, FeedTyped, OffersAre, Serves, Has
<1>3. rel[v].pkg[Tier[d]].file \in Names
  BY <1>1 DEF Typed, Shape
<1>4. bytes \in 0..MaxBuild /\ v \in 0..MaxRelease
  <2>1. store \in [Names -> 0..MaxBuild]
    BY DEF Typed, MirrorTypeOK
  <2>2. v \in 0..MaxRelease
    BY <1>1 DEF Versions
  <2>. QED BY <1>3, <2>1, <2>2
<1>5. \/ running' = running
      \/ running' = [running EXCEPT ![d] = [ver |-> v, build |-> bytes]]
  BY DEF Download
<1>6. running' \in [Devices -> [ver : 0..MaxRelease, build : 0..MaxBuild]]
  <2>. HIDE DEF v, bytes
  <2>1. [ver |-> v, build |-> bytes] \in [ver : 0..MaxRelease, build : 0..MaxBuild]
    BY <1>4
  <2>2. running \in [Devices -> [ver : 0..MaxRelease, build : 0..MaxBuild]]
    BY DEF FeedTyped
  <2>. QED BY <1>5, <2>1, <2>2
<1>. QED BY <1>6, OfferDropped DEF Download, FeedTyped

LEMMA MachineTyped ==
  ASSUME Typed, FeedTyped, NEW d \in Devices, MachineStep(d) PROVE FeedTyped'
<1>1. CASE NotOffered(d)
  BY <1>1, OfferDropped DEF NotOffered, FeedTyped
<1>. QED BY <1>1, AskTyped, DownloadTyped DEF MachineStep

LEMMA TypesKept == Typed /\ FeedTyped /\ [Next]_vars => Typed' /\ FeedTyped'
<1>. SUFFICES ASSUME Typed, FeedTyped, [Next]_vars PROVE Typed' /\ FeedTyped'
  OBVIOUS
<1>1. CASE MirrorNext /\ UNCHANGED feedVars
  BY <1>1, MirrorNextTyped DEF feedVars, FeedTyped, OffersAre
<1>2. ASSUME NEW d \in Devices, MachineStep(d) PROVE Typed' /\ FeedTyped'
  BY <1>2, MachineLeaves, MachineTyped, StutterTyped
<1>3. ASSUME NEW d \in Devices, NEW v \in Versions \cup {Nothing}, SetPin(d, v)
      PROVE  Typed' /\ FeedTyped'
  BY <1>3, SetPinTyped DEF SetPin, FeedTyped, OffersAre
<1>4. CASE UNCHANGED vars
  BY <1>4, StutterTyped DEF vars, feedVars, FeedTyped, OffersAre
<1>. QED BY <1>1, <1>2, <1>3, <1>4 DEF Next

LEMMA TypesInit == Init => Typed /\ FeedTyped
<1>. SUFFICES ASSUME Init PROVE Typed /\ FeedTyped
  OBVIOUS
<1>1. 0 \in 0..MaxBuild /\ 0 \in 0..MaxRelease
  OBVIOUS
<1>2. FeedTyped
  BY <1>1 DEF Init, FeedTyped, OffersAre, NoOffer
<1>. QED BY <1>2, InitTyped DEF Init

LEMMA TypesAlways == Spec => [](Typed /\ FeedTyped)
  BY TypesInit, TypesKept, PTL DEF Spec

\* Every reachable state of the releases and of the feed is well typed.
THEOREM FeedTypeCorrect == Spec => []TypeOK
<1>1. Typed /\ FeedTyped => TypeOK
  BY DEF Typed, FeedTyped, TypeOK
<1>. QED BY <1>1, TypesAlways, PTL

\* No machine installs what is not published at that moment, or, pinned, anything but
\* its pin, whatever was done to either since it was made the offer.
THEOREM InstallsSafe == Spec => InstallsAreAllowed
<1>. DEFINE Allowed == \A d \in Devices :
                running'[d] # running[d] =>
                    /\ rel[running'[d].ver].state = "published"
                    /\ pin[d] # Nothing => running'[d].ver = pin[d]
<1>1. ASSUME Typed, FeedTyped, [Next]_vars PROVE [Allowed]_vars
  <2>1. ASSUME NEW d \in Devices, Download(d) PROVE Allowed
    <3>. DEFINE v == offer[d].ver
    <3>1. v \in Versions /\ OfferedRelease(d) = v
      BY <1>1, <2>1 DEF Download, FeedTyped, OffersAre, Serves
    <3>2. v \in Published /\ (pin[d] # Nothing => v = pin[d])
      BY <1>1, <3>1, OfferedType, FeedAssumption DEF FeedAssumption
    <3>3. \A e \in Devices : running'[e] # running[e] => e = d /\ running'[e].ver = v
      BY <1>1, <2>1 DEF Download, FeedTyped
    <3>. QED BY <3>2, <3>3 DEF Published
  <2>2. CASE UNCHANGED running
    BY <2>2
  <2>. QED BY <1>1, <2>1, <2>2 DEF Next, MachineStep, Ask, NotOffered, SetPin, feedVars, vars
<1>. QED BY <1>1, TypesAlways, PTL DEF Spec, InstallsAreAllowed
====
