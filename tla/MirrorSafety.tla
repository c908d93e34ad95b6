------------------------------- MODULE MirrorSafety -------------------------------
(* Where the bytes of the packages are, for every number of versions, builds,      *)
(* kinds, names and faults: each stored name is carried by a row, known to the run *)
(* in progress, or let go of, and by one of them only.                             *)

EXTENDS MirrorProofs, FeedShelf

USE MirrorAssumption DEF MirrorAssumption

-----------------------------------------------------------------------------------
(* The inductive invariant.                                                        *)

NameOf(v, k) == rel[v].pkg[k].file

\* Names that are not a row's to keep: the run's, and those somebody let go of.
Known == run.written \cup Stored \cup loose \cup forgotten

\* A package row has its bytes, under a name that is its own. What is not held has no
\* packages and promises none.
Rows ==
    \A v \in Versions :
        /\ ~Held(v) => promise[v] = <<>> /\ \A k \in Kinds : rel[v].pkg[k] = NoPackage
        /\ \A k \in Kinds : rel[v].pkg[k] # NoPackage =>
               /\ rel[v].pkg[k].sha # 0
               /\ store[NameOf(v, k)] = rel[v].pkg[k].sha
               /\ NameOf(v, k) \notin Known

\* No two rows share a name, wherever they have been moved to.
OwnNames ==
    \A v, w \in Versions, k, j \in Kinds :
        /\ rel[v].pkg[k] # NoPackage /\ rel[w].pkg[j] # NoPackage
        /\ NameOf(v, k) = NameOf(w, j)
        => v = w /\ k = j

\* Bytes are some row's or known. (CleanupIsComplete, name by name.)
Whose ==
    \A n \in Names :
        store[n] # 0 =>
            \/ n \in Known
            \/ \E v \in Versions, k \in Kinds :
                   rel[v].pkg[k] # NoPackage /\ NameOf(v, k) = n

\* The version in the transaction is nobody else's, what was downloaded is what was
\* stated, and names are remembered from the transaction to the end of its cleanup.
Running ==
    /\ InTransaction => ~Held(run.ver)
    /\ run.pc \in {"fetched", "saving", "stored"} =>
           \A i \in 1..Len(run.staged) :
               run.staged[i].sha # 0 /\ run.staged[i].bytes = run.staged[i].sha
    /\ run.pc \notin {"saving", "stored", "undo"} => run.written = {}

\* Names the run has remembered, or has just been given, hold bytes and are its own.
Kept ==
    /\ \A n \in run.written : store[n] # 0 /\ n \notin loose \cup forgotten \cup Stored
    /\ \A n \in Stored : store[n] = Head(run.staged).bytes /\ n \notin loose \cup forgotten

\* In the transaction, the rows not yet committed and the names remembered are the same.
Drafts ==
    InTransaction =>
        /\ \A k \in Kinds : run.draft[k] # NoPackage =>
               /\ run.draft[k].sha # 0
               /\ run.draft[k].file \in run.written
               /\ \E a \in Aliases : run.draft[k].file = <<run.ver, k, a>>
               /\ store[run.draft[k].file] = run.draft[k].sha
        /\ \A n \in run.written : \E k \in Kinds :
               n = run.draft[k].file /\ run.draft[k] # NoPackage

\* Every package listed is still to be stored or has its row, and nothing else has.
Follows(entry, staged, draft) ==
    /\ entry # <<>>
    /\ \A i \in 1..Len(entry) :
           \/ \E j \in 1..Len(staged) : staged[j] = entry[i]
           \/ draft[entry[i].kind] # NoPackage /\ draft[entry[i].kind].sha = entry[i].sha
    /\ \A j \in 1..Len(staged) : \E i \in 1..Len(entry) : entry[i].kind = staged[j].kind
    /\ \A k \in Kinds : draft[k] # NoPackage => \E i \in 1..Len(entry) : entry[i].kind = k
Following ==
    run.pc \in {"fetched", "saving", "stored"} =>
        Follows(run.index[run.ver], run.staged, run.draft)

Bytes == Rows /\ OwnNames /\ Whose /\ MirroredIsWhole
Work == Running /\ Kept /\ Drafts /\ Following
Safe == Bytes /\ Work

-----------------------------------------------------------------------------------
(* What several steps have in common.                                              *)

\* Names change hands, and the rows and the bytes stay.
LEMMA HandedOn ==
  ASSUME Bytes, UNCHANGED <<store, promise>>, Known' = Known,
         \A v \in Versions : rel'[v].pkg = rel[v].pkg /\ (Held(v)' <=> Held(v))
  PROVE  Bytes'
<1>1. Rows'
  BY DEF Bytes, Rows, NameOf
<1>2. Whose'
  BY DEF Bytes, Whose, NameOf
<1>3. MirroredIsWhole'
  BY DEF Bytes, MirroredIsWhole
<1>4. OwnNames'
  BY DEF Bytes, OwnNames, NameOf
<1>. QED BY <1>1, <1>2, <1>3, <1>4 DEF Bytes

\* A step that leaves what the run follows alone goes on following it.
LEMMA FollowsOn ==
  ASSUME Following,
         run.pc \in {"fetched", "saving", "stored"} \/ run'.pc \notin {"fetched", "saving", "stored"},
         run'.ver = run.ver, run'.index = run.index,
         run'.staged = run.staged, run'.draft = run.draft
  PROVE  Following'
  BY DEF Following

\* A run between releases has nothing to look after.
LEMMA BetweenReleases ==
  ASSUME run'.pc \in {"idle", "loop"}, run'.written = {}
  PROVE  Work' /\ Stored' = {}
  BY DEF Work, Running, Kept, Drafts, Following, Stored, InTransaction

\* A name that storage hands out is nobody's.
LEMMA NamesAreFresh ==
  ASSUME Typed, Safe, NEW v \in Versions, NEW k \in Kinds, NEW a \in Available(v, k)
  PROVE  /\ <<v, k, a>> \notin run.written \cup Stored
         /\ \A w \in Versions, j \in Kinds :
                rel[w].pkg[j] # NoPackage => NameOf(w, j) # <<v, k, a>>
<1>1. store[<<v, k, a>>] = 0 \/ <<v, k, a>> \in loose \cup forgotten
  BY AvailableNames
<1>2. \A n \in run.written : store[n] # 0 /\ n \notin loose \cup forgotten
  BY DEF Safe, Work, Kept
<1>3. \A n \in Stored : store[n] # 0 /\ n \notin loose \cup forgotten
  <2>. SUFFICES ASSUME NEW n \in Stored PROVE store[n] # 0 /\ n \notin loose \cup forgotten
    OBVIOUS
  <2>1. run.pc = "stored"
    BY DEF Stored
  <2>2. Len(run.staged) \in Nat \ {0} /\ Head(run.staged) = run.staged[1]
    BY <2>1, FreshName, FirstStaged
  <2>3. run.staged[1].bytes # 0
    BY <2>1, <2>2 DEF Safe, Work, Running
  <2>. QED BY <2>2, <2>3 DEF Safe, Work, Kept
<1>4. \A w \in Versions, j \in Kinds : rel[w].pkg[j] # NoPackage =>
          store[NameOf(w, j)] # 0 /\ NameOf(w, j) \notin loose \cup forgotten
  BY DEF Safe, Bytes, Rows, Known
<1>. QED BY <1>1, <1>2, <1>3, <1>4

LEMMA SafeInit == Init => Safe
<1>. SUFFICES ASSUME Init PROVE Safe
  OBVIOUS
<1>1. run.pc = "idle" /\ run.written = {} /\ \A v \in Versions : ~Held(v)
  BY DEF Init, MirrorInit, NoRun, NoRelease, Held
<1>2. Work
  BY <1>1 DEF Work, Running, Kept, Drafts, Following, Stored, InTransaction
<1>3. \A v \in Versions, k \in Kinds : rel[v].pkg[k] = NoPackage
  BY DEF Init, MirrorInit, NoRelease
<1>4. Rows /\ OwnNames
  BY <1>1, <1>3 DEF Rows, OwnNames, Init, MirrorInit
<1>5. Whose
  BY DEF Whose, Init, MirrorInit
<1>6. MirroredIsWhole
  BY DEF MirroredIsWhole, Init, MirrorInit
<1>. QED BY <1>2, <1>4, <1>5, <1>6 DEF Safe, Bytes

-----------------------------------------------------------------------------------
(* The run outside its transaction.                                                *)

\* Every step of the run that leaves it between releases and touches nothing else.
LEMMA QuietSafe ==
  ASSUME Safe, run.pc \in {"idle", "loop", "fetched"},
         run'.pc \in {"idle", "loop"}, run'.written = {},
         UNCHANGED <<rel, store, promise, loose, forgotten>>
  PROVE  Safe'
<1>1. run.written = {} /\ Stored = {}
  BY DEF Safe, Work, Running, Stored
<1>2. Known' = Known
  BY <1>1, BetweenReleases DEF Known
<1>3. Bytes'
  BY <1>2, HandedOn DEF Safe, Held
<1>. QED BY <1>3, BetweenReleases DEF Safe

LEMMA BeginsSafe == ASSUME Typed, Safe, ReadIndex \/ EndRun PROVE Safe'
<1>1. NoRun \in Run /\ NoRun.pc = "idle" /\ NoRun.written = {}
  BY NoRunType DEF NoRun
<1>2. ReadIndex => run'.pc = "loop" /\ run'.written = NoRun.written
  BY <1>1 DEF ReadIndex, Run
<1>3. run'.pc \in {"idle", "loop"} /\ run'.written = {}
  BY <1>1, <1>2 DEF EndRun
<1>. QED BY <1>3, QuietSafe DEF ReadIndex, EndRun

\* The loop goes on with the next entry.
LEMMA GoesOnSafe ==
  ASSUME Typed, Safe, NEW v \in Versions, run' = NextEntry(v),
         run.pc \in {"loop", "fetched"},
         UNCHANGED <<rel, store, promise, loose, forgotten>>
  PROVE  Safe'
<1>1. run'.pc = "loop" /\ run'.written = {}
  BY NextEntryType DEF Safe, Work, Running
<1>. QED BY <1>1, QuietSafe

LEMMA FetchSafe == ASSUME Typed, Safe, NEW v \in Versions, Fetch(v) PROVE Safe'
<1>1. v \in run.todo /\ run.index[v] # Unlisted /\ run \in Run /\ run.pc = "loop"
  BY DEF Fetch, At, Typed, MirrorTypeOK, Shape, Listed
<1>2. run.index[v] \in Seq(Listing)
  BY <1>1 DEF Run
<1>3. /\ run'.pc = "fetched" /\ run'.ver = v /\ run'.index = run.index
      /\ run'.staged = run.index[v] /\ run'.draft = run.draft /\ run'.written = run.written
  BY <1>1 DEF Fetch, Run
<1>4. run.written = {} /\ run.draft = [k \in Kinds |-> NoPackage]
  BY <1>1 DEF Safe, Work, Running, Typed, Shape, InTransaction
<1>5. \A i \in 1..Len(run.index[v]) :
         run.index[v][i].sha # 0 /\ run.index[v][i].bytes = run.index[v][i].sha
  BY DEF Fetch, Fetches, Served
<1>6. run.index[v] # <<>>
  BY DEF Fetch, Fetches
<1>7. Stored = {} /\ Stored' = {}
  BY <1>1, <1>3 DEF Stored
<1>8. Bytes'
  BY <1>3, <1>7, HandedOn DEF Fetch, Safe, Known, Held
<1>9. Running' /\ Kept' /\ Drafts'
  BY <1>3, <1>4, <1>5, <1>7 DEF Running, Kept, Drafts, InTransaction
<1>10. Following'
  BY <1>2, <1>3, <1>4, <1>6 DEF Following, Follows
<1>. QED BY <1>8, <1>9, <1>10 DEF Safe, Work

LEMMA CreateReleaseSafe == ASSUME Typed, Safe, CreateRelease PROVE Safe'
<1>1. run.ver \in Versions /\ run \in Run /\ run.pc = "fetched"
  BY DEF CreateRelease, Typed, MirrorTypeOK, Shape
<1>2. CASE Held(run.ver)
  BY <1>1, <1>2, GoesOnSafe DEF CreateRelease, AfterFailure
<1>3. CASE ~Held(run.ver)
  <2>1. /\ run'.pc = "saving" /\ run'.ver = run.ver /\ run'.index = run.index
        /\ run'.staged = run.staged /\ run'.draft = run.draft /\ run'.written = run.written
    BY <1>1, <1>3 DEF CreateRelease, Run
  <2>2. Stored = {} /\ Stored' = {} /\ run.written = {}
    BY <1>1, <2>1 DEF Stored, Safe, Work, Running
  <2>3. run.draft = [k \in Kinds |-> NoPackage]
    BY <1>1 DEF Typed, Shape, InTransaction
  <2>4. Bytes'
    BY <2>1, <2>2, HandedOn DEF CreateRelease, Safe, Known, Held
  <2>5. Running'
    BY <1>1, <1>3, <2>1, <2>2 DEF CreateRelease, Safe, Work, Running, Held
  <2>8. Following /\ run.pc \in {"fetched", "saving", "stored"}
    BY <1>1 DEF Safe, Work
  <2>7. Following'
    BY <2>1, <2>8, FollowsOn
  <2>6. Kept' /\ Drafts'
    BY <2>1, <2>2, <2>3 DEF Kept, Drafts
  <2>. QED BY <2>4, <2>5, <2>6, <2>7 DEF Safe, Work
<1>. QED BY <1>2, <1>3

-----------------------------------------------------------------------------------
(* The transaction.                                                                *)

LEMMA StorePackageSafe == ASSUME Typed, Safe, StorePackage PROVE Safe'
<1>. DEFINE p == Head(run.staged)
            v == run.ver
            k == p.kind
<1>1. /\ run \in Run /\ v \in Versions /\ run.pc = "saving" /\ run.staged # <<>>
      /\ run.staged \in Seq(Listing)
  BY DEF StorePackage, Typed, MirrorTypeOK, Shape, Run
<1>2. p \in Listing
  BY <1>1, FirstStaged
<1>3. k \in Kinds /\ p.bytes \in 0..MaxBuild
  BY <1>2 DEF Listing
<1>4. PICK a \in Available(v, k) :
         /\ store' = [store EXCEPT ![<<v, k, a>>] = p.bytes]
         /\ run' = [run EXCEPT !.pc = "stored", !.fresh = a]
         /\ Reused(<<v, k, a>>)
  BY DEF StorePackage
<1>. DEFINE n == <<v, k, a>>
<1>5. /\ run'.pc = "stored" /\ run'.fresh = a /\ run'.ver = v /\ run'.index = run.index
      /\ run'.staged = run.staged /\ run'.draft = run.draft /\ run'.written = run.written
  BY <1>1, <1>4 DEF Run
<1>6. Stored = {} /\ Stored' = {n}
  BY <1>1, <1>5 DEF Stored
<1>7. /\ n \in Names /\ n \notin run.written
      /\ \A w \in Versions, j \in Kinds : rel[w].pkg[j] # NoPackage => NameOf(w, j) # n
  BY <1>1, <1>3, NamesAreFresh, AvailableNames
<1>8. store'[n] = p.bytes /\ \A m : m # n => store'[m] = store[m]
  BY <1>4, <1>7 DEF Typed, MirrorTypeOK
<1>9. loose' = loose \ {n} /\ forgotten' = forgotten \ {n}
  BY <1>4 DEF Reused
<1>10. Known' = Known \cup {n}
  BY <1>5, <1>6, <1>9 DEF Known
<1>11. UNCHANGED <<rel, promise>>
  BY DEF StorePackage
<1>. HIDE DEF n
<1>12. Rows'
  BY <1>7, <1>8, <1>10, <1>11 DEF Safe, Bytes, Rows, NameOf, Held
<1>13. Whose' /\ OwnNames'
  BY <1>8, <1>10, <1>11 DEF Safe, Bytes, Whose, OwnNames, NameOf
<1>14. MirroredIsWhole'
  BY <1>11 DEF Safe, Bytes, MirroredIsWhole
<1>15. Running'
  BY <1>1, <1>5, <1>11 DEF Safe, Work, Running, InTransaction, Held
<1>19. Following /\ run.pc \in {"fetched", "saving", "stored"}
  BY <1>1 DEF Safe, Work
<1>18. Following'
  BY <1>5, <1>19, FollowsOn
<1>16. Kept'
  BY <1>5, <1>6, <1>7, <1>8, <1>9 DEF Safe, Work, Kept
<1>17. Drafts'
  BY <1>1, <1>5, <1>7, <1>8 DEF Safe, Work, Drafts, InTransaction
<1>. QED BY <1>12, <1>13, <1>14, <1>15, <1>16, <1>17, <1>18 DEF Safe, Bytes, Work

LEMMA SavePackageSafe == ASSUME Typed, Safe, SavePackage PROVE Safe'
<1>. DEFINE p == Head(run.staged)
            v == run.ver
            k == p.kind
            n == <<v, k, run.fresh>>
            d == [file |-> n, sha |-> store[n]]
<1>1. /\ run.pc = "stored" /\ run.draft[k] = NoPackage
      /\ UNCHANGED <<rel, store, promise, loose, forgotten>>
  BY DEF SavePackage
<1>2. /\ run \in Run /\ v \in Versions /\ k \in Kinds /\ run.staged \in Seq(Listing)
      /\ run.staged # <<>>
  BY <1>1, FreshName
<1>3. /\ Len(run.staged) \in Nat \ {0} /\ p = run.staged[1]
      /\ Len(Tail(run.staged)) = Len(run.staged) - 1
      /\ \A j \in 1..Len(Tail(run.staged)) : Tail(run.staged)[j] = run.staged[j + 1]
  BY <1>2, FirstStaged
<1>4. /\ run'.pc = "saving" /\ run'.ver = v /\ run'.index = run.index
      /\ run'.staged = Tail(run.staged) /\ run'.written = run.written \cup {n}
      /\ run'.draft = [run.draft EXCEPT ![k] = d]
  BY SavedRun
<1>5. \A j \in Kinds : run'.draft[j] = IF j = k THEN d ELSE run.draft[j]
  BY <1>2, <1>4 DEF Run
<1>6. Stored = {n} /\ Stored' = {}
  BY <1>1, <1>4 DEF Stored
<1>7. store[n] = p.sha /\ p.sha # 0 /\ n \notin loose \cup forgotten
  BY <1>1, <1>3, <1>6 DEF Safe, Work, Running, Kept
<1>8. Known' = Known
  BY <1>1, <1>4, <1>6 DEF Known
<1>9. Bytes'
  BY <1>1, <1>8, HandedOn DEF Safe, Held
<1>10. d # NoPackage /\ d.sha = p.sha /\ d.file = n
  BY <1>7 DEF NoPackage
<1>. HIDE DEF d
<1>11. Running'
  BY <1>1, <1>3, <1>4 DEF Safe, Work, Running, InTransaction, Held
<1>12. Kept'
  BY <1>1, <1>4, <1>6, <1>7 DEF Safe, Work, Kept
<1>13. Drafts'
  <2>0. run.fresh \in Aliases
    BY <1>1, FreshName
  <2>1. \A j \in Kinds : run'.draft[j] # NoPackage =>
            /\ run'.draft[j].sha # 0
            /\ run'.draft[j].file \in run'.written
            /\ \E a \in Aliases : run'.draft[j].file = <<v, j, a>>
            /\ store[run'.draft[j].file] = run'.draft[j].sha
    <3>. SUFFICES ASSUME NEW j \in Kinds, run'.draft[j] # NoPackage
         PROVE  /\ run'.draft[j].sha # 0
                /\ run'.draft[j].file \in run'.written
                /\ \E a \in Aliases : run'.draft[j].file = <<v, j, a>>
                /\ store[run'.draft[j].file] = run'.draft[j].sha
      OBVIOUS
    <3>1. CASE j = k
      BY <1>4, <1>5, <1>7, <1>10, <2>0, <3>1
    <3>2. CASE j # k
      BY <1>1, <1>4, <1>5, <3>2 DEF Safe, Work, Drafts, InTransaction
    <3>. QED BY <3>1, <3>2
  <2>2. ASSUME NEW m \in run'.written
        PROVE  \E j \in Kinds : m = run'.draft[j].file /\ run'.draft[j] # NoPackage
    <3>1. CASE m = n
      BY <1>2, <1>5, <1>10, <3>1
    <3>2. CASE m \in run.written
      <4>1. PICK j \in Kinds : m = run.draft[j].file /\ run.draft[j] # NoPackage
        BY <1>1, <3>2 DEF Safe, Work, Drafts, InTransaction
      <4>2. run'.draft[j] = run.draft[j]
        BY <1>1, <1>5, <4>1
      <4>. QED BY <4>1, <4>2
    <3>. QED BY <1>4, <3>1, <3>2
  <2>. QED BY <1>1, <1>4, <2>1, <2>2 DEF Drafts
<1>14. Following'
  <2>. DEFINE entry == run.index[v]
  <2>0. Following /\ run.pc = "stored"
    BY <1>1 DEF Safe, Work
  <2>1. entry # <<>>
    BY <2>0 DEF Following, Follows
  <2>2. ASSUME NEW i \in 1..Len(entry)
        PROVE  \/ \E j \in 1..Len(run'.staged) : run'.staged[j] = entry[i]
               \/ /\ run'.draft[entry[i].kind] # NoPackage
                  /\ run'.draft[entry[i].kind].sha = entry[i].sha
    <3>1. CASE \E j \in 1..Len(run.staged) : run.staged[j] = entry[i]
      <4>1. PICK j \in 1..Len(run.staged) : run.staged[j] = entry[i]
        BY <3>1
      <4>2. CASE j = 1
        BY <1>2, <1>3, <1>5, <1>10, <4>1, <4>2
      <4>3. CASE j # 1
        <5>1. j - 1 \in 1..Len(Tail(run.staged)) /\ Tail(run.staged)[j - 1] = run.staged[j]
          BY <1>3, <4>3
        <5>. QED BY <1>4, <4>1, <5>1
      <4>. QED BY <4>2, <4>3
    <3>2. CASE /\ run.draft[entry[i].kind] # NoPackage
               /\ run.draft[entry[i].kind].sha = entry[i].sha
      <4>1. entry[i].kind # k
        BY <1>1, <3>2
      <4>2. run'.draft[entry[i].kind] = run.draft[entry[i].kind]
        BY <1>2, <1>4, <4>1 DEF Run
      <4>. QED BY <3>2, <4>2
    <3>. QED BY <2>0, <3>1, <3>2 DEF Following, Follows
  <2>3. \A j \in 1..Len(run'.staged) : \E i \in 1..Len(entry) :
            entry[i].kind = run'.staged[j].kind
    <3>1. ASSUME NEW j \in 1..Len(run'.staged)
          PROVE  j + 1 \in 1..Len(run.staged) /\ run'.staged[j] = run.staged[j + 1]
      BY <1>3, <1>4
    <3>2. \A j \in 1..Len(run.staged) : \E i \in 1..Len(entry) :
              entry[i].kind = run.staged[j].kind
      BY <2>0 DEF Following, Follows
    <3>. QED BY <3>1, <3>2
  <2>4. ASSUME NEW j \in Kinds, run'.draft[j] # NoPackage
        PROVE  \E i \in 1..Len(entry) : entry[i].kind = j
    <3>1. 1 \in 1..Len(run.staged)
      BY <1>3
    <3>2. \E i \in 1..Len(entry) : entry[i].kind = k
      BY SMTT(30), <2>0, <1>3, <3>1 DEF Following, Follows
    <3>3. CASE j # k
      <4>1. run.draft[j] # NoPackage
        BY <1>5, <2>4, <3>3
      <4>. QED BY <2>0, <4>1 DEF Following, Follows
    <3>. QED BY <3>2, <3>3
  <2>5. run'.index[run'.ver] = entry
    BY <1>4
  <2>6. Follows(entry, run'.staged, run'.draft)
    BY <2>1, <2>2, <2>3, <2>4 DEF Follows
  <2>. QED BY <2>5, <2>6 DEF Following
<1>. QED BY <1>9, <1>11, <1>12, <1>13, <1>14 DEF Safe, Work

\* The rows roll back, and what was not remembered is forgotten.
LEMMA RolledBackSafe == ASSUME Typed, Safe, SaveRefused \/ SaveFails PROVE Safe'
<1>1. /\ run' = RollBack /\ forgotten' = forgotten \cup Stored
      /\ UNCHANGED <<rel, store, promise, loose>>
  BY DEF SaveRefused, SaveFails
<1>2. run'.pc = "undo" /\ run'.written = run.written
  BY <1>1, RollBackType
<1>3. Stored' = {}
  BY <1>2 DEF Stored
<1>4. Known' = Known
  BY <1>1, <1>2, <1>3 DEF Known
<1>5. Bytes'
  BY <1>1, <1>4, HandedOn DEF Safe, Held
<1>6. Work'
  BY <1>1, <1>2, <1>3 DEF Safe, Work, Running, Kept, Drafts, Following, InTransaction
<1>. QED BY <1>5, <1>6 DEF Safe

LEMMA MirrorDiesSafe == ASSUME Typed, Safe, MirrorDies PROVE Safe'
<1>1. run'.pc = "idle" /\ run'.written = {}
  BY DEF MirrorDies, NoRun
<1>2. Known' = Known
  BY <1>1, BetweenReleases DEF MirrorDies, Known
<1>3. Bytes'
  BY <1>2, HandedOn DEF MirrorDies, Safe, Held
<1>. QED BY <1>1, <1>3, BetweenReleases DEF Safe

LEMMA CommitReleaseSafe == ASSUME Typed, Safe, CommitRelease PROVE Safe'
<1>. DEFINE v == run.ver
<1>1. /\ v \in Versions /\ run.pc = "saving" /\ run.staged = <<>> /\ run \in Run
      /\ ~Held(v)
  BY DEF CommitRelease, Typed, MirrorTypeOK, Shape, InTransaction, Safe, Work, Running
<1>2. \A w \in Versions :
         /\ rel'[w] = IF w = v THEN Mirrored ELSE rel[w]
         /\ promise'[w] = IF w = v THEN run.index[v] ELSE promise[w]
  BY <1>1 DEF CommitRelease, Typed, MirrorTypeOK
<1>3. Mirrored.pkg = run.draft /\ Mirrored.state = "staged"
  BY DEF Mirrored
<1>4. run'.pc = "loop" /\ run'.written = {} /\ Stored = {} /\ Stored' = {}
  BY <1>1, CommittedRun, BetweenReleases DEF Stored
<1>5. /\ Known = run.written \cup loose \cup forgotten
      /\ Known' = loose \cup forgotten /\ store' = store
  BY <1>4 DEF Known, CommitRelease
<1>6. \A k \in Kinds : run.draft[k] # NoPackage =>
         /\ run.draft[k].sha # 0 /\ store[run.draft[k].file] = run.draft[k].sha
         /\ run.draft[k].file \notin loose \cup forgotten
         /\ run.draft[k].file \in run.written
         /\ \E a \in Aliases : run.draft[k].file = <<v, k, a>>
  BY <1>1 DEF Safe, Work, Drafts, Kept, InTransaction
<1>7. Rows'
  <2>. SUFFICES ASSUME NEW w \in Versions
       PROVE  /\ ~Held(w)' => promise'[w] = <<>> /\ \A k \in Kinds : rel'[w].pkg[k] = NoPackage
              /\ \A k \in Kinds : rel'[w].pkg[k] # NoPackage =>
                     /\ rel'[w].pkg[k].sha # 0
                     /\ store'[rel'[w].pkg[k].file] = rel'[w].pkg[k].sha
                     /\ rel'[w].pkg[k].file \notin Known'
    BY DEF Rows, NameOf
  <2>1. CASE w = v
    BY <1>2, <1>3, <1>5, <1>6, <2>1 DEF Held
  <2>2. CASE w # v
    BY <1>2, <1>5, <2>2 DEF Safe, Bytes, Rows, NameOf, Held
  <2>. QED BY <2>1, <2>2
<1>10. OwnNames'
  <2>1. ASSUME NEW w \in Versions, w # v, NEW j \in Kinds, rel[w].pkg[j] # NoPackage,
               NEW k \in Kinds, run.draft[k] # NoPackage
        PROVE  NameOf(w, j) # run.draft[k].file
    BY <1>5, <1>6, <2>1 DEF Safe, Bytes, Rows
  <2>2. ASSUME NEW k \in Kinds, NEW j \in Kinds,
               run.draft[k] # NoPackage, run.draft[j] # NoPackage,
               run.draft[k].file = run.draft[j].file
        PROVE  k = j
    <3>1. PICK a \in Aliases : run.draft[k].file = <<v, k, a>>
      BY <1>6, <2>2
    <3>2. PICK c \in Aliases : run.draft[j].file = <<v, j, c>>
      BY <1>6, <2>2
    <3>3. <<v, k, a>>[2] = k /\ <<v, j, c>>[2] = j
      OBVIOUS
    <3>. QED BY <2>2, <3>1, <3>2, <3>3
  <2>3. ASSUME NEW u \in Versions, NEW w \in Versions, NEW k \in Kinds, NEW j \in Kinds,
               rel'[u].pkg[k] # NoPackage, rel'[w].pkg[j] # NoPackage,
               rel'[u].pkg[k].file = rel'[w].pkg[j].file
        PROVE  u = w /\ k = j
    <3>1. CASE u = v /\ w = v
      BY <1>2, <1>3, <2>2, <2>3, <3>1
    <3>2. CASE u # v /\ w # v
      BY <1>2, <2>3, <3>2 DEF Safe, Bytes, OwnNames, NameOf
    <3>3. CASE u = v /\ w # v
      BY <1>2, <1>3, <2>1, <2>3, <3>3 DEF NameOf
    <3>4. CASE u # v /\ w = v
      BY <1>2, <1>3, <2>1, <2>3, <3>4 DEF NameOf
    <3>. QED BY <3>1, <3>2, <3>3, <3>4
  <2>. QED BY <2>3 DEF OwnNames, NameOf
<1>8. Whose'
  <2>. SUFFICES ASSUME NEW n \in Names, store[n] # 0
       PROVE  \/ n \in Known'
              \/ \E w \in Versions, k \in Kinds :
                     rel'[w].pkg[k] # NoPackage /\ rel'[w].pkg[k].file = n
    BY <1>5 DEF Whose, NameOf
  <2>1. CASE n \in run.written
    <3>1. PICK j \in Kinds : n = run.draft[j].file /\ run.draft[j] # NoPackage
      BY <1>1, <2>1 DEF Safe, Work, Drafts, InTransaction
    <3>2. rel'[v].pkg[j] = run.draft[j]
      BY <1>1, <1>2, <1>3
    <3>. QED BY <1>1, <3>1, <3>2
  <2>2. CASE n \notin run.written /\ n \in Known
    BY <1>5, <2>2
  <2>3. CASE n \notin Known
    <3>1. PICK w \in Versions, k \in Kinds : rel[w].pkg[k] # NoPackage /\ NameOf(w, k) = n
      BY <2>3 DEF Safe, Bytes, Whose
    <3>2. w # v
      BY <1>1, <3>1 DEF Safe, Bytes, Rows
    <3>. QED BY <1>2, <3>1, <3>2 DEF NameOf
  <2>. QED BY <2>1, <2>2, <2>3
<1>9. MirroredIsWhole'
  <2>. DEFINE entry == run.index[v]
  <2>0. \A j : j \notin 1..Len(run.staged)
    BY <1>1
  <2>1. \A i \in 1..Len(entry) : run.draft[entry[i].kind].sha = entry[i].sha
    BY <1>1, <2>0 DEF Safe, Work, Following, Follows
  <2>2. \A k \in Kinds : run.draft[k] # NoPackage => \E i \in 1..Len(entry) : entry[i].kind = k
    BY <1>1 DEF Safe, Work, Following, Follows
  <2>3. \A w \in Versions : w # v => rel'[w] = rel[w] /\ promise'[w] = promise[w]
    BY <1>2
  <2>4. rel'[v].pkg = run.draft /\ promise'[v] = entry
    BY <1>1, <1>2, <1>3
  <2>. HIDE DEF v, entry
  <2>5. ASSUME NEW w \in Versions, promise'[w] # <<>>
        PROVE  AsListed(rel'[w].pkg, promise'[w])
    <3>1. CASE w = v
      BY <2>1, <2>2, <2>4, <3>1 DEF AsListed
    <3>2. CASE w # v
      BY <2>3, <2>5, <3>2 DEF Safe, Bytes, MirroredIsWhole
    <3>. QED BY <3>1, <3>2
  <2>. QED BY <2>5 DEF MirroredIsWhole
<1>. QED BY <1>4, <1>7, <1>8, <1>9, <1>10, BetweenReleases DEF Safe, Bytes

LEMMA UndoSafe == ASSUME Typed, Safe, Undo PROVE Safe'
<1>1. PICK stuck \in SUBSET Remembered :
         /\ store' = [n \in Names |-> IF n \in Remembered \ stuck THEN 0 ELSE store[n]]
         /\ loose' = loose \cup stuck
  BY DEF Undo
<1>2. run'.pc = "loop" /\ run'.written = {} /\ Stored = {} /\ Stored' = {}
  BY UndoneRun, BetweenReleases DEF Undo, Stored
<1>3. /\ stuck \subseteq run.written /\ UNCHANGED <<rel, promise, forgotten>>
      /\ \A n \in Names : store'[n] = IF n \in run.written \ stuck THEN 0 ELSE store[n]
  BY <1>1 DEF Undo, Remembered
<1>4. /\ Known = run.written \cup loose \cup forgotten
      /\ Known' = stuck \cup loose \cup forgotten
  BY <1>1, <1>2, <1>3 DEF Known
<1>5. Rows'
  <2>1. ASSUME NEW v \in Versions, NEW k \in Kinds, rel[v].pkg[k] # NoPackage
        PROVE  store'[NameOf(v, k)] = store[NameOf(v, k)] /\ NameOf(v, k) \notin Known'
    <3>1. NameOf(v, k) \in Names
      BY <2>1 DEF NameOf, Typed, Shape
    <3>2. NameOf(v, k) \notin Known
      BY <2>1 DEF Safe, Bytes, Rows
    <3>. QED BY <1>3, <1>4, <3>1, <3>2
  <2>. QED BY <1>3, <2>1 DEF Safe, Bytes, Rows, NameOf, Held
<1>6. Whose'
  BY <1>3, <1>4 DEF Safe, Bytes, Whose, NameOf
<1>8. OwnNames'
  BY <1>3 DEF Safe, Bytes, OwnNames, NameOf
<1>7. MirroredIsWhole'
  BY <1>3 DEF Safe, Bytes, MirroredIsWhole
<1>. QED BY <1>2, <1>5, <1>6, <1>7, <1>8, BetweenReleases DEF Safe, Bytes

-----------------------------------------------------------------------------------
(* The administrator.                                                              *)

\* What an administrator's change to one version leaves of the run's work: names that
\* are not the run's change hands, and the version is not the one in the transaction.
LEMMA WorkKept ==
  ASSUME Safe, UNCHANGED run,
         InTransaction => ~Held(run.ver)',
         \A n \in run.written \cup Stored :
             store'[n] = store[n] /\ n \notin loose' \cup forgotten'
  PROVE  Work'
<1>1. Stored' = Stored
  BY DEF Stored
<1>2. Running'
  BY DEF Safe, Work, Running, InTransaction
<1>6. Following
  BY DEF Safe, Work
<1>5. Following'
  BY <1>6, FollowsOn
<1>3. Kept'
  BY <1>1 DEF Safe, Work, Kept
<1>4. Drafts'
  BY DEF Safe, Work, Drafts, InTransaction
<1>. QED BY <1>2, <1>3, <1>4, <1>5 DEF Work

\* The run's names are under no row and were not let go of.
LEMMA RunsNames ==
  ASSUME Safe, NEW n \in run.written \cup Stored
  PROVE  /\ n \notin loose \cup forgotten
         /\ \A v \in Versions, k \in Kinds : rel[v].pkg[k] # NoPackage => NameOf(v, k) # n
<1>1. n \notin loose \cup forgotten
  BY DEF Safe, Work, Kept
<1>2. n \in Known
  BY DEF Known
<1>. QED BY <1>1, <1>2 DEF Safe, Bytes, Rows

\* Two rows under one name are one row.
LEMMA SameName ==
  ASSUME Safe, NEW v \in Versions, NEW w \in Versions, NEW k \in Kinds, NEW j \in Kinds,
         rel[v].pkg[k] # NoPackage, rel[w].pkg[j] # NoPackage,
         rel[v].pkg[k].file = rel[w].pkg[j].file
  PROVE  v = w /\ k = j
  BY DEF Safe, Bytes, OwnNames, NameOf

LEMMA UploadSafe ==
  ASSUME Typed, Safe, NEW v \in Versions, NEW k \in Kinds, NEW b \in 1..MaxBuild,
         NEW s \in {"staged", "published"}, Upload(v, k, b, s)
  PROVE  Safe'
<1>1. PICK a \in Available(v, k) : UploadsAs(v, k, b, s, a)
  BY UploadRow
<1>. DEFINE n == <<v, k, a>>
            p == [file |-> n, sha |-> b]
<1>2. ~Held(v) /\ ~Inserting(v) /\ UNCHANGED <<run, promise>>
  BY DEF Upload, Free
<1>3. /\ n \in Names /\ n \notin run.written \cup Stored
      /\ \A w \in Versions, j \in Kinds : rel[w].pkg[j] # NoPackage => NameOf(w, j) # n
  BY NamesAreFresh, AvailableNames
<1>4. store'[n] = b /\ \A m : m # n => store'[m] = store[m]
  BY <1>1, <1>3 DEF UploadsAs, Typed, MirrorTypeOK
<1>5. loose' = loose \ {n} /\ forgotten' = forgotten \ {n}
  BY <1>1 DEF UploadsAs, Reused
<1>6. Known' = Known \ {n}
  BY <1>2, <1>3, <1>5 DEF Known, Stored
<1>7. p # NoPackage /\ p.file = n /\ p.sha = b /\ b # 0
  BY DEF NoPackage
<1>8. /\ rel'[v].state = s /\ \A j \in Kinds : rel'[v].pkg[j] = IF j = k THEN p ELSE NoPackage
      /\ \A w \in Versions : w # v => rel'[w] = rel[w]
  BY <1>1 DEF UploadsAs
<1>9. promise'[v] = <<>> /\ \A j \in Kinds : rel[v].pkg[j] = NoPackage
  BY <1>2 DEF Safe, Bytes, Rows
<1>. HIDE DEF n, p
<1>10. Rows'
  <2>. SUFFICES ASSUME NEW w \in Versions
       PROVE  /\ ~Held(w)' => promise'[w] = <<>> /\ \A j \in Kinds : rel'[w].pkg[j] = NoPackage
              /\ \A j \in Kinds : rel'[w].pkg[j] # NoPackage =>
                     /\ rel'[w].pkg[j].sha # 0
                     /\ store'[rel'[w].pkg[j].file] = rel'[w].pkg[j].sha
                     /\ rel'[w].pkg[j].file \notin Known'
    BY DEF Rows, NameOf
  <2>1. CASE w = v
    BY <1>4, <1>6, <1>7, <1>8, <2>1 DEF Held
  <2>2. CASE w # v
    <3>1. rel'[w] = rel[w] /\ promise'[w] = promise[w]
      BY <1>2, <1>8, <2>2
    <3>. QED BY <1>3, <1>4, <1>6, <3>1 DEF Safe, Bytes, Rows, NameOf, Held
  <2>. QED BY <2>1, <2>2
<1>14. OwnNames'
  <2>1. ASSUME NEW u \in Versions, NEW j \in Kinds, rel'[u].pkg[j] # NoPackage
        PROVE  \/ u = v /\ j = k /\ rel'[u].pkg[j].file = n
               \/ u # v /\ rel'[u] = rel[u] /\ rel'[u].pkg[j].file # n
    BY <1>3, <1>7, <1>8, <2>1 DEF NameOf
  <2>. QED BY <2>1 DEF Safe, Bytes, OwnNames, NameOf
<1>11. Whose'
  <2>. SUFFICES ASSUME NEW m \in Names, store'[m] # 0
       PROVE  \/ m \in Known'
              \/ \E w \in Versions, j \in Kinds :
                     rel'[w].pkg[j] # NoPackage /\ rel'[w].pkg[j].file = m
    BY DEF Whose, NameOf
  <2>1. CASE m = n
    BY <1>7, <1>8, <2>1
  <2>2. CASE m # n /\ m \in Known
    BY <1>6, <2>2
  <2>3. CASE m # n /\ m \notin Known
    <3>1. PICK w \in Versions, j \in Kinds : rel[w].pkg[j] # NoPackage /\ NameOf(w, j) = m
      BY <1>4, <2>3 DEF Safe, Bytes, Whose
    <3>2. w # v
      BY <1>9, <3>1
    <3>. QED BY <1>8, <3>1, <3>2 DEF NameOf
  <2>. QED BY <2>1, <2>2, <2>3
<1>12. MirroredIsWhole'
  <2>1. ASSUME NEW w \in Versions, promise'[w] # <<>>
        PROVE  promise[w] # <<>> /\ promise'[w] = promise[w] /\ rel'[w] = rel[w]
    BY <1>2, <1>8, <1>9, <2>1
  <2>2. MirroredIsWhole
    BY DEF Safe, Bytes
  <2>. QED BY <2>1, <2>2 DEF MirroredIsWhole
<1>13. Work'
  <2>1. InTransaction => run.ver # v
    BY <1>2 DEF InTransaction, Inserting
  <2>2. InTransaction => run.ver \in Versions /\ ~Held(run.ver)
    BY DEF Typed, Shape, InTransaction, Safe, Work, Running
  <2>3. InTransaction => ~Held(run.ver)'
    BY <1>2, <1>8, <2>1, <2>2 DEF Held
  <2>. QED BY <1>2, <1>3, <1>4, <1>5, <2>3, WorkKept, RunsNames
<1>. QED BY <1>10, <1>11, <1>12, <1>13, <1>14 DEF Safe, Bytes

LEMMA ReplaceSafe ==
  ASSUME Typed, Safe, NEW v \in Versions, NEW k \in Kinds, NEW b \in 1..MaxBuild,
         Replace(v, k, b)
  PROVE  Safe'
<1>1. PICK a \in Available(v, k) : ReplacesAs(v, k, b, a)
  BY ReplaceRow
<1>. DEFINE n == <<v, k, a>>
            p == [file |-> n, sha |-> b]
            old == IF Has(v, k) THEN {rel[v].pkg[k].file} ELSE {}
<1>2. Held(v) /\ UNCHANGED run /\ promise' = [promise EXCEPT ![v] = <<>>]
  BY DEF Replace
<1>3. /\ n \in Names /\ n \notin run.written \cup Stored
      /\ \A w \in Versions, j \in Kinds : rel[w].pkg[j] # NoPackage => NameOf(w, j) # n
  BY NamesAreFresh, AvailableNames
<1>4. store'[n] = b /\ \A m : m # n => store'[m] = store[m]
  BY <1>1, <1>3 DEF ReplacesAs, Typed, MirrorTypeOK
<1>5. loose' = (loose \ {n}) \cup old /\ forgotten' = forgotten \ {n}
  BY <1>1 DEF ReplacesAs
<1>6. old = IF rel[v].pkg[k] # NoPackage THEN {NameOf(v, k)} ELSE {}
  BY DEF Has, NameOf
<1>9. p # NoPackage /\ p.file = n /\ p.sha = b /\ b # 0
  BY DEF NoPackage
<1>10. /\ \A j \in Kinds : rel'[v].pkg[j] = IF j = k THEN p ELSE rel[v].pkg[j]
       /\ \A w \in Versions : (w # v => rel'[w] = rel[w]) /\ (Held(w)' <=> Held(w))
  BY <1>1 DEF ReplacesAs, Held
<1>11. \A w \in Versions : promise'[w] = IF w = v THEN <<>> ELSE promise[w]
  BY <1>2 DEF Typed, MirrorTypeOK
<1>. HIDE DEF old, n, p
<1>7. n \notin old
  BY <1>3, <1>6
<1>8. Known' = (Known \ {n}) \cup old
  BY <1>2, <1>3, <1>5, <1>7 DEF Known, Stored
<1>16. ASSUME NEW w \in Versions, NEW j \in Kinds, rel'[w].pkg[j] # NoPackage
       PROVE  \/ w = v /\ j = k /\ rel'[w].pkg[j] = p
              \/ /\ ~(w = v /\ j = k) /\ rel'[w].pkg[j] = rel[w].pkg[j]
                 /\ rel'[w].pkg[j].file # n /\ rel'[w].pkg[j].file \notin old
  <2>1. CASE w = v /\ j = k
    BY <1>10, <2>1
  <2>2. CASE ~(w = v /\ j = k)
    <3>1. rel'[w].pkg[j] = rel[w].pkg[j]
      BY <1>10, <2>2
    <3>2. NameOf(w, j) \notin old
      BY <1>6, <1>16, <2>2, <3>1 DEF Safe, Bytes, OwnNames
    <3>. QED BY <1>3, <1>16, <2>2, <3>1, <3>2 DEF NameOf
  <2>. QED BY <2>1, <2>2
<1>12. Rows'
  <2>. SUFFICES ASSUME NEW w \in Versions
       PROVE  /\ ~Held(w)' => promise'[w] = <<>> /\ \A j \in Kinds : rel'[w].pkg[j] = NoPackage
              /\ \A j \in Kinds : rel'[w].pkg[j] # NoPackage =>
                     /\ rel'[w].pkg[j].sha # 0
                     /\ store'[rel'[w].pkg[j].file] = rel'[w].pkg[j].sha
                     /\ rel'[w].pkg[j].file \notin Known'
    BY DEF Rows, NameOf
  <2>1. ~Held(w)' => promise'[w] = <<>> /\ \A j \in Kinds : rel'[w].pkg[j] = NoPackage
    <3>1. ~Held(w)' => w # v /\ ~Held(w) /\ rel'[w] = rel[w] /\ promise'[w] = promise[w]
      BY <1>2, <1>10, <1>11
    <3>. QED BY <3>1 DEF Safe, Bytes, Rows
  <2>2. ASSUME NEW j \in Kinds, rel'[w].pkg[j] # NoPackage
        PROVE  /\ rel'[w].pkg[j].sha # 0
               /\ store'[rel'[w].pkg[j].file] = rel'[w].pkg[j].sha
               /\ rel'[w].pkg[j].file \notin Known'
    <3>1. CASE w = v /\ j = k
      BY <1>4, <1>7, <1>8, <1>9, <1>10, <3>1
    <3>2. CASE ~(w = v /\ j = k)
      BY <1>4, <1>8, <1>16, <2>2, <3>2 DEF Safe, Bytes, Rows, NameOf
    <3>. QED BY <3>1, <3>2
  <2>. QED BY <2>1, <2>2
<1>17. OwnNames'
  <2>1. ASSUME NEW t \in Versions, NEW u \in Versions, NEW i \in Kinds, NEW j \in Kinds,
               rel'[t].pkg[i] # NoPackage, rel'[u].pkg[j] # NoPackage,
               rel'[t].pkg[i].file = rel'[u].pkg[j].file
        PROVE  t = u /\ i = j
    <3>1. \/ t = v /\ i = k /\ rel'[t].pkg[i] = p
          \/ rel'[t].pkg[i] = rel[t].pkg[i] /\ rel'[t].pkg[i].file # n
      BY <1>16, <2>1
    <3>2. \/ u = v /\ j = k /\ rel'[u].pkg[j] = p
          \/ rel'[u].pkg[j] = rel[u].pkg[j] /\ rel'[u].pkg[j].file # n
      BY <1>16, <2>1
    <3>. QED BY SMTT(30), <1>9, <2>1, <3>1, <3>2, SameName
  <2>. QED BY <2>1 DEF OwnNames, NameOf
<1>13. Whose'
  <2>. SUFFICES ASSUME NEW m \in Names, store'[m] # 0
       PROVE  \/ m \in Known'
              \/ \E w \in Versions, j \in Kinds :
                     rel'[w].pkg[j] # NoPackage /\ rel'[w].pkg[j].file = m
    BY DEF Whose, NameOf
  <2>1. CASE m = n
    BY <1>9, <1>10, <2>1
  <2>2. CASE m # n /\ m \in Known
    BY <1>8, <2>2
  <2>3. CASE m # n /\ m \notin Known
    <3>1. PICK w \in Versions, j \in Kinds : rel[w].pkg[j] # NoPackage /\ NameOf(w, j) = m
      BY <1>4, <2>3 DEF Safe, Bytes, Whose
    <3>2. CASE w = v /\ j = k
      BY <1>6, <1>8, <3>1, <3>2
    <3>3. CASE ~(w = v /\ j = k)
      <4>1. rel'[w].pkg[j] = rel[w].pkg[j]
        BY <1>10, <3>3
      <4>. QED BY <3>1, <4>1 DEF NameOf
    <3>. QED BY <3>2, <3>3
  <2>. QED BY <2>1, <2>2, <2>3
<1>14. MirroredIsWhole'
  <2>1. ASSUME NEW w \in Versions, promise'[w] # <<>>
        PROVE  promise[w] # <<>> /\ promise'[w] = promise[w] /\ rel'[w] = rel[w]
    BY <1>10, <1>11, <2>1
  <2>2. MirroredIsWhole
    BY DEF Safe, Bytes
  <2>. QED BY <2>1, <2>2 DEF MirroredIsWhole
<1>15. Work'
  <2>1. InTransaction => run.ver \in Versions /\ ~Held(run.ver)
    BY DEF Typed, Shape, InTransaction, Safe, Work, Running
  <2>2. InTransaction => ~Held(run.ver)'
    BY <1>2, <1>10, <2>1 DEF Held
  <2>3. ASSUME NEW m \in run.written \cup Stored
        PROVE  store'[m] = store[m] /\ m \notin loose' \cup forgotten'
    BY <1>3, <1>4, <1>5, <1>6, RunsNames
  <2>. QED BY <1>2, <2>2, <2>3, WorkKept
<1>. QED BY <1>12, <1>13, <1>14, <1>15, <1>17 DEF Safe, Bytes

\* Rows move, or let go of their bytes, and nothing is stored: `gone' are names that rows
\* carried; each row there is now was a row before, and keeps its name; a name no row
\* carries any more is gone; what is not held has no rows; and a promise goes with the
\* packages it is about.
LetGo(gone) ==
    \A n \in gone : \E v \in Versions, k \in Kinds :
        rel[v].pkg[k] # NoPackage /\ NameOf(v, k) = n
NoneNew(gone) ==
    \A v \in Versions, k \in Kinds : rel'[v].pkg[k] # NoPackage =>
        /\ rel'[v].pkg[k].file \notin gone
        /\ \E w \in Versions, j \in Kinds : rel'[v].pkg[k] = rel[w].pkg[j]
NoneLost(gone) ==
    \A v \in Versions, k \in Kinds : rel[v].pkg[k] # NoPackage =>
        \/ NameOf(v, k) \in gone
        \/ \E w \in Versions, j \in Kinds : rel'[w].pkg[j] = rel[v].pkg[k]
Emptied ==
    \A v \in Versions : ~Held(v)' =>
        promise'[v] = <<>> /\ \A k \in Kinds : rel'[v].pkg[k] = NoPackage
Promised ==
    \A v \in Versions : promise'[v] # <<>> =>
        \E w \in Versions : promise'[v] = promise[w] /\ rel'[v].pkg = rel[w].pkg

LEMMA RowsMove ==
  ASSUME Safe, UNCHANGED <<store, run, forgotten>>, NEW gone, loose' = loose \cup gone,
         LetGo(gone), NoneNew(gone), OwnNames', NoneLost(gone), Emptied, Promised,
         InTransaction => ~Held(run.ver)'
  PROVE  Safe'
<1>1. Known' = Known \cup gone
  BY DEF Known, Stored
<1>2. ASSUME NEW v \in Versions, NEW k \in Kinds, rel'[v].pkg[k] # NoPackage
      PROVE  /\ rel'[v].pkg[k].sha # 0
             /\ store[rel'[v].pkg[k].file] = rel'[v].pkg[k].sha
             /\ rel'[v].pkg[k].file \notin Known'
  <2>1. PICK w \in Versions, j \in Kinds : rel'[v].pkg[k] = rel[w].pkg[j]
    BY <1>2 DEF NoneNew
  <2>. QED BY <1>1, <1>2, <2>1 DEF NoneNew, Safe, Bytes, Rows, NameOf
<1>3. Rows'
  BY <1>2 DEF Emptied, Rows, NameOf
<1>4. Whose'
  <2>. SUFFICES ASSUME NEW n \in Names, store[n] # 0, n \notin Known, n \notin gone
       PROVE  \E w \in Versions, j \in Kinds :
                  rel'[w].pkg[j] # NoPackage /\ rel'[w].pkg[j].file = n
    BY <1>1 DEF Whose, NameOf
  <2>1. PICK v \in Versions, k \in Kinds : rel[v].pkg[k] # NoPackage /\ NameOf(v, k) = n
    BY DEF Safe, Bytes, Whose
  <2>2. PICK w \in Versions, j \in Kinds : rel'[w].pkg[j] = rel[v].pkg[k]
    BY <2>1 DEF NoneLost
  <2>. QED BY <2>1, <2>2 DEF NameOf
<1>5. MirroredIsWhole'
  <2>1. ASSUME NEW v \in Versions, promise'[v] # <<>>
        PROVE  AsListed(rel'[v].pkg, promise'[v])
    <3>1. PICK w \in Versions : promise'[v] = promise[w] /\ rel'[v].pkg = rel[w].pkg
      BY <2>1 DEF Promised
    <3>. QED BY <2>1, <3>1 DEF Safe, Bytes, MirroredIsWhole
  <2>. QED BY <2>1 DEF MirroredIsWhole
<1>6. Work'
  <2>1. ASSUME NEW n \in run.written \cup Stored
        PROVE  n \notin loose' \cup forgotten'
    BY RunsNames DEF LetGo
  <2>. QED BY <2>1, WorkKept
<1>. QED BY <1>3, <1>4, <1>5, <1>6 DEF Safe, Bytes

\* A version that is in the transaction is not held, and somebody else's change to
\* another leaves it so.
LEMMA TransactionsVersion ==
  ASSUME Typed, Safe
  PROVE  InTransaction => run.ver \in Versions /\ ~Held(run.ver)
  BY DEF Typed, Shape, InTransaction, Safe, Work, Running

LEMMA AnnounceSafe ==
  ASSUME Typed, Safe, NEW v \in Versions, NEW s \in {"staged", "published"}, Announce(v, s)
  PROVE  Safe'
<1>1. /\ \A w \in Versions : w # v => rel'[w] = rel[w]
      /\ rel'[v].state = s /\ \A k \in Kinds : rel'[v].pkg[k] = NoPackage
  BY AnnounceRow
<1>2. ~Held(v) /\ ~Inserting(v) /\ UNCHANGED <<store, run, promise, loose, forgotten>>
  BY DEF Announce, Free
<1>3. promise[v] = <<>> /\ \A k \in Kinds : rel[v].pkg[k] = NoPackage
  BY <1>2 DEF Safe, Bytes, Rows
<1>4. \A w \in Versions, k \in Kinds : rel'[w].pkg[k] = rel[w].pkg[k]
  BY <1>1, <1>3
<1>5. OwnNames'
  <2>1. ASSUME NEW t \in Versions, NEW u \in Versions, NEW i \in Kinds, NEW j \in Kinds,
               rel'[t].pkg[i] # NoPackage, rel'[u].pkg[j] # NoPackage,
               rel'[t].pkg[i].file = rel'[u].pkg[j].file
        PROVE  t = u /\ i = j
    <3>1. rel'[t].pkg[i] = rel[t].pkg[i] /\ rel'[u].pkg[j] = rel[u].pkg[j]
      BY <1>4
    <3>. QED BY <2>1, <3>1, SameName
  <2>. QED BY <2>1 DEF OwnNames, NameOf
<1>6. Emptied
  BY <1>1, <1>2, <1>4 DEF Emptied, Safe, Bytes, Rows, Held
<1>7. Promised
  <2>1. ASSUME NEW w \in Versions, promise'[w] # <<>>
        PROVE  promise'[w] = promise[w] /\ rel'[w].pkg = rel[w].pkg
    BY <1>1, <1>2, <1>3, <2>1
  <2>. QED BY <2>1 DEF Promised
<1>10. LetGo({}) /\ NoneNew({}) /\ NoneLost({})
  BY <1>4 DEF LetGo, NoneNew, NoneLost
<1>8. InTransaction => ~Held(run.ver)'
  BY <1>1, <1>2, TransactionsVersion DEF InTransaction, Inserting, Held
<1>9. loose' = loose \cup {}
  BY <1>2
<1>. QED BY <1>2, <1>5, <1>6, <1>7, <1>8, <1>9, <1>10, RowsMove

LEMMA DropSafe ==
  ASSUME Typed, Safe, NEW v \in Versions, NEW k \in Kinds, Drop(v, k) PROVE Safe'
<1>1. /\ \A w \in Versions : rel'[w].state = rel[w].state /\ (w # v => rel'[w] = rel[w])
      /\ \A i \in Kinds : rel'[v].pkg[i] = IF i = k THEN NoPackage ELSE rel[v].pkg[i]
  BY DropRow
<1>2. /\ rel[v].pkg[k] # NoPackage /\ UNCHANGED <<store, run, forgotten>>
      /\ loose' = loose \cup {NameOf(v, k)}
  BY DEF Drop, Has, NameOf
<1>3. \A w \in Versions : promise'[w] = IF w = v THEN <<>> ELSE promise[w]
  BY DEF Drop, Typed, MirrorTypeOK
<1>4. ASSUME NEW w \in Versions, NEW i \in Kinds, rel'[w].pkg[i] # NoPackage
      PROVE  rel'[w].pkg[i] = rel[w].pkg[i] /\ ~(w = v /\ i = k)
  BY <1>1, <1>4
<1>5. ASSUME NEW w \in Versions, NEW i \in Kinds, rel'[w].pkg[i] # NoPackage
      PROVE  rel'[w].pkg[i].file \notin {NameOf(v, k)}
  BY <1>2, <1>4, <1>5 DEF Safe, Bytes, OwnNames, NameOf
<1>6. OwnNames'
  <2>1. ASSUME NEW t \in Versions, NEW u \in Versions, NEW i \in Kinds, NEW j \in Kinds,
               rel'[t].pkg[i] # NoPackage, rel'[u].pkg[j] # NoPackage,
               rel'[t].pkg[i].file = rel'[u].pkg[j].file
        PROVE  t = u /\ i = j
    <3>1. rel'[t].pkg[i] = rel[t].pkg[i] /\ rel'[u].pkg[j] = rel[u].pkg[j]
      BY <1>4, <2>1
    <3>. QED BY <2>1, <3>1, SameName
  <2>. QED BY <2>1 DEF OwnNames, NameOf
<1>7. \A w \in Versions, i \in Kinds : rel[w].pkg[i] # NoPackage =>
          NameOf(w, i) \in {NameOf(v, k)} \/ rel'[w].pkg[i] = rel[w].pkg[i]
  BY <1>1
<1>8. Emptied
  BY <1>1, <1>3 DEF Emptied, Safe, Bytes, Rows, Held
<1>9. Promised
  <2>1. ASSUME NEW w \in Versions, promise'[w] # <<>>
        PROVE  promise'[w] = promise[w] /\ rel'[w].pkg = rel[w].pkg
    BY <1>1, <1>3, <2>1
  <2>. QED BY <2>1 DEF Promised
<1>10. InTransaction => ~Held(run.ver)'
  BY <1>1, <1>2, TransactionsVersion DEF Held
<1>11. LetGo({NameOf(v, k)})
  BY <1>2 DEF LetGo
<1>12. NoneNew({NameOf(v, k)}) /\ NoneLost({NameOf(v, k)})
  BY <1>4, <1>5, <1>7 DEF NoneNew, NoneLost
<1>. QED BY <1>2, <1>6, <1>8, <1>9, <1>10, <1>11, <1>12, RowsMove

LEMMA RelabelSafe ==
  ASSUME Typed, Safe, NEW v \in Versions, NEW k \in Kinds, NEW j \in Kinds, Relabel(v, k, j)
  PROVE  Safe'
<1>1. /\ \A w \in Versions : rel'[w].state = rel[w].state /\ (w # v => rel'[w] = rel[w])
      /\ \A i \in Kinds : rel'[v].pkg[i] = IF i = k THEN NoPackage
                                           ELSE IF i = j THEN rel[v].pkg[k] ELSE rel[v].pkg[i]
      /\ k # j
  BY RelabelRow
<1>2. /\ rel[v].pkg[k] # NoPackage /\ rel[v].pkg[j] = NoPackage
      /\ UNCHANGED <<store, run, loose, forgotten>>
  BY DEF Relabel, Has
<1>3. \A w \in Versions : promise'[w] = IF w = v THEN <<>> ELSE promise[w]
  BY DEF Relabel, Typed, MirrorTypeOK
<1>4. ASSUME NEW w \in Versions, NEW i \in Kinds, rel'[w].pkg[i] # NoPackage
      PROVE  \/ w = v /\ i = j /\ rel'[w].pkg[i] = rel[v].pkg[k]
             \/ /\ ~(w = v /\ i \in {k, j}) /\ rel'[w].pkg[i] = rel[w].pkg[i]
  BY <1>1, <1>4
<1>5. \A w \in Versions, i \in Kinds : rel'[w].pkg[i] # NoPackage =>
          \E u \in Versions, c \in Kinds : rel'[w].pkg[i] = rel[u].pkg[c]
  BY <1>4
<1>6. OwnNames'
  <2>1. ASSUME NEW u \in Versions, NEW w \in Versions, NEW c \in Kinds, NEW i \in Kinds,
               rel'[u].pkg[c] # NoPackage, rel'[w].pkg[i] # NoPackage,
               rel'[u].pkg[c].file = rel'[w].pkg[i].file
        PROVE  u = w /\ c = i
    <3>0. /\ \/ u = v /\ c = j /\ rel'[u].pkg[c] = rel[v].pkg[k]
             \/ ~(u = v /\ c \in {k, j}) /\ rel'[u].pkg[c] = rel[u].pkg[c]
          /\ \/ w = v /\ i = j /\ rel'[w].pkg[i] = rel[v].pkg[k]
             \/ ~(w = v /\ i \in {k, j}) /\ rel'[w].pkg[i] = rel[w].pkg[i]
      BY <1>4, <2>1
    <3>1. CASE u = v /\ c = j /\ ~(w = v /\ i = j)
      <4>1. rel[v].pkg[k].file = rel[w].pkg[i].file /\ rel[w].pkg[i] # NoPackage
        BY <2>1, <3>0, <3>1
      <4>. QED BY <1>2, <3>0, <3>1, <4>1, SameName
    <3>2. CASE ~(u = v /\ c = j) /\ w = v /\ i = j
      <4>1. rel[v].pkg[k].file = rel[u].pkg[c].file /\ rel[u].pkg[c] # NoPackage
        BY <2>1, <3>0, <3>2
      <4>. QED BY <1>2, <3>0, <3>2, <4>1, SameName
    <3>3. CASE ~(u = v /\ c = j) /\ ~(w = v /\ i = j)
      <4>1. /\ rel[w].pkg[i].file = rel[u].pkg[c].file
            /\ rel[u].pkg[c] # NoPackage /\ rel[w].pkg[i] # NoPackage
        BY <2>1, <3>0, <3>3
      <4>. QED BY <4>1, SameName
    <3>. QED BY <3>1, <3>2, <3>3
  <2>. QED BY <2>1 DEF OwnNames, NameOf
<1>7. ASSUME NEW w \in Versions, NEW i \in Kinds, rel[w].pkg[i] # NoPackage
      PROVE  \E u \in Versions, c \in Kinds : rel'[u].pkg[c] = rel[w].pkg[i]
  <2>1. CASE w = v /\ i = k
    BY <1>1, <2>1
  <2>2. CASE ~(w = v /\ i = k)
    BY <1>1, <1>2, <1>7, <2>2
  <2>. QED BY <2>1, <2>2
<1>8. Emptied
  <2>1. ASSUME NEW w \in Versions, ~Held(w)'
        PROVE  promise'[w] = <<>> /\ \A i \in Kinds : rel'[w].pkg[i] = NoPackage
    <3>1. ~Held(w) /\ w # v
      BY <1>1, <1>2, <2>1 DEF Safe, Bytes, Rows, Held
    <3>. QED BY <1>1, <1>3, <3>1 DEF Safe, Bytes, Rows
  <2>. QED BY <2>1 DEF Emptied
<1>9. Promised
  <2>1. ASSUME NEW w \in Versions, promise'[w] # <<>>
        PROVE  promise'[w] = promise[w] /\ rel'[w].pkg = rel[w].pkg
    BY <1>1, <1>3, <2>1
  <2>. QED BY <2>1 DEF Promised
<1>10. InTransaction => ~Held(run.ver)'
  BY <1>1, <1>2, TransactionsVersion DEF Held
<1>11. loose' = loose \cup {}
  BY <1>2
<1>12. LetGo({}) /\ NoneNew({}) /\ NoneLost({})
  BY <1>5, <1>7 DEF LetGo, NoneNew, NoneLost
<1>. QED BY <1>2, <1>6, <1>8, <1>9, <1>10, <1>11, <1>12, RowsMove

LEMMA RenameSafe ==
  ASSUME Typed, Safe, NEW v \in Versions, NEW w \in Versions, Rename(v, w) PROVE Safe'
<1>1. /\ v # w
      /\ \A u \in Versions :
             rel'[u] = IF u = v THEN NoRelease ELSE IF u = w THEN rel[v] ELSE rel[u]
      /\ \A u \in Versions :
             promise'[u] = IF u = v THEN <<>> ELSE IF u = w THEN promise[v] ELSE promise[u]
  BY RenameRow
<1>2. /\ Held(v) /\ ~Held(w) /\ ~Inserting(w)
      /\ UNCHANGED <<store, run, loose, forgotten>>
  BY DEF Rename, Free
<1>3. NoRelease.state = "none" /\ \A k \in Kinds : NoRelease.pkg[k] = NoPackage
  BY DEF NoRelease
<1>4. \A k \in Kinds : rel[w].pkg[k] = NoPackage
  BY <1>2 DEF Safe, Bytes, Rows
<1>5. ASSUME NEW u \in Versions, NEW k \in Kinds, rel'[u].pkg[k] # NoPackage
      PROVE  \/ u = w /\ rel'[u].pkg[k] = rel[v].pkg[k]
             \/ u \notin {v, w} /\ rel'[u].pkg[k] = rel[u].pkg[k]
  BY <1>1, <1>3, <1>5
<1>6. \A u \in Versions, k \in Kinds : rel'[u].pkg[k] # NoPackage =>
          \E t \in Versions, j \in Kinds : rel'[u].pkg[k] = rel[t].pkg[j]
  BY <1>5
<1>7. OwnNames'
  <2>1. ASSUME NEW t \in Versions, NEW u \in Versions, NEW k \in Kinds, NEW j \in Kinds,
               rel'[t].pkg[k] # NoPackage, rel'[u].pkg[j] # NoPackage,
               rel'[t].pkg[k].file = rel'[u].pkg[j].file
        PROVE  t = u /\ k = j
    <3>0. /\ \/ t = w /\ rel'[t].pkg[k] = rel[v].pkg[k]
             \/ t \notin {v, w} /\ rel'[t].pkg[k] = rel[t].pkg[k]
          /\ \/ u = w /\ rel'[u].pkg[j] = rel[v].pkg[j]
             \/ u \notin {v, w} /\ rel'[u].pkg[j] = rel[u].pkg[j]
      BY <1>5, <2>1
    <3>1. CASE t = w /\ u = w
      <4>1. /\ rel[v].pkg[k].file = rel[v].pkg[j].file
            /\ rel[v].pkg[k] # NoPackage /\ rel[v].pkg[j] # NoPackage
        BY <2>1, <3>0, <3>1
      <4>. QED BY <3>1, <4>1, SameName
    <3>2. CASE t = w /\ u # w
      <4>1. /\ rel[v].pkg[k].file = rel[u].pkg[j].file
            /\ rel[v].pkg[k] # NoPackage /\ rel[u].pkg[j] # NoPackage
        BY <2>1, <3>0, <3>2
      <4>. QED BY <3>0, <3>2, <4>1, SameName
    <3>3. CASE t # w /\ u = w
      <4>1. /\ rel[v].pkg[j].file = rel[t].pkg[k].file
            /\ rel[v].pkg[j] # NoPackage /\ rel[t].pkg[k] # NoPackage
        BY <2>1, <3>0, <3>3
      <4>. QED BY <3>0, <3>3, <4>1, SameName
    <3>4. CASE t # w /\ u # w
      <4>1. /\ rel[t].pkg[k].file = rel[u].pkg[j].file
            /\ rel[t].pkg[k] # NoPackage /\ rel[u].pkg[j] # NoPackage
        BY <2>1, <3>0, <3>4
      <4>. QED BY <4>1, SameName
    <3>. QED BY <3>1, <3>2, <3>3, <3>4
  <2>. QED BY <2>1 DEF OwnNames, NameOf
<1>8. ASSUME NEW u \in Versions, NEW k \in Kinds, rel[u].pkg[k] # NoPackage
      PROVE  \E t \in Versions, j \in Kinds : rel'[t].pkg[j] = rel[u].pkg[k]
  <2>1. CASE u = v
    BY <1>1, <2>1
  <2>2. CASE u # v
    BY <1>1, <1>4, <1>8, <2>2
  <2>. QED BY <2>1, <2>2
<1>9. Emptied
  <2>1. ASSUME NEW u \in Versions, ~Held(u)'
        PROVE  promise'[u] = <<>> /\ \A k \in Kinds : rel'[u].pkg[k] = NoPackage
    <3>1. CASE u = v
      BY <1>1, <1>3, <3>1
    <3>2. CASE u # v
      <4>1. u # w
        BY <1>1, <1>2, <2>1, <3>2 DEF Held
      <4>. QED BY <1>1, <2>1, <3>2, <4>1 DEF Safe, Bytes, Rows, Held
    <3>. QED BY <3>1, <3>2
  <2>. QED BY <2>1 DEF Emptied
<1>10. Promised
  BY <1>1 DEF Promised
<1>11. InTransaction => ~Held(run.ver)'
  <2>1. InTransaction => run.ver \in Versions /\ run.ver \notin {v, w} /\ ~Held(run.ver)
    BY <1>2, TransactionsVersion DEF InTransaction, Inserting
  <2>. QED BY <1>1, <1>2, <2>1 DEF Held
<1>12. loose' = loose \cup {}
  BY <1>2
<1>13. LetGo({}) /\ NoneNew({}) /\ NoneLost({})
  BY <1>6, <1>8 DEF LetGo, NoneNew, NoneLost
<1>. QED BY <1>2, <1>7, <1>9, <1>10, <1>11, <1>12, <1>13, RowsMove

LEMMA RemoveSafe == ASSUME Typed, Safe, NEW v \in Versions, Remove(v) PROVE Safe'
<1>1. \A w \in Versions :
         /\ rel'[w] = IF w = v THEN NoRelease ELSE rel[w]
         /\ promise'[w] = IF w = v THEN <<>> ELSE promise[w]
  BY DEF Remove, Typed, MirrorTypeOK
<1>2. UNCHANGED <<run, store, forgotten>> /\ loose' = loose \cup Carried(v)
  BY DEF Remove
<1>3. \A n : n \in Carried(v) <=> \E k \in Kinds : rel[v].pkg[k] # NoPackage /\ n = NameOf(v, k)
  BY DEF Carried, Has, NameOf
<1>4. NoRelease.state = "none" /\ \A k \in Kinds : NoRelease.pkg[k] = NoPackage
  BY DEF NoRelease
<1>5. ASSUME NEW w \in Versions, NEW k \in Kinds, rel'[w].pkg[k] # NoPackage
      PROVE  w # v /\ rel'[w].pkg[k] = rel[w].pkg[k]
  BY <1>1, <1>4, <1>5
<1>6. ASSUME NEW w \in Versions, NEW k \in Kinds, rel'[w].pkg[k] # NoPackage
      PROVE  rel'[w].pkg[k].file \notin Carried(v)
  BY <1>3, <1>5, <1>6 DEF Safe, Bytes, OwnNames, NameOf
<1>7. OwnNames'
  <2>1. ASSUME NEW t \in Versions, NEW u \in Versions, NEW i \in Kinds, NEW j \in Kinds,
               rel'[t].pkg[i] # NoPackage, rel'[u].pkg[j] # NoPackage,
               rel'[t].pkg[i].file = rel'[u].pkg[j].file
        PROVE  t = u /\ i = j
    <3>1. rel'[t].pkg[i] = rel[t].pkg[i] /\ rel'[u].pkg[j] = rel[u].pkg[j]
      BY <1>5, <2>1
    <3>. QED BY <2>1, <3>1, SameName
  <2>. QED BY <2>1 DEF OwnNames, NameOf
<1>8. \A w \in Versions, k \in Kinds : rel[w].pkg[k] # NoPackage =>
          NameOf(w, k) \in Carried(v) \/ rel'[w].pkg[k] = rel[w].pkg[k]
  BY <1>1, <1>3
<1>9. Emptied
  BY <1>1, <1>4 DEF Emptied, Safe, Bytes, Rows, Held
<1>10. Promised
  BY <1>1 DEF Promised
<1>11. InTransaction => ~Held(run.ver)'
  BY <1>1, <1>2, <1>4, TransactionsVersion DEF Held
<1>12. LetGo(Carried(v)) /\ NoneNew(Carried(v)) /\ NoneLost(Carried(v))
  BY <1>3, <1>5, <1>6, <1>8 DEF LetGo, NoneNew, NoneLost
<1>. QED BY <1>2, <1>7, <1>9, <1>10, <1>11, <1>12, RowsMove

\* Published or not, the packages are the same.
LEMMA DecideSafe == ASSUME Typed, Safe, NEW v \in Versions, Decide(v) PROVE Safe'
<1>1. UNCHANGED <<run, store, promise, loose, forgotten>> /\ Held(v)
  BY DEF Decide
<1>2. \A w \in Versions : rel'[w].pkg = rel[w].pkg /\ (Held(w)' <=> Held(w))
  BY <1>1, DecideRow DEF Held
<1>3. Known' = Known
  BY <1>1 DEF Known, Stored
<1>4. Bytes'
  BY <1>1, <1>2, <1>3, HandedOn DEF Safe
<1>5. InTransaction => ~Held(run.ver)'
  BY <1>1, <1>2, TransactionsVersion
<1>6. Work'
  BY <1>1, <1>5, RunsNames, WorkKept
<1>. QED BY <1>4, <1>6 DEF Safe

LEMMA UntouchedSafe ==
  ASSUME Safe, UNCHANGED <<rel, store, run, promise, loose, forgotten>> PROVE Safe'
<1>1. Known' = Known /\ \A v \in Versions : rel'[v].pkg = rel[v].pkg /\ (Held(v)' <=> Held(v))
  BY DEF Known, Stored, Held
<1>2. Bytes'
  BY <1>1, HandedOn DEF Safe
<1>3. InTransaction => ~Held(run.ver)'
  BY DEF Safe, Work, Running, Held
<1>4. Work'
  BY <1>3, RunsNames, WorkKept
<1>. QED BY <1>2, <1>4 DEF Safe

-----------------------------------------------------------------------------------
(* Every step.                                                                     *)

LEMMA MirrorStepSafe ==
  ASSUME Typed, Safe, MirrorStep \/ SaveFails \/ MirrorDies PROVE Safe'
<1>1. ASSUME NEW v \in Versions, Skip(v) \/ Refuse(v) PROVE Safe'
  BY <1>1, GoesOnSafe DEF Skip, Refuse, At, AfterFailure
<1>. QED BY <1>1, BeginsSafe, FetchSafe, CreateReleaseSafe, StorePackageSafe,
            SavePackageSafe, RolledBackSafe, CommitReleaseSafe, UndoSafe,
            MirrorDiesSafe DEF MirrorStep

LEMMA SafeKept == Typed /\ Safe /\ [Next]_vars => Safe'
<1>. SUFFICES ASSUME Typed, Safe, [Next]_vars PROVE Safe'
  OBVIOUS
<1>1. ASSUME NEW v \in Versions, Administer(v) PROVE Safe'
  <2>1. ASSUME NEW p \in LocalPackages, Replace(v, p[1], p[2]) PROVE Safe'
    BY <2>1, ReplaceSafe
  <2>2. ASSUME NEW p \in LocalPackages, NEW s \in {"staged", "published"},
               Upload(v, p[1], p[2], s) PROVE Safe'
    BY <2>2, UploadSafe
  <2>3. ASSUME NEW k \in Kinds, Drop(v, k) \/ \E j \in Kinds : Relabel(v, k, j) PROVE Safe'
    BY <2>3, DropSafe, RelabelSafe
  <2>4. ASSUME NEW w \in Versions, Rename(v, w) PROVE Safe'
    BY <2>4, RenameSafe
  <2>. QED BY <1>1, <2>1, <2>2, <2>3, <2>4, AnnounceSafe, DecideSafe, RemoveSafe
           DEF Administer
<1>2. ASSUME NEW v \in Versions, NEW e \in Entries, Republish(v, e) PROVE Safe'
  BY <1>2, UntouchedSafe DEF Republish
<1>3. CASE Garble
  BY <1>3, UntouchedSafe DEF Garble
<1>4. CASE MirrorNext
  BY <1>1, <1>2, <1>3, <1>4, MirrorStepSafe DEF MirrorNext
<1>5. ASSUME NEW d \in Devices, MachineStep(d) PROVE Safe'
  BY <1>5, MachineLeaves, UntouchedSafe DEF mirrorVars
<1>6. ASSUME NEW d \in Devices, NEW v \in Versions \cup {Nothing}, SetPin(d, v) PROVE Safe'
  BY <1>6, UntouchedSafe DEF SetPin
<1>7. CASE UNCHANGED vars
  BY <1>7, UntouchedSafe DEF vars, mirrorVars
<1>. QED BY <1>4, <1>5, <1>6, <1>7 DEF Next

LEMMA SafeAlways == Spec => [](Typed /\ FeedTyped /\ Safe)
<1>1. Init => Typed /\ FeedTyped /\ Safe
  BY TypesInit, SafeInit
<1>2. Typed /\ FeedTyped /\ Safe /\ [Next]_vars => (Typed /\ FeedTyped /\ Safe)'
  BY TypesKept, SafeKept
<1>. QED BY <1>1, <1>2, PTL DEF Spec

\* A package row leads to bytes that hash to what it says, through rollbacks, cleanup,
\* reused names, dead workers and whatever is uploaded meanwhile.
THEOREM BytesSafe == Spec => []BytesAreStated
<1>1. Safe => BytesAreStated
  BY DEF Safe, Bytes, Rows, NameOf, BytesAreStated, Has
<1>. QED BY <1>1, SafeAlways, PTL

\* A release the mirror stored has all the index listed for it and nothing else, until
\* somebody edits it.
THEOREM WholeOrNothing == Spec => []MirroredIsWhole
<1>1. Safe => MirroredIsWhole
  BY DEF Safe, Bytes
<1>. QED BY <1>1, SafeAlways, PTL

\* No step of a run leaves bytes that are nobody's, except under the one name whose row
\* was being saved when it failed.
THEOREM CleanupSafe == Spec => []CleanupIsComplete
<1>1. Typed /\ Safe => CleanupIsComplete
  <2>. SUFFICES ASSUME Typed, Safe, NEW n \in Names, store[n] # 0
       PROVE  Accounted(n) \/ n \in forgotten
    BY DEF CleanupIsComplete
  <2>1. CASE n \in Known
    BY <2>1 DEF Known, Accounted
  <2>2. CASE n \notin Known
    <3>1. PICK v \in Versions, k \in Kinds : rel[v].pkg[k] # NoPackage /\ NameOf(v, k) = n
      BY <2>2 DEF Safe, Bytes, Whose
    <3>2. n \in Carried(v)
      BY <3>1 DEF Carried, Has, NameOf
    <3>. QED BY <3>2 DEF Accounted
  <2>. QED BY <2>1, <2>2
<1>. QED BY <1>1, SafeAlways, PTL

-----------------------------------------------------------------------------------
(* The fleet while a run goes on.                                                  *)

\* A step of a run leaves every release that is held, and the bytes of its packages, as
\* they are; what it adds is staged.
LEMMA RunLeavesReleases ==
  ASSUME Typed, Safe, MirrorStep \/ SaveFails \/ MirrorDies
  PROVE  /\ \A v \in Versions : Held(v) => rel'[v] = rel[v]
         /\ Published' = Published
         /\ \A v \in Versions, k \in Kinds : rel[v].pkg[k] # NoPackage =>
                store'[NameOf(v, k)] = store[NameOf(v, k)]
<1>. DEFINE Stays ==
         /\ \A v \in Versions : Held(v) => rel'[v] = rel[v]
         /\ Published' = Published
         /\ \A v \in Versions, k \in Kinds : rel[v].pkg[k] # NoPackage =>
                store'[NameOf(v, k)] = store[NameOf(v, k)]
<1>1. UNCHANGED <<rel, store>> => Stays
  BY DEF Published
<1>2. CASE CommitRelease
  <2>1. run.ver \in Versions /\ ~Held(run.ver)
    BY <1>2 DEF CommitRelease, Typed, Shape, Safe, Work, Running, InTransaction
  <2>2. \A v \in Versions : rel'[v] = IF v = run.ver THEN Mirrored ELSE rel[v]
    BY <1>2, <2>1 DEF CommitRelease, Typed, MirrorTypeOK
  <2>3. Mirrored.state = "staged" /\ rel[run.ver].state = "none"
    BY <2>1 DEF Mirrored, Held
  <2>4. Published' = Published
    BY <2>2, <2>3 DEF Published
  <2>. QED BY <1>2, <2>1, <2>2, <2>4 DEF CommitRelease
<1>3. CASE StorePackage
  <2>1. UNCHANGED rel /\ run.ver \in Versions /\ run.pc = "saving" /\ run.staged # <<>>
        /\ run.staged \in Seq(Listing)
    BY <1>3 DEF StorePackage, Typed, MirrorTypeOK, Shape, Run
  <2>2. Head(run.staged) \in Listing
    BY <2>1, FirstStaged
  <2>3. Head(run.staged).kind \in Kinds
    BY <2>2 DEF Listing
  <2>4. PICK a \in Available(run.ver, Head(run.staged).kind) :
           store' = [store EXCEPT ![<<run.ver, Head(run.staged).kind, a>>]
                                     = Head(run.staged).bytes]
    BY <1>3 DEF StorePackage
  <2>5. \A w \in Versions, j \in Kinds : rel[w].pkg[j] # NoPackage =>
            NameOf(w, j) # <<run.ver, Head(run.staged).kind, a>>
    BY <2>1, <2>3, NamesAreFresh
  <2>6. \A m : m # <<run.ver, Head(run.staged).kind, a>> /\ m \in Names => store'[m] = store[m]
    BY <2>4 DEF Typed, MirrorTypeOK
  <2>7. \A w \in Versions, j \in Kinds : rel[w].pkg[j] # NoPackage => NameOf(w, j) \in Names
    BY DEF NameOf, Typed, Shape
  <2>. QED BY <2>1, <2>5, <2>6, <2>7 DEF Published
<1>4. CASE Undo
  <2>1. UNCHANGED rel
    BY <1>4 DEF Undo
  <2>2. \A n \in Names : n \notin run.written => store'[n] = store[n]
    BY <1>4 DEF Undo, Remembered
  <2>3. \A w \in Versions, j \in Kinds : rel[w].pkg[j] # NoPackage =>
            NameOf(w, j) \in Names /\ NameOf(w, j) \notin run.written
    <3>1. \A w \in Versions, j \in Kinds : rel[w].pkg[j] # NoPackage => NameOf(w, j) \in Names
      BY DEF NameOf, Typed, Shape
    <3>. QED BY <3>1 DEF Safe, Bytes, Rows, Known
  <2>. QED BY <2>1, <2>2, <2>3 DEF Published
<1>5. ASSUME ~CommitRelease, ~StorePackage, ~Undo PROVE UNCHANGED <<rel, store>>
  BY <1>5 DEF MirrorStep, ReadIndex, EndRun, Skip, Fetch, Refuse, CreateRelease,
     SavePackage, SaveRefused, SaveFails, MirrorDies
<1>. QED BY <1>1, <1>2, <1>3, <1>4, <1>5

\* No step of a run changes what a machine is offered or what it would be served.
THEOREM MirrorIsApart == Spec => MirrorMovesNoMachine
<1>. DEFINE Apart == run' # run =>
          \A d \in Devices :
              /\ OfferFor(d)' = OfferFor(d)
              /\ LET v == OfferedRelease(d) IN
                 v # Nothing /\ Has(v, Tier[d]) =>
                     LET n == rel[v].pkg[Tier[d]].file IN
                     store'[n] = store[n]
<1>1. ASSUME Typed, FeedTyped, Safe, [Next]_vars PROVE [Apart]_vars
  <2>1. ASSUME MirrorStep \/ SaveFails \/ MirrorDies, UNCHANGED pin, NEW d \in Devices
        PROVE  /\ OfferFor(d)' = OfferFor(d)
               /\ LET v == OfferedRelease(d) IN
                  v # Nothing /\ rel[v].pkg[Tier[d]] # NoPackage =>
                      store'[NameOf(v, Tier[d])] = store[NameOf(v, Tier[d])]
    <3>1. OfferedRelease(d) \in Published \cup {Nothing} /\ Tier[d] \in Kinds
      BY <1>1, OfferedType, FeedAssumption DEF FeedAssumption
    <3>2. /\ \A v \in Versions : Held(v) => rel'[v] = rel[v]
          /\ Published' = Published
          /\ \A v \in Versions, k \in Kinds : rel[v].pkg[k] # NoPackage =>
                 store'[NameOf(v, k)] = store[NameOf(v, k)]
      BY <1>1, <2>1, RunLeavesReleases
    <3>3. OfferedRelease(d)' = OfferedRelease(d)
      BY <2>1, <3>2 DEF OfferedRelease
    <3>4. OfferedRelease(d) # Nothing => rel'[OfferedRelease(d)] = rel[OfferedRelease(d)]
      BY <3>1, <3>2 DEF Published, Held
    <3>5. OfferFor(d)' = OfferFor(d)
      BY <2>1, <3>3, <3>4 DEF OfferFor
    <3>6. OfferedRelease(d) # Nothing => OfferedRelease(d) \in Versions
      BY <3>1 DEF Published
    <3>. QED BY <3>1, <3>2, <3>5, <3>6
  <2>2. CASE UNCHANGED run
    BY <2>2
  <2>3. \/ UNCHANGED run
        \/ (MirrorStep \/ SaveFails \/ MirrorDies) /\ UNCHANGED pin
    <3>1. CASE \E v \in Versions : Administer(v)
      BY <3>1 DEF Administer, Upload, Announce, Replace, Drop, Relabel, Rename, Decide, Remove
    <3>2. CASE Garble \/ \E v \in Versions, e \in Entries : Republish(v, e)
      BY <3>2 DEF Garble, Republish
    <3>3. CASE (MirrorStep \/ SaveFails \/ MirrorDies) /\ UNCHANGED feedVars
      BY <3>3 DEF feedVars
    <3>4. CASE \E d \in Devices : MachineStep(d)
      BY <3>4 DEF MachineStep, Ask, NotOffered, Download, mirrorVars
    <3>5. CASE \E d \in Devices, v \in Versions \cup {Nothing} : SetPin(d, v)
      BY <3>5 DEF SetPin
    <3>6. CASE UNCHANGED vars
      BY <3>6 DEF vars, mirrorVars
    <3>. QED BY <1>1, <3>1, <3>2, <3>3, <3>4, <3>5, <3>6 DEF Next, MirrorNext
  <2>. QED BY <2>1, <2>2, <2>3 DEF NameOf, Has
<1>. QED BY <1>1, SafeAlways, PTL DEF Spec, MirrorMovesNoMachine

-----------------------------------------------------------------------------------
(* Feed implements Shelf. Where the bytes are is settled by now, so a release as   *)
(* Shelf sees it can be read off its rows, and of all the steps of the mirror only *)
(* the commit shows.                                                               *)

\* A release as its rows tell it.
Plain(v) == [state |-> rel[v].state, build |-> [k \in Kinds |-> rel[v].pkg[k].sha]]

\* Each package row leads to the bytes it states, so this is the release a download sees.
LEMMA SeenPlain == ASSUME Safe, NEW v \in Versions PROVE ReleaseOf(v) = Plain(v)
<1>1. ASSUME NEW k \in Kinds PROVE BuildOf(v, k) = rel[v].pkg[k].sha
  BY DEF Safe, Bytes, Rows, NameOf, BuildOf, Has, NoPackage
<1>. QED BY <1>1 DEF ReleaseOf, Plain

LEMMA SeenPlainNext == ASSUME Safe', NEW v \in Versions PROVE ReleaseOf(v)' = Plain(v)'
<1>1. ASSUME NEW k \in Kinds PROVE BuildOf(v, k)' = rel'[v].pkg[k].sha
  BY DEF Safe, Bytes, Rows, NameOf, BuildOf, Has, NoPackage
<1>. QED BY <1>1 DEF ReleaseOf, Plain

\* The releases, as Shelf sees them.
Shelved == [v \in Versions |-> ReleaseOf(v)]

\* A step that writes one release changes one of Shelf's, or none.
LEMMA OneRelease ==
  ASSUME Safe, Safe', NEW v \in Versions, \A w \in Versions : w # v => rel'[w] = rel[w]
  PROVE  /\ Shelved' = [Shelved EXCEPT ![v] = Plain(v)']
         /\ Shelved[v] = Plain(v)
         /\ Shelved'[v] = Shelved[v] => Shelved' = Shelved
<1>1. \A w \in Versions : w # v => ReleaseOf(w)' = ReleaseOf(w)
  BY SeenPlain, SeenPlainNext DEF Plain
<1>2. ReleaseOf(v)' = Plain(v)' /\ ReleaseOf(v) = Plain(v)
  BY SeenPlain, SeenPlainNext
<1>. QED BY <1>1, <1>2 DEF Shelved

\* What a machine is told differs from what it runs, as long as it acts on it.
Asked == \A d \in Devices : offer[d] # NoOffer => offer[d].ver # running[d].ver

LEMMA AskedKept == FeedTyped /\ Asked /\ [Next]_vars => Asked'
<1>. SUFFICES ASSUME FeedTyped, Asked, [Next]_vars PROVE Asked'
  OBVIOUS
<1>1. ASSUME NEW d \in Devices, Ask(d) PROVE Asked'
  BY <1>1 DEF Ask, Asked, FeedTyped
<1>2. ASSUME NEW d \in Devices, NotOffered(d) \/ Download(d) PROVE Asked'
  <2>1. /\ offer' = [offer EXCEPT ![d] = NoOffer]
        /\ \A e \in Devices : e # d => running'[e] = running[e]
    BY <1>2 DEF NotOffered, Download, FeedTyped
  <2>. QED BY <2>1 DEF Asked, FeedTyped
<1>3. CASE UNCHANGED <<offer, running>>
  BY <1>3 DEF Asked
<1>. QED BY <1>1, <1>2, <1>3 DEF Next, MachineStep, SetPin, feedVars, vars

Strong == Typed /\ FeedTyped /\ Safe /\ Asked

LEMMA StrongAlways == Spec => []Strong
<1>1. Init => Asked
  BY DEF Init, Asked
<1>. QED BY <1>1, AskedKept, SafeAlways, PTL DEF Spec, Strong

-----------------------------------------------------------------------------------
(* Step by step.                                                                   *)

\* The steps that write no release and install nothing.
LEMMA NoReleaseStep ==
  ASSUME Strong, Strong', UNCHANGED <<rel, pin, running, edits>>
  PROVE  UNCHANGED Promise!vars
<1>1. \A v \in Versions : ReleaseOf(v)' = ReleaseOf(v)
  BY SeenPlain, SeenPlainNext DEF Strong, Plain
<1>. QED BY <1>1 DEF Promise!vars

\* What an entry states of a kind it lists is what one of its packages states of it.
LEMMA StatedIs ==
  ASSUME NEW entry, NEW k \in Kinds
  PROVE  /\ (\E j \in 1..Len(entry) : entry[j].kind = k) =>
                \E i \in 1..Len(entry) : /\ entry[i].kind = k
                                         /\ Promise!Stated(entry)[k] = entry[i].sha
         /\ ~(\E j \in 1..Len(entry) : entry[j].kind = k) => Promise!Stated(entry)[k] = 0
<1>. DEFINE i == CHOOSE j \in 1..Len(entry) : entry[j].kind = k
<1>1. CASE \E j \in 1..Len(entry) : entry[j].kind = k
  <2>1. i \in 1..Len(entry) /\ entry[i].kind = k
    BY <1>1
  <2>2. Promise!Stated(entry)[k] = entry[i].sha
    BY <1>1 DEF Promise!Stated
  <2>. HIDE DEF i
  <2>. QED BY <1>1, <2>1, <2>2
<1>2. CASE ~\E j \in 1..Len(entry) : entry[j].kind = k
  BY <1>2 DEF Promise!Stated
<1>. QED BY <1>1, <1>2

LEMMA CommitArrives ==
  ASSUME Strong, Strong', CommitRelease, UNCHANGED <<pin, running>>
  PROVE  [Promise!Next]_(Promise!vars)
<1>0. run.ver \in Versions /\ run \in Run
  BY DEF CommitRelease, Strong, Typed, MirrorTypeOK, Shape
<1>. PICK v \in Versions : v = run.ver
  BY <1>0
<1>. PICK entry : entry = run.index[v]
  OBVIOUS
<1>1. /\ run.pc = "saving" /\ run.staged = <<>> /\ run \in Run
      /\ ~Held(v) /\ entry # Unlisted
  BY DEF CommitRelease, Strong, Typed, MirrorTypeOK, Shape, InTransaction, Safe, Work, Running
<1>2. entry \in Entries /\ entry \in Seq(Listing)
  BY <1>1 DEF Run
<1>3. \A w \in Versions : rel'[w] = IF w = v THEN Mirrored ELSE rel[w]
  BY <1>1 DEF CommitRelease, Strong, Typed, MirrorTypeOK
<1>4. /\ Shelved' = [Shelved EXCEPT ![v] = Plain(v)'] /\ Shelved[v] = Plain(v)
      /\ Shelved'[v] = Shelved[v] => Shelved' = Shelved
  BY <1>1, <1>3, OneRelease DEF Strong
<1>5. /\ entry # <<>>
      /\ \A i \in 1..Len(entry) : /\ run.draft[entry[i].kind] # NoPackage
                                  /\ run.draft[entry[i].kind].sha = entry[i].sha
      /\ \A k \in Kinds : run.draft[k] # NoPackage => \E i \in 1..Len(entry) : entry[i].kind = k
  <2>1. \A j : j \notin 1..Len(run.staged)
    BY <1>1
  <2>2. Follows(entry, run.staged, run.draft)
    BY <1>1 DEF Strong, Safe, Work, Following
  <2>. QED BY <2>1, <2>2 DEF Follows
<1>6. \A i \in 1..Len(entry) : entry[i].kind \in Kinds
  <2>1. \A i \in 1..Len(entry) : entry[i] \in Listing
    BY <1>2, ElementOfSeq
  <2>. QED BY <2>1 DEF Listing
<1>7. \A k \in Kinds : run.draft[k] # NoPackage => run.draft[k].sha # 0
  BY <1>1 DEF Strong, Safe, Work, Drafts, InTransaction
<1>8. \A i \in 1..Len(entry) : entry[i].sha # 0
  BY SMTT(30), <1>5, <1>6, <1>7
<1>9. Plain(v)' = [state |-> "staged", build |-> Promise!Stated(entry)]
  <2>1. ASSUME NEW k \in Kinds PROVE run.draft[k].sha = Promise!Stated(entry)[k]
    <3>1. CASE \E j \in 1..Len(entry) : entry[j].kind = k
      <4>1. PICK i \in 1..Len(entry) : /\ entry[i].kind = k
                                       /\ Promise!Stated(entry)[k] = entry[i].sha
        BY <3>1, StatedIs
      <4>. QED BY <1>5, <4>1
    <3>2. CASE ~\E j \in 1..Len(entry) : entry[j].kind = k
      <4>1. run.draft[k] = NoPackage
        BY <1>5, <3>2
      <4>2. Promise!Stated(entry)[k] = 0
        BY <3>2, StatedIs
      <4>. QED BY <4>1, <4>2 DEF NoPackage
    <3>. QED BY <3>1, <3>2
  <2>2. Promise!Stated(entry) = [k \in Kinds |-> Promise!Stated(entry)[k]]
    BY DEF Promise!Stated
  <2>3. rel'[v].state = "staged" /\ rel'[v].pkg = run.draft
    BY <1>1, <1>3 DEF Mirrored
  <2>. QED BY <2>1, <2>2, <2>3 DEF Plain
<1>12. UNCHANGED <<pin, running, edits>>
  BY DEF CommitRelease
<1>10. ~Promise!Held(v)
  BY <1>1, <1>4 DEF Promise!Held, Shelved, Held, Plain
<1>11. Promise!Arrive(v)
  <2>1. Shelved' = [Shelved EXCEPT ![v] = [state |-> "staged", build |-> Promise!Stated(entry)]]
    BY <1>4, <1>9
  <2>2. \E e \in Entries :
           /\ e # <<>> /\ \A i \in 1..Len(e) : e[i].sha # 0
           /\ Shelved' = [Shelved EXCEPT ![v] = [state |-> "staged", build |-> Promise!Stated(e)]]
    BY <1>2, <1>5, <1>8, <2>1
  <2>. QED BY <1>10, <1>12, <2>2 DEF Promise!Arrive, Shelved
<1>. QED BY <1>1, <1>4, <1>11 DEF Promise!Next, Promise!vars, Promise!Versions, Versions, Shelved

\* A release as its rows tell it is one Shelf can have.
LEMMA PlainIsRelease ==
  ASSUME Typed', NEW v \in Versions PROVE Plain(v)' \in Promise!Release
<1>1. /\ rel'[v].state \in {"none", "staged", "published"}
      /\ \A k \in Kinds : rel'[v].pkg[k].sha \in 0..MaxBuild
  BY DEF Typed, MirrorTypeOK, Release, Package
<1>2. [k \in Kinds |-> rel'[v].pkg[k].sha] \in [Kinds -> 0..MaxBuild]
  BY <1>1
<1>. QED BY <1>1, <1>2 DEF Plain, Promise!Release

\* What an administrator does to one release, Shelf allows.
LEMMA RestRewrites ==
  ASSUME Strong, Strong', NEW v \in Versions, Administer(v),
         ~\E w \in Versions : Rename(v, w), UNCHANGED <<pin, running>>
  PROVE  [Promise!Next]_(Promise!vars)
<1>1. Edit /\ \A w \in Versions : w # v => rel'[w] = rel[w]
  BY DEF Administer, Upload, Announce, Replace, Drop, Relabel, Decide, Remove, Strong,
         Typed, MirrorTypeOK
<1>2. /\ Shelved' = [Shelved EXCEPT ![v] = Plain(v)']
      /\ \A w \in Versions : Shelved[w] = ReleaseOf(w)
  BY <1>1, OneRelease DEF Strong, Shelved
<1>3. Shelved'[v] = Plain(v)'
  BY <1>2 DEF Shelved
<1>4. Shelved'[v] \in Promise!Release
  BY <1>3, PlainIsRelease DEF Strong
<1>5. Promise!Rewrite(v)
  BY <1>1, <1>2, <1>3, <1>4 DEF Promise!Rewrite, Shelved, Edit
<1>. QED BY <1>5 DEF Promise!Next, Promise!Versions, Versions

LEMMA RenameRenames ==
  ASSUME Strong, Strong', NEW v \in Versions, NEW w \in Versions, Rename(v, w),
         UNCHANGED <<pin, running>>
  PROVE  [Promise!Next]_(Promise!vars)
<1>1. /\ v # w
      /\ \A u \in Versions :
             rel'[u] = IF u = v THEN NoRelease ELSE IF u = w THEN rel[v] ELSE rel[u]
  BY RenameRow DEF Strong
<1>2. Held(v) /\ ~Held(w) /\ edits' = edits + 1
  BY DEF Rename, Free, Edit
<1>3. ReleaseOf(w)' = ReleaseOf(v)
  BY <1>1, SeenPlain, SeenPlainNext DEF Strong, Plain
<1>4. ReleaseOf(v)' = Promise!Absent
  BY <1>1, SeenPlainNext DEF Strong, Plain, NoRelease, NoPackage, Promise!Absent
<1>5. \A u \in Versions : u \notin {v, w} => ReleaseOf(u)' = ReleaseOf(u)
  BY SMTT(30), <1>1, SeenPlain, SeenPlainNext DEF Strong, Plain
<1>6. Shelved' = [Shelved EXCEPT ![w] = Shelved[v], ![v] = Promise!Absent]
  BY <1>1, <1>3, <1>4, <1>5 DEF Shelved
<1>7. Promise!Held(v) /\ ~Promise!Held(w)
  BY <1>2 DEF Promise!Held, Held, ReleaseOf
<1>8. Promise!Rename(v, w)
  BY <1>2, <1>6, <1>7 DEF Promise!Rename, Shelved
<1>. QED BY <1>8 DEF Promise!Next, Promise!Versions, Versions

\* What a machine installs is due to it, byte for byte.
LEMMA DownloadInstalls ==
  ASSUME Strong, Strong', NEW d \in Devices, Download(d)
  PROVE  [Promise!Next]_(Promise!vars)
<1>. DEFINE v == offer[d].ver
            k == Tier[d]
            bytes == store[rel[v].pkg[k].file]
<1>1. /\ v \in Versions /\ k \in Kinds /\ OfferedRelease(d) = v
      /\ rel[v].pkg[k] # NoPackage /\ UNCHANGED <<rel, pin, edits>>
  BY FeedAssumption DEF FeedAssumption, Download, Strong, FeedTyped, OffersAre, Serves,
     Has, mirrorVars
<1>2. \A w \in Versions : ReleaseOf(w)' = ReleaseOf(w)
  BY <1>1, SeenPlain, SeenPlainNext DEF Strong, Plain
<1>3. Shelved' = Shelved
  BY <1>2 DEF Shelved
<1>4. CASE running' = running
  BY <1>1, <1>3, <1>4 DEF Promise!vars, Shelved
<1>5. CASE running' # running
  <2>1. running' = [running EXCEPT ![d] = [ver |-> v, build |-> bytes]]
    BY <1>5 DEF Download
  <2>2. Shelved[v].build[k] = bytes
    BY <1>1 DEF Shelved, ReleaseOf, BuildOf, Has
  <2>3. bytes # 0
    BY <1>1 DEF Strong, Safe, Bytes, Rows, NameOf
  <2>4. v \in Published /\ (pin[d] # Nothing => v = pin[d])
    BY <1>1, OfferedType, FeedAssumption DEF FeedAssumption, Strong
  <2>5. Promise!Published = Published
    BY DEF Promise!Published, Published, Promise!Versions, Versions, ReleaseOf
  <2>6. pin[d] = Nothing => \A w \in Published : w <= v
    <3>1. Published \in SUBSET Versions
      BY DEF Published
    <3>. QED BY <1>1, <2>4, <3>1, NewestIn DEF OfferedRelease
  <2>. HIDE DEF v, k, bytes
  <2>7. Promise!Due(d, v)
    BY <2>2, <2>3, <2>4, <2>5, <2>6 DEF Promise!Due, Shelved, k
  <2>8. v # running[d].ver
    BY DEF v, Download, Strong, Asked
  <2>9. Promise!Install(d, v)
    BY <1>1, <1>3, <2>1, <2>2, <2>7, <2>8 DEF Promise!Install, Shelved, k
  <2>. QED BY <1>1, <2>9 DEF Promise!Next, Promise!Versions, Versions
<1>. QED BY <1>4, <1>5

\* A pin, or the lack of one, is set.
LEMMA SetPinPins ==
  ASSUME Strong, Strong', NEW d \in Devices, NEW v \in Versions \cup {Nothing}, SetPin(d, v)
  PROVE  [Promise!Next]_(Promise!vars)
<1>1. \A w \in Versions : ReleaseOf(w)' = ReleaseOf(w)
  BY SeenPlain, SeenPlainNext DEF Strong, Plain, SetPin
<1>2. Promise!Pin(d, v)
  BY <1>1 DEF SetPin, Edit, Promise!Pin
<1>. QED BY <1>2 DEF Promise!Next, Promise!Versions, Versions

LEMMA EveryStep == Strong /\ Strong' /\ [Next]_vars => [Promise!Next]_(Promise!vars)
<1>. SUFFICES ASSUME Strong, Strong', [Next]_vars PROVE [Promise!Next]_(Promise!vars)
  OBVIOUS
<1>1. ASSUME UNCHANGED feedVars, NEW v \in Versions, Administer(v)
      PROVE  [Promise!Next]_(Promise!vars)
  <2>0. UNCHANGED <<pin, running>>
    BY <1>1 DEF feedVars
  <2>1. CASE \E w \in Versions : Rename(v, w)
    BY <2>0, <2>1, RenameRenames
  <2>2. CASE ~\E w \in Versions : Rename(v, w)
    BY <1>1, <2>0, <2>2, RestRewrites
  <2>. QED BY <2>1, <2>2
<1>2. CASE CommitRelease /\ UNCHANGED feedVars
  BY <1>2, CommitArrives DEF feedVars
<1>3. ASSUME NEW d \in Devices, NEW v \in Versions \cup {Nothing}, SetPin(d, v)
      PROVE  [Promise!Next]_(Promise!vars)
  BY <1>3, SetPinPins
<1>4. ASSUME NEW d \in Devices, Download(d) PROVE [Promise!Next]_(Promise!vars)
  BY <1>4, DownloadInstalls
<1>5. CASE UNCHANGED <<rel, pin, running, edits>>
  BY <1>5, NoReleaseStep
<1>6. \/ UNCHANGED <<rel, pin, running, edits>>
      \/ CommitRelease /\ UNCHANGED feedVars
      \/ \E v \in Versions : Administer(v) /\ UNCHANGED feedVars
      \/ \E d \in Devices : Download(d) \/ \E v \in Versions \cup {Nothing} : SetPin(d, v)
  BY DEF Next, MirrorNext, MirrorStep, ReadIndex, EndRun, Skip, Fetch, Refuse,
     CreateRelease, StorePackage, SavePackage, SaveRefused, SaveFails, Undo, MirrorDies,
     Republish, Garble, MachineStep, Ask, NotOffered, vars, mirrorVars, feedVars
<1>. QED BY <1>1, <1>2, <1>3, <1>4, <1>5, <1>6

LEMMA InitMaps == Init => Promise!Init
<1>. SUFFICES ASSUME Init PROVE Promise!Init
  OBVIOUS
<1>1. ASSUME NEW v \in Versions PROVE ReleaseOf(v) = Promise!Absent
  BY DEF Init, MirrorInit, NoRelease, ReleaseOf, BuildOf, Has, Promise!Absent
<1>. QED BY <1>1 DEF Init, MirrorInit, Promise!Init, Promise!Versions, Versions

\* Every behaviour of the releases, the mirror and the feed is one the shelf allows.
THEOREM FeedImplementsShelf == Spec => ShelfIsKept
<1>. QED BY InitMaps, EveryStep, StrongAlways, PTL DEF Spec, ShelfIsKept, Promise!Spec

\* A release that is held stands as it is until the administrator does something: its
\* state, the packages it has, and the bytes a machine would download of each. Neither a
\* mirror run, whatever fails in it and whatever it deletes, nor upstream, nor a machine
\* changes any of it.
THEOREM ReleasesStand == Spec => Promise!HeldStands
<1>1. ASSUME Strong, Strong', [Next]_vars
      PROVE  [edits' = edits => \A v \in Promise!Versions :
                  Promise!Held(v) => Shelved'[v] = Shelved[v]]_(Promise!vars)
  <2>1. edits + 1 # edits
    BY <1>1 DEF Strong, Typed, MirrorTypeOK
  <2>2. ASSUME NEW v \in Promise!Versions, NEW w \in Promise!Versions, Promise!Arrive(v),
               Promise!Held(w)
        PROVE  Shelved'[w] = Shelved[w]
    BY <2>2 DEF Promise!Arrive, Promise!Held, Promise!Versions, Versions, Shelved
  <2>3. [Promise!Next]_(Promise!vars)
    BY <1>1, EveryStep
  <2>. QED BY <2>1, <2>2, <2>3
       DEF Promise!Next, Promise!Rewrite, Promise!Rename, Promise!Pin, Promise!Install,
           Promise!vars, Promise!Versions, Versions, Shelved
<1>. QED BY <1>1, StrongAlways, PTL DEF Spec, Promise!HeldStands, Shelved
====
