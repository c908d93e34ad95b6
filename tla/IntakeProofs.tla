------------------------------- MODULE IntakeProofs -------------------------------
(* What ADL's readers keep for any folders, links, contents, page limits, settings *)
(* and bounds: the types, which hold the limits an instance hands out, that what   *)
(* is staged is what was promised, and that ADL is silent only about what it has   *)
(* had.                                                                            *)

EXTENDS Intake, TLAPS, SequenceTheorems, WellFoundedInduction

USE IntakeAssumption DEF IntakeAssumption

-----------------------------------------------------------------------------------
(* The invariant. The types are not inductive as they stand: a body is cut from    *)
(* the content of a file that has one.                                             *)

\* What is offered or asked for has been written, and a body is one of a version.
Offered ==
    /\ \A f \in Files : f \in pending \/ wanted[f] # 0 => folder[f] # 0
    /\ \A f \in Files : body[f] # NoBody => body[f].ver # 0

\* A hash in the ledger is one that was staged.
Vouched == \A f \in Files : row[f].hash # 0 => row[f].hash \in kept[f]

Typed == TypeOK /\ Offered
Safe == StagedAsPromised /\ Vouched /\ SilenceMeansHeld

-----------------------------------------------------------------------------------
(* What ADL tells machines.                                                        *)

\* Of some days one is the earliest.
LEMMA EarliestIn ==
  ASSUME NEW D \in SUBSET Nat, D # {}
  PROVE  \E d \in D : \A e \in D : d <= e
<1>. DEFINE R == {p \in Nat \X Nat : p[1] < p[2]}
<1>1. R = OpToRel(<, Nat)
  BY DEF OpToRel
<1>2. IsWellFoundedOn(R, Nat)
  BY <1>1, NatLessThanWellFounded
<1>3. PICK d \in D : \A e \in D : ~(<<e, d>> \in R)
  <2>. HIDE DEF R
  <2>1. D \subseteq Nat
    OBVIOUS
  <2>2. \E d \in D : \A e \in D : ~(<<e, d>> \in R)
    BY <1>2, <2>1, WFMin
  <2>. QED BY <2>2
<1>4. ASSUME NEW e \in D PROVE d <= e
  <2>1. d \in Nat /\ e \in Nat /\ ~(<<e, d>> \in R)
    BY <1>3
  <2>. QED BY <2>1
<1>. QED BY <1>4

\* The floor of a station is no later than its start date, nor than any file that is
\* asked for again: what an operator wants re-sent is offered, however old it is.
THEOREM FloorReaches ==
  ASSUME TypeOK, NEW l \in Links
  PROVE  /\ Floor(l) \in 0..MaxDay
         /\ Floor(l) <= start[l]
         /\ \A f \in Files : LinkOf[f] = l /\ row[f].asked = "live" => Floor(l) <= Day[f]
<1>. DEFINE asked == {f \in Files : LinkOf[f] = l /\ row[f].asked = "live"}
            days == {start[l]} \cup {Day[f] : f \in asked}
<1>1. start[l] \in 0..MaxDay
  BY DEF TypeOK
<1>2. days \subseteq 0..MaxDay
  BY <1>1
<1>3. start[l] \in days /\ \A f \in asked : Day[f] \in days
  OBVIOUS
<1>4. Floor(l) = CHOOSE d \in days : \A e \in days : d <= e
  BY DEF Floor
<1>. HIDE DEF days
<1>5. \E d \in days : \A e \in days : d <= e
  BY <1>2, <1>3, EarliestIn
<1>6. Floor(l) \in days /\ \A e \in days : Floor(l) <= e
  BY <1>4, <1>5
<1>. QED BY <1>2, <1>3, <1>6

\* The number of concurrent uploads a machine is told lets it send one file at least,
\* and this instance live, whatever was put into the setting and the environment.
THEOREM UploadsAreBounded ==
  ASSUME NEW setting \in Raw, NEW environ \in Raw
  PROVE  ConcurrentUploads(setting, environ) \in 1..Most
<1>. DEFINE raw == IF setting.kind = "absent" THEN environ ELSE setting
<1>1. raw \in Raw
  OBVIOUS
<1>2. raw.value \in Nat
  BY <1>1 DEF Raw
<1>3. ConcurrentUploads(setting, environ) =
         IF raw.kind # "number" \/ raw.value < 1 THEN Default
         ELSE IF raw.value > Most THEN Most ELSE raw.value
  BY DEF ConcurrentUploads
<1>. HIDE DEF raw
<1>. QED BY <1>2, <1>3

LEMMA ToldType == ASSUME TypeOK
  PROVE Told \in [limit : PageLimits, uploads : 1..Most, floor : [Links -> 0..MaxDay],
                  links : SUBSET Links]
<1>1. [l \in Links |-> Floor(l)] \in [Links -> 0..MaxDay]
  BY FloorReaches
<1>2. conf.limit \in PageLimits /\ conf.uploads \in 1..Most
  BY DEF TypeOK, Telling
<1>. QED BY <1>1, <1>2 DEF Told

-----------------------------------------------------------------------------------
(* What arrives.                                                                   *)

\* A reading of a file is blocks, whatever the vendor wrote while it was read.
LEMMA ReadingsAreBlocks ==
  ASSUME TypeOK, NEW f \in Files, wanted[f] # 0, folder[f] # 0, NEW r \in Readings(f)
  PROVE  r \in Seq(Blocks)
<1>. DEFINE was == Content[wanted[f]]
            is == Content[folder[f]]
<1>1. was \in Seq(Blocks) /\ is \in Seq(Blocks)
  BY DEF TypeOK
<1>2. PICK i \in 0..Len(was) : r = SubSeq(was, 1, i) \o SubSeq(is, i + 1, Len(is))
  BY DEF Readings
<1>. HIDE DEF was, is
<1>3. i \in Nat /\ i <= Len(was) /\ Len(is) \in Nat
  BY <1>1, <1>2
<1>4. \A j \in 1..i : was[j] \in Blocks
  BY <1>1, <1>3, ElementOfSeq
<1>5. \A j \in (i + 1)..Len(is) : is[j] \in Blocks
  BY <1>1, <1>3, ElementOfSeq
<1>6. SubSeq(was, 1, i) \in Seq(Blocks)
  BY <1>3, <1>4, SubSeqProperties
<1>7. SubSeq(is, i + 1, Len(is)) \in Seq(Blocks)
  BY <1>3, <1>5, SubSeqProperties
<1>. QED BY <1>2, <1>6, <1>7, ConcatProperties

LEMMA ArrivalsAreBlocks ==
  ASSUME TypeOK, NEW f \in Files, wanted[f] # 0, folder[f] # 0,
         NEW whole \in BOOLEAN, NEW b \in Arrivals(f, whole)
  PROVE  b \in Seq(Blocks)
<1>1. CASE whole
  BY <1>1, ReadingsAreBlocks DEF Arrivals
<1>2. CASE ~whole
  <2>1. PICK r \in Readings(f) : \E i \in 0..Len(r) : b = SubSeq(r, 1, i)
    BY <1>2 DEF Arrivals
  <2>2. PICK i \in 0..Len(r) : b = SubSeq(r, 1, i)
    BY <2>1
  <2>3. r \in Seq(Blocks)
    BY ReadingsAreBlocks
  <2>4. i \in Int /\ \A j \in 1..i : r[j] \in Blocks
    BY <2>2, <2>3, ElementOfSeq
  <2>. QED BY <2>2, <2>4, SubSeqProperties
<1>. QED BY <1>1, <1>2

-----------------------------------------------------------------------------------
(* Types.                                                                          *)

Row == [hash : Versions \cup {0}, asked : {"no", "live", "lapsed"}, bytes : Seq(Blocks)]
Body == [ver : Versions \cup {0}, blocks : Seq(Blocks), gzip : BOOLEAN, whole : BOOLEAN,
         got : Seq(Blocks)]

LEMMA EmptyIsTyped == NoRow \in Row /\ NoBody \in Body
<1>1. <<>> \in Seq(Blocks)
  BY EmptySeq
<1>. QED BY <1>1 DEF NoRow, NoBody, Row, Body

LEMMA InitTyped == Init => Typed
<1>. SUFFICES ASSUME Init PROVE Typed
  OBVIOUS
<1>0. 0 \in 0..MaxDay /\ 0 \in 0..MaxWrites /\ 0 \in 0..MaxMoves /\ 0 \in 0..MaxFaults
  OBVIOUS
<1>1. row \in [Files -> Row] /\ body \in [Files -> Body]
  BY EmptyIsTyped DEF Init
<1>2. conf \in Telling
  <2>1. PICK limit \in PageLimits, s \in Raws, e \in Raws :
           conf = [limit |-> limit, uploads |-> ConcurrentUploads(s, e)]
    BY DEF Init
  <2>2. ConcurrentUploads(s, e) \in 1..Most
    BY UploadsAreBounded
  <2>. QED BY <2>1, <2>2 DEF Telling
<1>3. start \in [Links -> 0..MaxDay]
  BY <1>0 DEF Init
<1>4. \A l \in Links : Floor(l) = 0
  <2>. TAKE l \in Links
  <2>1. {f \in Files : LinkOf[f] = l /\ row[f].asked = "live"} = {}
    BY DEF Init, NoRow
  <2>2. Floor(l) = CHOOSE d \in {0} : \A e \in {0} : d <= e
    BY <2>1 DEF Floor, Init
  <2>. QED BY <2>2
<1>5. told \in [limit : PageLimits, uploads : 1..Most, floor : [Links -> 0..MaxDay],
                links : SUBSET Links]
  <2>1. [l \in Links |-> Floor(l)] \in [Links -> 0..MaxDay]
    BY <1>0, <1>4
  <2>2. conf.limit \in PageLimits /\ conf.uploads \in 1..Most
    BY <1>2 DEF Telling
  <2>. QED BY <2>1, <2>2 DEF Init, Told
<1>6. TypeOK
  BY <1>0, <1>1, <1>2, <1>3, <1>5 DEF TypeOK, Init, Row, Body
<1>7. Offered
  BY DEF Offered, Init
<1>. QED BY <1>6, <1>7 DEF Typed

\* The vendor, HQ and the operator.
LEMMA WriteTyped ==
  ASSUME Typed, NEW f \in Files, NEW v \in Versions, Write(f, v) PROVE Typed'
<1>1. folder' \in [Files -> Versions \cup {0}] /\ writes' \in 0..MaxWrites
  BY DEF Typed, TypeOK, Write
<1>2. TypeOK'
  BY <1>1 DEF Typed, TypeOK, Write
<1>3. \A g \in Files : folder'[g] = 0 => folder[g] = 0
  BY DEF Typed, TypeOK, Write
<1>4. Offered'
  BY <1>3 DEF Typed, Offered, Write
<1>. QED BY <1>2, <1>4 DEF Typed

LEMMA MoveTyped ==
  ASSUME Typed, Move, link' \in [Links -> {"on", "off", "gone"}],
         start' \in [Links -> 0..MaxDay], conf' \in Telling, row' \in [Files -> Row]
  PROVE  Typed'
<1>1. moves' \in 0..MaxMoves
  BY DEF Typed, TypeOK, Move
<1>2. TypeOK'
  BY <1>1 DEF Typed, TypeOK, Move, Row
<1>3. Offered'
  BY DEF Typed, Offered, Move
<1>. QED BY <1>2, <1>3 DEF Typed

LEMMA OutsideTyped == ASSUME Typed, Outside PROVE Typed'
<1>0. /\ link \in [Links -> {"on", "off", "gone"}] /\ start \in [Links -> 0..MaxDay]
      /\ conf \in Telling /\ row \in [Files -> Row]
  BY DEF Typed, TypeOK, Row
<1>1. ASSUME NEW l \in Links, NEW state \in {"on", "off", "gone"}, Switch(l, state)
      PROVE  Typed'
  <2>1. link' \in [Links -> {"on", "off", "gone"}]
    BY <1>0, <1>1 DEF Switch
  <2>. QED BY <1>0, <1>1, <2>1, MoveTyped DEF Switch
<1>2. ASSUME NEW l \in Links, NEW d \in 0..MaxDay, SetStart(l, d) PROVE Typed'
  <2>1. start' \in [Links -> 0..MaxDay]
    BY <1>0, <1>2 DEF SetStart
  <2>. QED BY <1>0, <1>2, <2>1, MoveTyped DEF SetStart
<1>3. ASSUME NEW limit \in PageLimits, NEW s \in Raws, NEW e \in Raws, Deploy(limit, s, e)
      PROVE  Typed'
  <2>1. ConcurrentUploads(s, e) \in 1..Most
    BY UploadsAreBounded
  <2>2. conf' \in Telling
    BY <1>3, <2>1 DEF Deploy, Telling
  <2>. QED BY <1>0, <1>3, <2>2, MoveTyped DEF Deploy
<1>4. ASSUME NEW f \in Files, Reoffer(f) PROVE Typed'
  <2>1. [NoRow EXCEPT !.asked = "live"] \in Row
    BY EmptyIsTyped DEF Row
  <2>2. row' \in [Files -> Row]
    BY <1>0, <1>4, <2>1 DEF Reoffer
  <2>. QED BY <1>0, <1>4, <2>2, MoveTyped DEF Reoffer
<1>5. ASSUME NEW f \in Files, Lapse(f) PROVE Typed'
  <2>0. row[f] \in Row
    BY <1>0
  <2>1. [row[f] EXCEPT !.asked = "lapsed"] \in Row
    BY <2>0 DEF Row
  <2>2. row' = [row EXCEPT ![f] = [row[f] EXCEPT !.asked = "lapsed"]]
    BY <1>5 DEF Lapse
  <2>3. row' \in [Files -> Row]
    BY <1>0, <2>1, <2>2
  <2>4. TypeOK'
    BY <1>5, <2>3 DEF Typed, TypeOK, Lapse, Row
  <2>5. Offered'
    BY <1>5 DEF Typed, Offered, Lapse
  <2>. QED BY <2>4, <2>5 DEF Typed
<1>. QED BY <1>1, <1>2, <1>3, <1>4, <1>5, WriteTyped DEF Outside

\* The cycle.
LEMMA SyncTyped == ASSUME Typed, Sync PROVE Typed'
<1>1. Told \in [limit : PageLimits, uploads : 1..Most, floor : [Links -> 0..MaxDay],
                links : SUBSET Links]
  BY ToldType DEF Typed
<1>2. pending' \subseteq Files /\ \A f \in pending' : folder[f] # 0
  BY DEF Sync
<1>3. TypeOK'
  BY <1>1, <1>2 DEF Typed, TypeOK, Sync
<1>4. Offered'
  BY <1>2 DEF Typed, Offered, Sync
<1>. QED BY <1>3, <1>4 DEF Typed

LEMMA PageTyped ==
  ASSUME Typed, NEW page \in SUBSET pending, NEW bad \in SUBSET pending, Page(page, bad)
  PROVE  Typed'
<1>. DEFINE read == ReadManifest(page, bad)
<1>1. read \subseteq page /\ Requested(read) \subseteq read
  BY DEF ReadManifest, Requested, Considered
<1>2. \A f \in page : f \in Files /\ folder[f] \in Versions
  BY DEF Typed, TypeOK, Offered
<1>. HIDE DEF read
<1>3. \A f \in Requested(read) : folder[f] \in Versions
  BY <1>1, <1>2
<1>4. wanted' = [f \in Files |-> IF f \in Requested(read) THEN folder[f] ELSE wanted[f]]
  BY DEF Page, read
<1>5. wanted' \in [Files -> Versions \cup {0}]
  BY <1>3, <1>4 DEF Typed, TypeOK
<1>6. silent' \subseteq Files \X Versions
  <2>1. {<<f, folder[f]>> : f \in page \ (Requested(read) \cup Reported(read))}
            \subseteq Files \X Versions
    BY <1>2
  <2>. QED BY <2>1 DEF Page, read, Typed, TypeOK
<1>7. faults' \in 0..MaxFaults
  <2>1. UNCHANGED faults \/ Fault
    BY DEF Page
  <2>2. faults \in 0..MaxFaults
    BY DEF Typed, TypeOK
  <2>. QED BY <2>1, <2>2 DEF Fault
<1>8. pending' \subseteq pending
  BY DEF Page
<1>9. TypeOK'
  BY <1>5, <1>6, <1>7, <1>8 DEF Page, Typed, TypeOK
<1>10. Offered'
  <2>1. \A f \in Files : wanted'[f] # 0 => folder[f] # 0
    BY <1>3, <1>4 DEF Typed, Offered
  <2>. QED BY <1>8, <2>1 DEF Page, Typed, Offered
<1>. QED BY <1>9, <1>10 DEF Typed

LEMMA LosePageTyped == ASSUME Typed, LosePage PROVE Typed'
<1>1. faults' \in 0..MaxFaults /\ pending' = {}
  BY DEF LosePage, Fault, Typed, TypeOK
<1>. QED BY <1>1 DEF LosePage, Typed, TypeOK, Offered

LEMMA PhaseTyped == ASSUME Typed, StartSending \/ EndCycle PROVE Typed'
  BY DEF StartSending, EndCycle, Typed, TypeOK, Offered

\* The uploads.
LEMMA SendTyped == ASSUME Typed, NEW f \in Files, SendStep(f) PROVE Typed'
<1>1. PICK whole \in BOOLEAN, gzip \in BOOLEAN :
         \E blocks \in Arrivals(f, whole) : Send(f, blocks, gzip, whole)
  BY DEF SendStep
<1>2. PICK blocks \in Arrivals(f, whole) : Send(f, blocks, gzip, whole)
  BY <1>1
<1>3. wanted[f] \in Versions /\ folder[f] # 0
  BY <1>2 DEF Send, Typed, TypeOK, Offered
<1>4. blocks \in Seq(Blocks) /\ <<>> \in Seq(Blocks)
  BY <1>2, <1>3, ArrivalsAreBlocks, EmptySeq DEF Typed
<1>. DEFINE b == [ver |-> wanted[f], blocks |-> blocks, gzip |-> gzip, whole |-> whole,
                  got |-> <<>>]
<1>5. b \in Body /\ b.ver # 0
  BY <1>3, <1>4 DEF Body
<1>6. body' = body \/ body' = [body EXCEPT ![f] = b]
  BY <1>2 DEF Send
<1>. HIDE DEF b
<1>7. body \in [Files -> Body]
  BY DEF Typed, TypeOK, Body
<1>8. body' \in [Files -> Body] /\ \A g \in Files : body'[g] # NoBody => body'[g].ver # 0
  <2>1. body' \in [Files -> Body]
    BY <1>5, <1>6, <1>7
  <2>2. \A g \in Files : body'[g] = body[g] \/ body'[g] = b
    BY <1>6, <1>7
  <2>3. \A g \in Files : body[g] # NoBody => body[g].ver # 0
    BY DEF Typed, Offered
  <2>. QED BY <1>5, <2>1, <2>2, <2>3
<1>9. wanted' = [wanted EXCEPT ![f] = 0] /\ faults' \in 0..MaxFaults
  <2>1. wanted' = [wanted EXCEPT ![f] = 0] /\ (UNCHANGED faults \/ Fault)
    BY <1>2 DEF Send
  <2>2. faults \in 0..MaxFaults
    BY DEF Typed, TypeOK
  <2>. QED BY <2>1, <2>2 DEF Fault
<1>10. wanted' \in [Files -> Versions \cup {0}]
  BY <1>9 DEF Typed, TypeOK
<1>11. TypeOK'
  BY <1>2, <1>8, <1>9, <1>10 DEF Send, Typed, TypeOK, Body
<1>12. \A g \in Files : wanted'[g] # 0 => wanted[g] # 0
  BY <1>9 DEF Typed, TypeOK
<1>13. Offered'
  BY <1>2, <1>8, <1>12 DEF Send, Typed, Offered
<1>. QED BY <1>11, <1>13 DEF Typed

LEMMA ChunkTyped == ASSUME Typed, NEW f \in Files, Chunk(f) PROVE Typed'
<1>. DEFINE got == Append(body[f].got, Head(body[f].blocks))
            b == [body[f] EXCEPT !.got = got, !.blocks = Tail(body[f].blocks)]
<1>1. body \in [Files -> Body]
  BY DEF Typed, TypeOK, Body
<1>2. body[f].blocks \in Seq(Blocks) /\ body[f].got \in Seq(Blocks)
  BY <1>1 DEF Body
<1>3. body[f].blocks # <<>> /\ body[f] # NoBody
  BY DEF Chunk, NoBody
<1>4. Head(body[f].blocks) \in Blocks /\ Tail(body[f].blocks) \in Seq(Blocks)
  BY <1>2, <1>3, HeadTailProperties
<1>5. got \in Seq(Blocks)
  BY <1>2, <1>4
<1>. HIDE DEF got
<1>6. b \in Body /\ b.ver # 0
  <2>1. body[f] \in Body /\ body[f].ver # 0
    BY <1>1, <1>3 DEF Typed, Offered
  <2>. QED BY <1>4, <1>5, <2>1 DEF Body
<1>7. body' = [body EXCEPT ![f] = b] \/ body' = [body EXCEPT ![f] = NoBody]
  <2>1. CASE Fits(got)
    BY <2>1 DEF Chunk, got
  <2>2. CASE ~Fits(got)
    BY <2>2 DEF Chunk, got
  <2>. QED BY <2>1, <2>2
<1>. HIDE DEF b
<1>8. body' \in [Files -> Body] /\ \A g \in Files : body'[g] # NoBody => body'[g].ver # 0
  <2>1. body' \in [Files -> Body]
    BY <1>1, <1>6, <1>7, EmptyIsTyped
  <2>2. \A g \in Files : body'[g] \in {body[g], b, NoBody}
    BY <1>1, <1>7
  <2>3. \A g \in Files : body[g] # NoBody => body[g].ver # 0
    BY DEF Typed, Offered
  <2>. QED BY <1>6, <2>1, <2>2, <2>3
<1>9. TypeOK'
  BY <1>8 DEF Chunk, Typed, TypeOK, Body
<1>10. Offered'
  BY <1>8 DEF Chunk, Typed, Offered
<1>. QED BY <1>9, <1>10 DEF Typed

LEMMA FinishTyped == ASSUME Typed, NEW f \in Files, Finish(f) PROVE Typed'
<1>. DEFINE b == body[f]
            r == [hash |-> b.ver, asked |-> "no", bytes |-> b.got]
<1>1. body \in [Files -> Body] /\ row \in [Files -> Row]
  BY DEF Typed, TypeOK, Body, Row
<1>2. b.ver \in Versions /\ b.got \in Seq(Blocks)
  BY <1>1 DEF Body, Finish, Typed, Offered
<1>3. r \in Row
  BY <1>2 DEF Row
<1>4. body' \in [Files -> Body] /\ \A g \in Files : body'[g] # NoBody => body[g] = body'[g]
  BY <1>1, EmptyIsTyped DEF Finish
<1>5. \/ UNCHANGED <<row, kept>>
      \/ row' = [row EXCEPT ![f] = r] /\ kept' = [kept EXCEPT ![f] = kept[f] \cup {b.ver}]
  BY DEF Finish
<1>. HIDE DEF r, b
<1>6. row' \in [Files -> Row]
  BY <1>1, <1>3, <1>5
<1>7. kept' \in [Files -> SUBSET Versions]
  <2>1. kept \in [Files -> SUBSET Versions] /\ kept[f] \cup {b.ver} \in SUBSET Versions
    BY <1>2 DEF Typed, TypeOK
  <2>. QED BY <1>5, <2>1
<1>8. TypeOK'
  BY <1>4, <1>6, <1>7 DEF Finish, Typed, TypeOK, Body, Row
<1>9. Offered'
  BY <1>4 DEF Finish, Typed, Offered
<1>. QED BY <1>8, <1>9 DEF Typed

LEMMA TypesKept == Typed /\ [Next]_vars => Typed'
<1>. SUFFICES ASSUME Typed, [Next]_vars PROVE Typed'
  OBVIOUS
<1>1. CASE Outside
  BY <1>1, OutsideTyped
<1>2. CASE CycleStep
  BY <1>2, SyncTyped, PhaseTyped, PageTyped DEF CycleStep
<1>3. CASE LosePage
  BY <1>3, LosePageTyped
<1>4. ASSUME NEW f \in Files, SendStep(f) \/ ReceiveStep(f) PROVE Typed'
  BY <1>4, SendTyped, ChunkTyped, FinishTyped DEF ReceiveStep
<1>5. CASE UNCHANGED vars
  BY <1>5 DEF vars, Typed, TypeOK, Offered
<1>. QED BY <1>1, <1>2, <1>3, <1>4, <1>5 DEF Next

LEMMA TypesAlways == Spec => []Typed
<1>. QED BY InitTyped, TypesKept, PTL DEF Spec

\* Every reachable state is well typed; a machine is never told of fewer uploads than
\* one or of more than this instance serves.
THEOREM IntakeTypeCorrect == Spec => []TypeOK
<1>1. Typed => TypeOK
  BY DEF Typed
<1>. QED BY <1>1, TypesAlways, PTL

-----------------------------------------------------------------------------------
(* What is staged, and what silence means.                                         *)

LEMMA InitSafe == Init => Safe
<1>. SUFFICES ASSUME Init PROVE Safe
  OBVIOUS
<1>1. \A f \in Files : row[f].hash = 0 /\ Len(body[f].got) = 0
  BY EmptySeq DEF Init, NoRow, NoBody
<1>2. StagedAsPromised
  BY <1>1 DEF StagedAsPromised
<1>. QED BY <1>1, <1>2 DEF Safe, Vouched, SilenceMeansHeld, Init

\* A row is forgotten or loses a request, and everything else stays.
LEMMA RowsSafe ==
  ASSUME Safe, UNCHANGED <<body, silent, kept>>,
         \A f \in Files : \/ row'[f].hash = 0
                          \/ row'[f].hash = row[f].hash /\ row'[f].bytes = row[f].bytes
  PROVE  Safe'
<1>1. StagedAsPromised'
  BY DEF Safe, StagedAsPromised
<1>2. Vouched'
  BY DEF Safe, Vouched
<1>3. SilenceMeansHeld'
  BY DEF Safe, SilenceMeansHeld
<1>. QED BY <1>1, <1>2, <1>3 DEF Safe

LEMMA OutsideSafe == ASSUME Typed, Safe, Outside PROVE Safe'
<1>0. row \in [Files -> Row]
  BY DEF Typed, TypeOK, Row
<1>1. ASSUME NEW f \in Files, Reoffer(f) PROVE Safe'
  <2>1. \A g \in Files : row'[g] = row[g] \/ row'[g].hash = 0
    BY <1>0, <1>1 DEF Reoffer, NoRow
  <2>. QED BY <1>1, <2>1, RowsSafe DEF Reoffer, Move
<1>2. ASSUME NEW f \in Files, Lapse(f) PROVE Safe'
  <2>1. \A g \in Files : row'[g].hash = row[g].hash /\ row'[g].bytes = row[g].bytes
    BY <1>0, <1>2 DEF Lapse, Row
  <2>. QED BY <1>2, <2>1, RowsSafe DEF Lapse
<1>3. ASSUME UNCHANGED <<row, body, silent, kept>> PROVE Safe'
  BY <1>3, RowsSafe
<1>4. ASSUME NEW f \in Files, NEW v \in Versions, Write(f, v) PROVE Safe'
  BY <1>3, <1>4 DEF Write
<1>5. ASSUME NEW l \in Links, NEW state \in {"on", "off", "gone"}, Switch(l, state)
      PROVE  Safe'
  BY <1>3, <1>5 DEF Switch, Move
<1>6. ASSUME NEW l \in Links, NEW d \in 0..MaxDay, SetStart(l, d) PROVE Safe'
  BY <1>3, <1>6 DEF SetStart, Move
<1>7. ASSUME NEW limit \in PageLimits, NEW s \in Raws, NEW e \in Raws, Deploy(limit, s, e)
      PROVE  Safe'
  BY <1>3, <1>7 DEF Deploy, Move
<1>. QED BY <1>1, <1>2, <1>4, <1>5, <1>6, <1>7 DEF Outside

\* ADL says nothing of an entry it read, whose link is on, and whose hash it has: which
\* is one that was staged. Of a page it refused it asks for nothing, and answers nothing.
LEMMA PageSafe ==
  ASSUME Typed, Safe, NEW page \in SUBSET pending, NEW bad \in SUBSET pending,
         Page(page, bad)
  PROVE  Safe'
<1>. DEFINE read == ReadManifest(page, bad)
<1>1. UNCHANGED <<row, body, kept>>
  BY DEF Page
<1>2. read = {} \/ read = page
  BY DEF ReadManifest
<1>3. silent' = IF read = {} THEN silent
                ELSE silent \cup {<<f, folder[f]>> :
                                     f \in page \ (Requested(read) \cup Reported(read))}
  BY DEF Page
<1>. HIDE DEF read
<1>4. ASSUME NEW f \in page \ (Requested(read) \cup Reported(read)), read = page
      PROVE  folder[f] \in kept[f]
  <2>1. f \in Files /\ folder[f] # 0
    BY DEF Typed, TypeOK, Offered
  <2>2. f \in Considered(read)
    BY <1>4 DEF Reported
  <2>3. row[f].hash = folder[f]
    BY <1>4, <2>2 DEF Requested
  <2>. QED BY <2>1, <2>3 DEF Safe, Vouched
<1>5. SilenceMeansHeld'
  <2>. SUFFICES ASSUME NEW p \in silent' PROVE p[2] \in kept[p[1]]
    BY <1>1 DEF SilenceMeansHeld
  <2>1. CASE p \in silent
    BY <2>1 DEF Safe, SilenceMeansHeld
  <2>2. CASE p \notin silent
    <3>1. read = page
      BY <1>2, <1>3, <2>2
    <3>2. PICK f \in page \ (Requested(read) \cup Reported(read)) : p = <<f, folder[f]>>
      BY <1>3, <2>2
    <3>. QED BY <1>4, <3>1, <3>2
  <2>. QED BY <2>1, <2>2
<1>6. StagedAsPromised' /\ Vouched'
  BY <1>1 DEF Safe, StagedAsPromised, Vouched
<1>. QED BY <1>5, <1>6 DEF Safe

LEMMA SendSafe == ASSUME Typed, Safe, NEW f \in Files, SendStep(f) PROVE Safe'
<1>1. PICK whole \in BOOLEAN, gzip \in BOOLEAN :
         \E blocks \in Arrivals(f, whole) : Send(f, blocks, gzip, whole)
  BY DEF SendStep
<1>2. PICK blocks \in Arrivals(f, whole) : Send(f, blocks, gzip, whole)
  BY <1>1
<1>3. UNCHANGED <<row, silent, kept>>
  BY <1>2 DEF Send
<1>4. \A g \in Files : body'[g] = body[g] \/ Len(body'[g].got) = 0
  BY <1>2, EmptySeq DEF Send, Typed, TypeOK
<1>5. StagedAsPromised'
  BY <1>3, <1>4 DEF Safe, StagedAsPromised
<1>. QED BY <1>3, <1>5 DEF Safe, Vouched, SilenceMeansHeld

\* Nothing is written down past the cap.
LEMMA ChunkSafe == ASSUME Typed, Safe, NEW f \in Files, Chunk(f) PROVE Safe'
<1>. DEFINE got == Append(body[f].got, Head(body[f].blocks))
<1>1. UNCHANGED <<row, silent, kept>>
  BY DEF Chunk
<1>2. Len(NoBody.got) <= Cap
  BY EmptySeq DEF NoBody
<1>3. body \in [Files -> Body]
  BY DEF Typed, TypeOK, Body
<1>4. \A g \in Files : body'[g] = body[g] \/ Len(body'[g].got) <= Cap
  <2>1. CASE Fits(got)
    <3>1. body' = [body EXCEPT ![f] = [body[f] EXCEPT !.got = got,
                                                      !.blocks = Tail(body[f].blocks)]]
      BY <2>1 DEF Chunk
    <3>2. body'[f].got = got
      BY <1>3, <3>1 DEF Body
    <3>. QED BY <1>3, <2>1, <3>1, <3>2 DEF Fits
  <2>2. CASE ~Fits(got)
    BY <1>2, <1>3, <2>2 DEF Chunk
  <2>. QED BY <2>1, <2>2
<1>5. StagedAsPromised'
  BY <1>1, <1>4 DEF Safe, StagedAsPromised
<1>. QED BY <1>1, <1>5 DEF Safe, Vouched, SilenceMeansHeld

\* What is recorded is what was promised, however it was read and however it arrived.
LEMMA FinishSafe == ASSUME Typed, Safe, NEW f \in Files, Finish(f) PROVE Safe'
<1>. DEFINE b == body[f]
<1>1. UNCHANGED silent /\ \A g \in Files : body'[g] = body[g] \/ Len(body'[g].got) <= Cap
  BY EmptySeq DEF Finish, NoBody, Typed, TypeOK
<1>2. CASE Verified(b)
  <2>1. /\ row' = [row EXCEPT ![f] = [hash |-> b.ver, asked |-> "no", bytes |-> b.got]]
        /\ kept' = [kept EXCEPT ![f] = kept[f] \cup {b.ver}]
        /\ b.got = Content[b.ver]
    BY <1>2 DEF Finish, Verified
  <2>2. /\ row'[f].hash = b.ver /\ row'[f].bytes = Content[b.ver] /\ b.ver \in kept'[f]
        /\ \A g \in Files : g # f => row'[g] = row[g]
        /\ \A g \in Files : kept[g] \subseteq kept'[g]
    BY <2>1 DEF Typed, TypeOK
  <2>3. StagedAsPromised'
    BY <1>1, <2>2 DEF Safe, StagedAsPromised
  <2>4. Vouched'
    BY <2>2 DEF Safe, Vouched
  <2>5. \A p \in silent : p[1] \in Files
    BY DEF Typed, TypeOK
  <2>6. SilenceMeansHeld'
    BY <1>1, <2>2, <2>5 DEF Safe, SilenceMeansHeld
  <2>. QED BY <2>3, <2>4, <2>6 DEF Safe
<1>3. CASE ~Verified(b)
  <2>1. UNCHANGED <<row, kept>>
    BY <1>3 DEF Finish
  <2>2. StagedAsPromised'
    BY <1>1, <2>1 DEF Safe, StagedAsPromised
  <2>. QED BY <1>1, <2>1, <2>2 DEF Safe, Vouched, SilenceMeansHeld
<1>. QED BY <1>2, <1>3

LEMMA SafeKept == Typed /\ Safe /\ [Next]_vars => Safe'
<1>. SUFFICES ASSUME Typed, Safe, [Next]_vars PROVE Safe'
  OBVIOUS
<1>1. ASSUME UNCHANGED <<row, body, silent, kept>> PROVE Safe'
  BY <1>1, RowsSafe
<1>2. CASE CycleStep
  BY <1>1, <1>2, PageSafe DEF CycleStep, Sync, StartSending, EndCycle
<1>3. CASE LosePage
  BY <1>1, <1>3 DEF LosePage
<1>4. ASSUME NEW f \in Files, SendStep(f) \/ ReceiveStep(f) PROVE Safe'
  BY <1>4, SendSafe, ChunkSafe, FinishSafe DEF ReceiveStep
<1>5. CASE UNCHANGED vars
  BY <1>1, <1>5 DEF vars
<1>. QED BY <1>2, <1>3, <1>4, <1>5, OutsideSafe DEF Next

LEMMA SafeAlways == Spec => [](Typed /\ Safe)
<1>1. Init => Typed /\ Safe
  BY InitTyped, InitSafe
<1>2. Typed /\ Safe /\ [Next]_vars => (Typed /\ Safe)'
  BY TypesKept, SafeKept
<1>. QED BY <1>1, <1>2, PTL DEF Spec

\* What is staged is what its hash describes, and nothing is written down past the cap,
\* for any contents, any chunks, torn readings and broken streams.
THEOREM StagedSafe == Spec => []StagedAsPromised
<1>1. Safe => StagedAsPromised
  BY DEF Safe
<1>. QED BY <1>1, SafeAlways, PTL

\* ADL is silent about an offered file only if it has had it, whatever is refused,
\* switched off or reconfigured between the requests of a cycle.
THEOREM SilenceIsSafe == Spec => []SilenceMeansHeld
<1>1. Safe => SilenceMeansHeld
  BY DEF Safe
<1>. QED BY <1>1, SafeAlways, PTL
====
