------------------------------- MODULE FleetProofs --------------------------------
(* What ADL's record of a machine keeps for any number of heartbeats served at    *)
(* once, any thresholds, clock skew and bounds, forms that stay open while others *)
(* write included: its types, that the transitions log is a history, and that     *)
(* silence and idleness end only with a call or with work, or with a form that    *)
(* brings back the columns of an earlier moment. Two writers move the state.      *)
(* record_liveness writes the row of the log with it; the edit form writes none,  *)
(* and what it put back is told apart until the next row. That is inductive as it *)
(* stands: what a proof adds to the run is that no number of requests, sweeps,    *)
(* revokes and forms between them changes it.                                     *)

EXTENDS Fleet, TLAPS

USE FleetAssumption DEF FleetAssumption

-----------------------------------------------------------------------------------
(* The log.                                                                        *)

\* One call of record_liveness, whoever makes it and however late.
LEMMA RecordKeepsChain ==
  ASSUME NEW lag, LogIsAChain, Record(lag), dev \in Device
  PROVE  LogIsAChain'
  <1> DEFINE state == LivenessOf(dev, lag)
  <1>1. CASE state = dev.state
    BY <1>1 DEF Record, LogIsAChain
  <1>2. CASE state # dev.state
    <2>1. /\ dev' = [dev EXCEPT !.state = state, !.since = lag]
          /\ log' = [last |-> state, broken |-> log.broken \/ ~(tainted \/ Follows(state))]
          /\ tainted' = FALSE
      BY <1>2 DEF Record
    <2>2. dev'.state = state
      BY <2>1 DEF Device
    <2>3. ~(log.broken \/ ~(tainted \/ Follows(state)))
      BY <1>2 DEF LogIsAChain, Follows
    <2> HIDE DEF state
    <2> QED  BY <2>1, <2>2, <2>3 DEF LogIsAChain
  <1> QED  BY <1>1, <1>2

\* A form may put another state under the log's end, and then says so.
LEMMA FormKeepsChain ==
  ASSUME LogIsAChain, FormSave
  PROVE  LogIsAChain'
  BY DEF LogIsAChain, FormSave

\* Everything else leaves the state and the log alone.
LEMMA OthersKeepChain ==
  ASSUME LogIsAChain, log' = log, tainted' = tainted, dev'.state = dev.state
  PROVE  LogIsAChain'
  BY DEF LogIsAChain

LEMMA InitChain == Init => LogIsAChain
  BY DEF Init, NewDevice, LogIsAChain

LEMMA ChainKept == TypeOK /\ LogIsAChain /\ [Next]_vars => LogIsAChain'
  <1> SUFFICES ASSUME TypeOK, LogIsAChain, [Next]_vars PROVE LogIsAChain'
    OBVIOUS
  <1>0. dev \in Device
    BY DEF TypeOK
  <1>1. CASE Tick
    BY <1>0, <1>1, OthersKeepChain DEF Tick, Aged, Device
  <1>2. CASE Redeem
    BY <1>0, <1>2, OthersKeepChain DEF Redeem, Device
  <1>3. CASE RevokeCut
    BY <1>0, <1>3, OthersKeepChain DEF RevokeCut, Device
  <1>4. CASE RevokeRecord
    BY <1>0, <1>4, RecordKeepsChain DEF RevokeRecord
  <1>5. CASE RevokeDies
    BY <1>5, OthersKeepChain DEF RevokeDies
  <1>6. CASE Arrive
    BY <1>0, <1>6, OthersKeepChain DEF Arrive, Device
  <1>7. ASSUME NEW b \in Beats, BeatBegin(b) \/ BeatStep(b) \/ BeatDies(b)
        PROVE  LogIsAChain'
    <2>1. CASE BeatBegin(b)
      BY <2>1, OthersKeepChain DEF BeatBegin
    <2>2. CASE BeatStamp(b)
      BY <1>0, <2>2, OthersKeepChain DEF BeatStamp, Device
    <2>3. CASE BeatRecord(b)
      BY <1>0, <2>3, RecordKeepsChain DEF BeatRecord
    <2>4. CASE BeatDies(b)
      BY <2>4, OthersKeepChain DEF BeatDies
    <2> QED  BY <1>7, <2>1, <2>2, <2>3, <2>4 DEF BeatStep
  <1>8. CASE SweepStep \/ SweepSkips \/ SweepDies
    <2>1. CASE SweepRecord
      BY <1>0, <2>1, RecordKeepsChain DEF SweepRecord
    <2>2. CASE SweepBegin \/ PublishRead \/ PublishWrite \/ SweepSkips \/ SweepDies
      BY <2>2, OthersKeepChain
         DEF SweepBegin, PublishRead, PublishWrite, SweepSkips, SweepDies
    <2> QED  BY <1>8, <2>1, <2>2 DEF SweepStep
  <1>9. CASE UNCHANGED vars
    BY <1>9, OthersKeepChain DEF vars
  <1>10. CASE FormLoad
    BY <1>10, OthersKeepChain DEF FormLoad
  <1>11. CASE FormSave
    BY <1>11, FormKeepsChain
  <1> QED
    BY <1>1, <1>2, <1>3, <1>4, <1>5, <1>6, <1>7, <1>8, <1>9, <1>10, <1>11 DEF Next

-----------------------------------------------------------------------------------
(* Types.                                                                          *)

LEMMA Caps ==
  /\ BeatCap \in Nat /\ WorkCap \in Nat /\ NewsCap \in Nat
  /\ Higher(BeatCap, WorkCap) \in Nat
  /\ MaxLag <= BeatCap /\ MaxLag <= NewsCap /\ MaxLag < WorkCap
  /\ BeatCap <= Higher(BeatCap, WorkCap)
  /\ Lower(-Skew, 0) \in Int /\ Higher(WorkCap, MaxLag - Skew) \in Int
  /\ Lower(-Skew, 0) <= 0 /\ Lower(-Skew, 0) <= -Skew
  /\ WorkCap <= Higher(WorkCap, MaxLag - Skew)
  /\ MaxLag - Skew <= Higher(WorkCap, MaxLag - Skew)
  BY DEF BeatCap, WorkCap, NewsCap, Higher, Lower

\* A column of the row grows by one, or stays where it is.
LEMMA OlderStays ==
  ASSUME NEW cap \in Nat, NEW age \in Age(cap)
  PROVE  Older(age, cap) \in Age(cap)
  BY DEF Older, Age

LEMMA OlderCycleStays ==
  ASSUME NEW lo \in Int, NEW hi \in Int, WorkCap <= hi,
         NEW age \in lo..hi \cup {Never}
  PROVE  Older(age, WorkCap) \in lo..hi \cup {Never}
  BY Caps DEF Older

Cycles == Lower(-Skew, 0)..Higher(WorkCap, MaxLag - Skew) \cup {Never}

LEMMA LivenessIsAState ==
  ASSUME NEW d, NEW lag
  PROVE  LivenessOf(d, lag) \in States
  BY DEF LivenessOf, States

\* The types of the row, field by field.
LEMMA Fields ==
  ASSUME NEW d \in Device
  PROVE  /\ d.paired \in BOOLEAN /\ d.paired_at \in Age(Higher(BeatCap, WorkCap))
         /\ d.heartbeat \in Age(BeatCap) /\ d.received \in 0..WorkCap
         /\ d.cycle \in Cycles /\ d.state \in States /\ d.since \in Age(NewsCap)
  BY DEF Device, Cycles

LEMMA NewTyped == NewDevice \in Device
  <1>1. WorkCap \in 0..WorkCap
    BY Caps
  <1> QED  BY <1>1 DEF NewDevice, Device, Age, States

Beat == [pc : {"idle", "begun", "stamped"}, lag : 0..MaxLag, cycled : BOOLEAN]
Sweep == [pc : {"idle", "asking", "publishing", "writing"},
          lag : 0..MaxLag, failed : BOOLEAN]
Form == [pc : {"idle", "loaded"}, lag : 0..MaxLag, row : Device]

LEMMA IdleTyped == IdleBeat \in Beat /\ IdleSweep \in Sweep /\ Closed \in Form
  <1>1. 0 \in 0..MaxLag
    OBVIOUS
  <1> QED  BY <1>1, NewTyped DEF IdleBeat, IdleSweep, Closed, Beat, Sweep, Form

LEMMA InitTyped == Init => TypeOK
  <1> SUFFICES ASSUME Init PROVE TypeOK
    OBVIOUS
  <1>1. 0 \in 0..MaxLag /\ 0 \in 0..MaxPairs /\ 0 \in 0..MaxUpsets
    OBVIOUS
  <1>2. "unknown" \in States
    BY DEF States
  <1> QED
    BY <1>1, <1>2, NewTyped, IdleTyped DEF Init, TypeOK, Beat, Sweep, Form, Age

LEMMA RecordKeepsTypes ==
  ASSUME NEW lag \in 0..MaxLag, TypeOK, Record(lag)
  PROVE  /\ dev' \in Device /\ log' \in [last : States, broken : BOOLEAN]
         /\ tainted' \in BOOLEAN
  <1> DEFINE state == LivenessOf(dev, lag)
             was == log.broken \/ ~(tainted \/ Follows(state))
  <1>0. state \in States /\ was \in BOOLEAN
    BY LivenessIsAState
  <1>1. CASE state = dev.state
    BY <1>1 DEF Record, TypeOK
  <1>2. CASE state # dev.state
    <2>1. /\ dev' = [dev EXCEPT !.state = state, !.since = lag]
          /\ log' = [last |-> state, broken |-> was]
          /\ tainted' = FALSE
      BY <1>2 DEF Record
    <2>2. lag \in Age(NewsCap)
      BY Caps DEF Age
    <2> HIDE DEF state, was
    <2>3. dev' \in Device
      BY <1>0, <2>1, <2>2 DEF TypeOK, Device
    <2>4. log' \in [last : States, broken : BOOLEAN]
      BY <1>0, <2>1
    <2> QED  BY <2>1, <2>3, <2>4
  <1> QED  BY <1>1, <1>2

\* A row, or a form's copy of it, an interval later.
LEMMA AgedTyped ==
  ASSUME NEW d \in Device
  PROVE  Aged(d) \in Device
  <1> DEFINE p == Older(d.paired_at, Higher(BeatCap, WorkCap))
             h == Older(d.heartbeat, BeatCap)
             r == Older(d.received, WorkCap)
             c == Older(d.cycle, WorkCap)
             s == Older(d.since, NewsCap)
  <1>1. p \in Age(Higher(BeatCap, WorkCap)) /\ h \in Age(BeatCap) /\ s \in Age(NewsCap)
    BY Fields, Caps, OlderStays
  <1>2. r \in 0..WorkCap
    BY Fields, Caps DEF Older
  <1>3. c \in Cycles
    BY Fields, Caps, OlderCycleStays DEF Cycles
  <1>4. Aged(d) = [d EXCEPT !.paired_at = p, !.heartbeat = h, !.received = r,
                            !.cycle = c, !.since = s]
    BY DEF Aged
  <1> HIDE DEF p, h, r, c, s
  <1> QED  BY <1>1, <1>2, <1>3, <1>4 DEF Device, Cycles

LEMMA TickTyped == TypeOK /\ Tick => TypeOK'
  <1> SUFFICES ASSUME TypeOK, Tick PROVE TypeOK'
    OBVIOUS
  <1>0. dev \in Device
    BY DEF TypeOK
  <1>1. dev' \in Device
    BY <1>0, AgedTyped DEF Tick
  <1>2. evidence' \in [at : Age(NewsCap), failed : BOOLEAN]
    <2>1. Older(evidence.at, NewsCap) \in Age(NewsCap)
      BY Caps, OlderStays DEF TypeOK
    <2>2. evidence' = [evidence EXCEPT !.at = Older(evidence.at, NewsCap)]
      BY DEF Tick
    <2> QED  BY <2>1, <2>2 DEF TypeOK
  <1>3. beat' \in [Beats -> Beat]
    <2> SUFFICES ASSUME NEW b \in Beats PROVE Behind(beat[b]) \in Beat
      BY DEF Tick
    <2>1. beat[b] \in Beat
      BY DEF TypeOK, Beat
    <2>2. beat[b].lag + 1 \in 0..MaxLag
      BY <2>1 DEF Tick, Beat
    <2> QED  BY <2>1, <2>2 DEF Behind, Beat
  <1>4. sweep' \in Sweep
    <2>1. sweep.lag + 1 \in 0..MaxLag
      BY DEF TypeOK, Tick
    <2> QED  BY <2>1 DEF Behind, TypeOK, Tick, Sweep
  <1>5. form' \in Form
    <2>1. CASE form.pc = "idle"
      BY <2>1 DEF Tick, TypeOK, Form
    <2>2. CASE form.pc # "idle"
      <3>1. form.lag + 1 \in 0..MaxLag /\ Aged(form.row) \in Device
        BY AgedTyped DEF TypeOK, Tick
      <3>2. form' = [form EXCEPT !.lag = form.lag + 1, !.row = Aged(form.row)]
        BY <2>2 DEF Tick
      <3> QED  BY <3>1, <3>2 DEF TypeOK, Form
    <2> QED  BY <2>1, <2>2
  <1> QED
    BY <1>1, <1>2, <1>3, <1>4, <1>5 DEF TypeOK, Tick, Beat, Sweep, Form

LEMMA UpsetTyped ==
  ASSUME TypeOK, Upset
  PROVE  upsets' \in 0..MaxUpsets
  BY DEF TypeOK, Upset

LEMMA MachineTyped ==
  TypeOK /\ (Redeem \/ RevokeCut \/ RevokeRecord \/ RevokeDies \/ Arrive
              \/ FormLoad \/ FormSave) => TypeOK'
  <1> SUFFICES ASSUME TypeOK,
                      Redeem \/ RevokeCut \/ RevokeRecord \/ RevokeDies \/ Arrive
                      \/ FormLoad \/ FormSave
               PROVE  TypeOK'
    OBVIOUS
  <1>0. dev \in Device
    BY DEF TypeOK
  <1>1. CASE Redeem
    <2>1. 0 \in Age(Higher(BeatCap, WorkCap))
      BY Caps DEF Age
    <2>2. dev' \in Device
      BY <1>0, <1>1, <2>1 DEF Redeem, Device
    <2>3. pairs' \in 0..MaxPairs
      BY <1>1 DEF Redeem, TypeOK
    <2> QED  BY <1>1, <2>2, <2>3 DEF Redeem, TypeOK
  <1>2. CASE RevokeCut
    <2>1. dev' \in Device
      BY <1>0, <1>2 DEF RevokeCut, Device
    <2> QED  BY <1>2, <2>1 DEF RevokeCut, TypeOK
  <1>3. CASE RevokeRecord
    <2>1. 0 \in 0..MaxLag
      OBVIOUS
    <2>2. Record(0)
      BY <1>3 DEF RevokeRecord
    <2>3. /\ dev' \in Device /\ log' \in [last : States, broken : BOOLEAN]
          /\ tainted' \in BOOLEAN
      BY <2>1, <2>2, RecordKeepsTypes
    <2> QED  BY <1>3, <2>3 DEF RevokeRecord, TypeOK
  <1>4. CASE RevokeDies
    BY <1>4, UpsetTyped DEF RevokeDies, TypeOK
  <1>5. CASE Arrive
    <2>1. 0 \in 0..WorkCap
      BY Caps
    <2>2. dev' \in Device
      BY <1>0, <1>5, <2>1 DEF Arrive, Device
    <2> QED  BY <1>5, <2>2 DEF Arrive, TypeOK
  <1>6. CASE FormLoad
    <2>1. 0 \in 0..MaxLag
      OBVIOUS
    <2>2. form' \in Form
      BY <1>0, <1>6, <2>1 DEF FormLoad, Form
    <2> QED  BY <1>6, <2>2, UpsetTyped DEF FormLoad, TypeOK, Form
  <1>7. CASE FormSave
    BY <1>7, IdleTyped DEF FormSave, TypeOK, Form
  <1> QED  BY <1>1, <1>2, <1>3, <1>4, <1>5, <1>6, <1>7

LEMMA BeatTyped ==
  ASSUME TypeOK, NEW b \in Beats, BeatBegin(b) \/ BeatStep(b) \/ BeatDies(b)
  PROVE  TypeOK'
  <1>0. dev \in Device /\ beat[b] \in Beat
    BY DEF TypeOK, Beat
  <1>1. CASE BeatBegin(b)
    <2>1. PICK cycled \in BOOLEAN :
            beat' = [beat EXCEPT ![b] = [pc |-> "begun", lag |-> 0, cycled |-> cycled]]
      BY <1>1 DEF BeatBegin
    <2>2. 0 \in 0..MaxLag
      OBVIOUS
    <2>3. [pc |-> "begun", lag |-> 0, cycled |-> cycled] \in Beat
      BY <2>2 DEF Beat
    <2> QED  BY <1>1, <2>1, <2>3 DEF BeatBegin, TypeOK, Beat
  <1>2. CASE BeatStamp(b)
    <2> DEFINE h == beat[b].lag
               c == IF beat[b].cycled THEN beat[b].lag - Skew ELSE dev.cycle
    <2>1. h \in Age(BeatCap)
      BY <1>0, Caps DEF Age, Beat
    <2>2. c \in Cycles
      BY <1>0, Fields, Caps DEF Cycles, Beat
    <2>3. dev' = [dev EXCEPT !.heartbeat = h, !.cycle = c]
      BY <1>2 DEF BeatStamp
    <2> HIDE DEF h, c
    <2>4. dev' \in Device
      BY <1>0, <2>1, <2>2, <2>3 DEF Device, Cycles
    <2>5. [beat[b] EXCEPT !.pc = "stamped", !.cycled = FALSE] \in Beat
      BY <1>0 DEF Beat
    <2>6. beat' = [beat EXCEPT ![b] = [beat[b] EXCEPT !.pc = "stamped", !.cycled = FALSE]]
      BY <1>2 DEF BeatStamp, TypeOK
    <2> QED  BY <1>2, <2>4, <2>5, <2>6 DEF BeatStamp, TypeOK, Beat
  <1>3. CASE BeatRecord(b)
    <2>1. /\ dev' \in Device /\ log' \in [last : States, broken : BOOLEAN]
          /\ tainted' \in BOOLEAN
      <3>1. beat[b].lag \in 0..MaxLag
        BY <1>0 DEF Beat
      <3> QED  BY <1>3, <3>1, RecordKeepsTypes DEF BeatRecord
    <2> QED  BY <1>3, <2>1, IdleTyped DEF BeatRecord, TypeOK, Beat
  <1>4. CASE BeatDies(b)
    BY <1>4, UpsetTyped, IdleTyped DEF BeatDies, TypeOK, Beat
  <1> QED  BY <1>1, <1>2, <1>3, <1>4 DEF BeatStep

LEMMA SweepTyped == TypeOK /\ (SweepStep \/ SweepSkips \/ SweepDies) => TypeOK'
  <1> SUFFICES ASSUME TypeOK, SweepStep \/ SweepSkips \/ SweepDies PROVE TypeOK'
    OBVIOUS
  <1>0. sweep \in Sweep /\ IdleSweep \in Sweep
    BY IdleTyped DEF TypeOK, Sweep
  <1>a. [IdleSweep EXCEPT !.pc = "publishing"] \in Sweep
    BY <1>0 DEF Sweep
  <1>1. CASE SweepBegin
    <2>1. [IdleSweep EXCEPT !.pc = "asking"] \in Sweep
      BY <1>0 DEF Sweep
    <2> QED  BY <1>1, <1>a, <2>1 DEF SweepBegin, TypeOK, Sweep
  <1>2. CASE SweepRecord
    <2>1. /\ dev' \in Device /\ log' \in [last : States, broken : BOOLEAN]
          /\ tainted' \in BOOLEAN
      <3>1. sweep.lag \in 0..MaxLag
        BY <1>0 DEF Sweep
      <3> QED  BY <1>2, <3>1, RecordKeepsTypes DEF SweepRecord
    <2> QED  BY <1>2, <1>a, <2>1 DEF SweepRecord, TypeOK, Sweep
  <1>3. CASE SweepSkips
    BY <1>3, <1>a, UpsetTyped DEF SweepSkips, TypeOK, Sweep
  <1>4. CASE PublishRead
    <2> DEFINE bad == LivenessOf(dev, 0) # "online"
    <2>1. bad \in BOOLEAN
      OBVIOUS
    <2>2. sweep' \in {[sweep EXCEPT !.pc = "writing", !.failed = bad], IdleSweep}
      BY <1>4 DEF PublishRead
    <2> HIDE DEF bad
    <2>3. [sweep EXCEPT !.pc = "writing", !.failed = bad] \in Sweep
      BY <1>0, <2>1 DEF Sweep
    <2> QED  BY <1>0, <1>4, <2>2, <2>3 DEF PublishRead, TypeOK, Sweep
  <1>5. CASE PublishWrite
    <2>1. sweep.lag \in Age(NewsCap)
      BY <1>0, Caps DEF Age, Sweep
    <2> QED  BY <1>0, <1>5, <2>1 DEF PublishWrite, TypeOK, Sweep
  <1>6. CASE SweepDies
    BY <1>0, <1>6, UpsetTyped DEF SweepDies, TypeOK, Sweep
  <1> QED  BY <1>1, <1>2, <1>3, <1>4, <1>5, <1>6 DEF SweepStep

LEMMA TypesKept == TypeOK /\ [Next]_vars => TypeOK'
  <1> SUFFICES ASSUME TypeOK, [Next]_vars PROVE TypeOK'
    OBVIOUS
  <1>1. CASE UNCHANGED vars
    BY <1>1 DEF vars, TypeOK
  <1> QED
    BY <1>1, TickTyped, MachineTyped, BeatTyped, SweepTyped DEF Next

-----------------------------------------------------------------------------------

\* Every reachable state of the fleet's view of a machine is well typed, whatever the
\* thresholds and however far the machine's clock is off.
THEOREM FleetTypeCorrect == Spec => []TypeOK
  BY InitTyped, TypesKept, PTL DEF Spec

\* The transitions log is a history: record_liveness re-reads the state under the row's
\* lock, so however many heartbeats, sweeps and revokes come to the row at once, each
\* row of the log begins where the last one ended and says something new -- but for the
\* one that follows an edit form's save of an overtaken state, which is told apart.
THEOREM LogIsSafe == Spec => []LogIsAChain
  <1>1. Init => TypeOK /\ LogIsAChain
    BY InitTyped, InitChain
  <1>2. TypeOK /\ LogIsAChain /\ [Next]_vars => (TypeOK /\ LogIsAChain)'
    BY TypesKept, ChainKept
  <1> QED  BY <1>1, <1>2, PTL DEF Spec

-----------------------------------------------------------------------------------
(* The reading of the clocks. A verdict is worked out anew from the columns each   *)
(* time it is wanted, so what keeps it is that only the machine's own calls make a *)
(* column younger, and a form that puts back the columns it loaded: of two beats   *)
(* served at once the later may carry the earlier date.                            *)

\* A moment as it is kept a step later: null still, or no more recent.
NoYounger(age, later) ==
    \/ age = Never /\ later = Never
    \/ age \in Int /\ later \in Int /\ later >= age

\* A machine that is paired has been paired at some time, so there is always
\* something to measure its silence from; and no form is open that would undo that.
Enrolled ==
    /\ dev.paired => dev.paired_at # Never
    /\ form.row.paired => form.row.paired_at # Never

LEMMA AgesStand ==
  ASSUME NEW d \in Device
  PROVE  /\ NoYounger(d.paired_at, d.paired_at) /\ NoYounger(d.heartbeat, d.heartbeat)
         /\ NoYounger(d.cycle, d.cycle)
         /\ d.received \in Int
  <1>1. /\ d.paired_at \in Int \cup {Never} /\ d.heartbeat \in Int \cup {Never}
        /\ d.cycle \in Int \cup {Never} /\ d.received \in Int
    BY Fields, Caps DEF Age, Cycles
  <1> QED  BY <1>1 DEF NoYounger

LEMMA TimeAges ==
  ASSUME NEW age, NEW cap \in Nat, NoYounger(age, age)
  PROVE  NoYounger(age, Older(age, cap))
  BY DEF NoYounger, Older

\* Offline is silence since the last heartbeat, or since the pairing of a machine yet
\* to be heard: it outlives every step that leaves both where they were.
LEMMA OfflineStays ==
  ASSUME NEW d \in Device, NEW e \in Device, d.paired => d.paired_at # Never,
         NoYounger(d.heartbeat, e.heartbeat), NoYounger(d.paired_at, e.paired_at),
         LivenessOf(d, 0) = "offline"
  PROVE  LivenessOf(e, 0) \in {"offline", "unknown"}
  <1>1. d.paired /\ Missed(d, 0) >= OfflineAfter
    BY DEF LivenessOf
  <1>2. Missed(e, 0) >= OfflineAfter
    <2>1. CASE d.heartbeat # Never
      BY <1>1, <2>1 DEF Missed, Elapsed, Higher, NoYounger
    <2>2. CASE d.heartbeat = Never
      BY <1>1, <2>2 DEF Missed, Elapsed, Higher, NoYounger
    <2> QED  BY <2>1, <2>2
  <1>3. Missed(e, 0) \in Int
    <2>1. CASE d.heartbeat # Never
      BY <1>1, <2>1 DEF Missed, Elapsed, Higher, NoYounger
    <2>2. CASE d.heartbeat = Never
      BY <1>1, <2>2 DEF Missed, Elapsed, Higher, NoYounger
    <2> QED  BY <2>1, <2>2
  <1>4. Silent(e, 0)
    BY <1>2, <1>3 DEF Silent, Lower
  <1> QED  BY <1>2, <1>4 DEF LivenessOf

\* Stuck is work that is overdue and files that have stopped: while neither moves the
\* machine is not read online, however it calls in.
LEMMA StuckStays ==
  ASSUME NEW d \in Device, NEW e \in Device, d.paired => d.paired_at # Never,
         NoYounger(d.cycle, e.cycle), NoYounger(d.paired_at, e.paired_at),
         e.received >= d.received, LivenessOf(d, 0) = "cycle_stuck"
  PROVE  LivenessOf(e, 0) # "online"
  <1>1. d.paired /\ CycleOverdue(d, 0) /\ ~Arriving(d, 0)
    BY DEF LivenessOf
  <1>2. CycleOverdue(e, 0)
    <2>1. CASE d.cycle # Never
      BY <1>1, <2>1 DEF CycleOverdue, Elapsed, Higher, NoYounger
    <2>2. CASE d.cycle = Never
      BY <1>1, <2>2 DEF CycleOverdue, Elapsed, Higher, NoYounger
    <2> QED  BY <2>1, <2>2
  <1>3. ~Arriving(e, 0)
    BY <1>1, AgesStand DEF Arriving, Elapsed, Higher
  <1> QED  BY <1>2, <1>3 DEF LivenessOf

\* What each step does to the columns the verdict is read off.
LEMMA ColumnsAge ==
  ASSUME TypeOK, [Next]_vars, ~Redeem, ~FormSave
  PROVE  /\ dev'.paired => dev.paired
         /\ NoYounger(dev.paired_at, dev'.paired_at)
         /\ dev'.received >= dev.received \/ Arrive
         /\ NoYounger(dev.heartbeat, dev'.heartbeat) \/ \E b \in Beats : BeatStamp(b)
         /\ NoYounger(dev.cycle, dev'.cycle)
            \/ \E b \in Beats : BeatStamp(b) /\ beat[b].cycled
  <1> DEFINE Kept == /\ dev'.paired => dev.paired
                     /\ NoYounger(dev.paired_at, dev'.paired_at)
                     /\ dev'.received >= dev.received
                     /\ NoYounger(dev.heartbeat, dev'.heartbeat)
                     /\ NoYounger(dev.cycle, dev'.cycle)
  <1>0. /\ dev \in Device
        /\ NoYounger(dev.paired_at, dev.paired_at)
        /\ NoYounger(dev.heartbeat, dev.heartbeat)
        /\ NoYounger(dev.cycle, dev.cycle)
        /\ dev.received \in Int
    BY AgesStand DEF TypeOK
  <1>1. ASSUME dev'.paired => dev.paired,
               dev'.paired_at = dev.paired_at, dev'.received = dev.received,
               dev'.heartbeat = dev.heartbeat, dev'.cycle = dev.cycle
        PROVE  Kept
    BY <1>0, <1>1
  <1>2. ASSUME NEW lag, Record(lag) PROVE Kept
    <2>1. PICK s, t : dev' \in {dev, [dev EXCEPT !.state = s, !.since = t]}
      BY <1>2 DEF Record
    <2> QED  BY <1>0, <1>1, <2>1 DEF Device
  <1>3. CASE Tick
    <2>1. /\ dev'.paired_at = Older(dev.paired_at, Higher(BeatCap, WorkCap))
          /\ dev'.heartbeat = Older(dev.heartbeat, BeatCap)
          /\ dev'.received = Older(dev.received, WorkCap)
          /\ dev'.cycle = Older(dev.cycle, WorkCap)
          /\ dev'.paired = dev.paired
      BY <1>0, <1>3 DEF Tick, Aged, Device
    <2>2. dev'.received >= dev.received
      BY <1>0, <2>1, Caps DEF Older
    <2> QED  BY <1>0, <2>1, <2>2, Caps, TimeAges
  <1>4. CASE RevokeCut \/ RevokeRecord \/ RevokeDies
    <2>1. CASE RevokeCut
      BY <1>0, <1>1, <2>1 DEF RevokeCut, Device
    <2>2. CASE RevokeRecord
      BY <1>2, <2>2 DEF RevokeRecord
    <2>3. CASE RevokeDies
      BY <1>1, <2>3 DEF RevokeDies
    <2> QED  BY <1>4, <2>1, <2>2, <2>3
  <1>5. CASE Arrive
    BY <1>0, <1>5 DEF Arrive, Device
  <1>6. ASSUME NEW b \in Beats, BeatStamp(b)
        PROVE  /\ dev'.paired => dev.paired
               /\ NoYounger(dev.paired_at, dev'.paired_at)
               /\ dev'.received >= dev.received
               /\ NoYounger(dev.cycle, dev'.cycle) \/ beat[b].cycled
    BY <1>0, <1>6 DEF BeatStamp, Device
  <1>7. ASSUME NEW b \in Beats, BeatBegin(b) \/ BeatRecord(b) \/ BeatDies(b)
        PROVE  Kept
    <2>1. CASE BeatRecord(b)
      BY <1>2, <2>1 DEF BeatRecord
    <2>2. CASE BeatBegin(b) \/ BeatDies(b)
      BY <1>1, <2>2 DEF BeatBegin, BeatDies
    <2> QED  BY <1>7, <2>1, <2>2
  <1>8. CASE SweepStep \/ SweepSkips \/ SweepDies
    <2>1. CASE SweepRecord
      BY <1>2, <2>1 DEF SweepRecord
    <2>2. CASE SweepBegin \/ PublishRead \/ PublishWrite \/ SweepSkips \/ SweepDies
      BY <1>1, <2>2
         DEF SweepBegin, PublishRead, PublishWrite, SweepSkips, SweepDies
    <2> QED  BY <1>8, <2>1, <2>2 DEF SweepStep
  <1>9. CASE UNCHANGED vars
    BY <1>1, <1>9 DEF vars
  <1>10. CASE FormLoad
    BY <1>1, <1>10 DEF FormLoad
  <1> QED
    BY <1>3, <1>4, <1>5, <1>6, <1>7, <1>8, <1>9, <1>10 DEF Next, BeatStep

\* A form's copy is a row there was, grown older as the row has.
LEMMA CopyKept ==
  ASSUME TypeOK, Enrolled, [Next]_vars
  PROVE  form'.row.paired => form'.row.paired_at # Never
  <1>1. CASE FormLoad
    BY <1>1 DEF FormLoad, Enrolled
  <1>2. CASE FormSave
    BY <1>2 DEF FormSave, Closed, NewDevice
  <1>3. CASE Tick
    <2>1. CASE form.pc = "idle"
      BY <1>3, <2>1 DEF Tick, Enrolled
    <2>2. CASE form.pc # "idle"
      <3>1. form'.row = Aged(form.row) /\ form.row \in Device
        BY <1>3, <2>2 DEF Tick, TypeOK
      <3>2. /\ Aged(form.row).paired = form.row.paired
            /\ Aged(form.row).paired_at
                 = Older(form.row.paired_at, Higher(BeatCap, WorkCap))
        BY <3>1 DEF Aged, Device
      <3>3. form.row.paired_at # Never
              => Older(form.row.paired_at, Higher(BeatCap, WorkCap)) # Never
        BY <3>1, Fields, Caps DEF Older, Age
      <3> QED  BY <3>1, <3>2, <3>3 DEF Enrolled
    <2> QED  BY <2>1, <2>2
  <1>4. CASE form' = form
    BY <1>4 DEF Enrolled
  <1>5. ASSUME NEW b \in Beats, BeatBegin(b) \/ BeatStep(b) \/ BeatDies(b)
        PROVE  form' = form
    BY <1>5 DEF BeatBegin, BeatStep, BeatStamp, BeatRecord, BeatDies
  <1>6. ASSUME SweepStep \/ SweepSkips \/ SweepDies
        PROVE  form' = form
    BY <1>6 DEF SweepStep, SweepBegin, SweepRecord, SweepSkips, SweepDies, PublishRead,
                PublishWrite
  <1>7. ASSUME \/ Redeem \/ RevokeCut \/ RevokeRecord \/ RevokeDies \/ Arrive
               \/ UNCHANGED vars
        PROVE  form' = form
    BY <1>7 DEF Redeem, RevokeCut, RevokeRecord, RevokeDies, Arrive, vars
  <1> QED  BY <1>1, <1>2, <1>3, <1>4, <1>5, <1>6, <1>7 DEF Next

LEMMA EnrolledKept == TypeOK /\ Enrolled /\ [Next]_vars => Enrolled'
  <1> SUFFICES ASSUME TypeOK, Enrolled, [Next]_vars PROVE Enrolled'
    OBVIOUS
  <1>1. dev'.paired => dev'.paired_at # Never
    <2>1. CASE Redeem
      BY <2>1 DEF Redeem, TypeOK, Device
    <2>2. CASE FormSave
      BY <2>2 DEF FormSave, Enrolled
    <2>3. CASE ~Redeem /\ ~FormSave
      <3>1. NoYounger(dev.paired_at, dev'.paired_at) /\ (dev'.paired => dev.paired)
        BY <2>3, ColumnsAge
      <3> QED  BY <3>1 DEF NoYounger, Enrolled
    <2> QED  BY <2>1, <2>2, <2>3
  <1> QED  BY <1>1, CopyKept DEF Enrolled

\* A machine that reads offline goes on reading offline, for as long as it is paired,
\* until it calls in, is paired again or a form puts back its earlier columns: time, a
\* file that arrives, a sweep, a verdict recorded late or a request that dies never
\* bring it back.
SilenceStands ==
    [][LivenessOf(dev, 0) = "offline" =>
          \/ LivenessOf(dev, 0)' \in {"offline", "unknown"}
          \/ Redeem \/ FormSave
          \/ \E b \in Beats : BeatStamp(b)]_vars

\* A machine that reads stuck is working again only when a file arrives, a beat carries a
\* finished cycle, it is paired again or a form puts back its earlier columns: a
\* heartbeat that says nothing of work is none.
StuckStands ==
    [][LivenessOf(dev, 0) = "cycle_stuck" =>
          \/ LivenessOf(dev, 0)' # "online"
          \/ Redeem \/ FormSave
          \/ Arrive
          \/ \E b \in Beats : BeatStamp(b) /\ beat[b].cycled]_vars

LEMMA ReadingsStand ==
  ASSUME TypeOK, TypeOK', Enrolled, [Next]_vars, ~Redeem, ~FormSave
  PROVE  /\ LivenessOf(dev, 0) = "offline" =>
              \/ LivenessOf(dev', 0) \in {"offline", "unknown"}
              \/ \E b \in Beats : BeatStamp(b)
         /\ LivenessOf(dev, 0) = "cycle_stuck" =>
              \/ LivenessOf(dev', 0) # "online"
              \/ Arrive
              \/ \E b \in Beats : BeatStamp(b) /\ beat[b].cycled
  <1>1. dev \in Device /\ dev' \in Device
    BY DEF TypeOK
  <1>2. dev.paired => dev.paired_at # Never
    BY DEF Enrolled
  <1> QED  BY <1>1, <1>2, ColumnsAge, OfflineStays, StuckStays

\* Silence is over only when the machine calls, is paired anew or has its row written
\* over by a form: no interleaving of heartbeats served late, sweeps, arrivals and
\* revokes makes an offline machine read otherwise, whatever the thresholds and the
\* machine's clock.
THEOREM SilenceIsLasting == Spec => SilenceStands
  <1>1. Init => TypeOK /\ Enrolled
    BY InitTyped DEF Init, Enrolled, NewDevice, Closed
  <1>2. TypeOK /\ Enrolled /\ [Next]_vars => (TypeOK /\ Enrolled)'
    BY TypesKept, EnrolledKept
  <1>3. TypeOK /\ TypeOK' /\ Enrolled /\ [Next]_vars =>
          [LivenessOf(dev, 0) = "offline" =>
              \/ LivenessOf(dev, 0)' \in {"offline", "unknown"}
              \/ Redeem \/ FormSave
              \/ \E b \in Beats : BeatStamp(b)]_vars
    BY ReadingsStand
  <1> QED  BY <1>1, <1>2, <1>3, PTL DEF Spec, SilenceStands

\* A stuck machine is called online again only for work: calling in is not working.
THEOREM StuckIsLasting == Spec => StuckStands
  <1>1. Init => TypeOK /\ Enrolled
    BY InitTyped DEF Init, Enrolled, NewDevice, Closed
  <1>2. TypeOK /\ Enrolled /\ [Next]_vars => (TypeOK /\ Enrolled)'
    BY TypesKept, EnrolledKept
  <1>3. TypeOK /\ TypeOK' /\ Enrolled /\ [Next]_vars =>
          [LivenessOf(dev, 0) = "cycle_stuck" =>
              \/ LivenessOf(dev, 0)' # "online"
              \/ Redeem \/ FormSave
              \/ Arrive
              \/ \E b \in Beats : BeatStamp(b) /\ beat[b].cycled]_vars
    BY ReadingsStand
  <1> QED  BY <1>1, <1>2, <1>3, PTL DEF Spec, StuckStands
====
