---------------------------------- MODULE Fleet -----------------------------------
(* What ADL believes about one machine: its pairing, the heartbeats and arrivals *)
(* stamped on its row (models.py), the ladder that reads them (health.py), the   *)
(* transitions log, the sweep that notices silence and the verdict it publishes  *)
(* for the diagnostic (fleet.py, tasks.py), and the device's edit form, which    *)
(* saves every column of the copy it loaded, the stamps and the state included.  *)
(*                                                                              *)
(* Time is counted in heartbeat intervals and does not end: a moment is kept as  *)
(* its age, which grows with Tick and stops growing past the last threshold it   *)
(* is compared with. `Never' is a column that is still null. The `now' an actor  *)
(* captured is likewise kept as how long ago that was, its lag.                  *)
(*                                                                              *)
(* A code that can be redeemed is the administrator's to issue at any time, so    *)
(* pairing is the one step Redeem. A second connection of the machine would be   *)
(* read and written as this one is; a paused one is not published, and left out. *)

EXTENDS Integers

CONSTANTS
    Beats,          \* heartbeat requests that can be served at once
    DegradedAfter,  \* heartbeats missed
    OfflineAfter,
    StuckAfter,     \* check_interval_minutes * cycle_stuck_multiplier
    Refresh,        \* SOURCE_EVIDENCE_REFRESH_SECONDS
    Skew,           \* the machine's clock minus ADL's
    Never,
    MaxLag,         \* bound: how far a request or a sweep runs behind its `now'
    MaxPairs,       \* bound: codes redeemed
    MaxUpsets,      \* bound: workers that die, rows that cannot be written, forms saved
    Prompt          \* bound: a form is saved right after the first write it misses, and
                    \* within the interval

ASSUME FleetAssumption ==
    /\ {DegradedAfter, OfflineAfter, StuckAfter, Refresh} \subseteq Nat \ {0}
    /\ Skew \in Int
    /\ Never \notin Int
    /\ {MaxLag, MaxPairs, MaxUpsets} \subseteq Nat
    /\ Prompt \in BOOLEAN

VARIABLES
    dev,        \* AgentDevice
    log,        \* where the AgentDeviceStateTransition rows end, and whether one does
                \* not begin where the one before it ended, or says nothing new
    evidence,   \* the newest SourceProbeResult of the machine's connection
    beat,       \* heartbeats being served
    sweep,      \* the sweep
    revoking,   \* the administrator's revoke
    form,       \* the edit form being saved, with the copy it loaded
    tainted,    \* a form has put an earlier state over the last one recorded
    pairs, upsets

vars == <<dev, log, evidence, beat, sweep, revoking, form, tainted, pairs, upsets>>

States == {"online", "degraded", "offline", "cycle_stuck", "unknown"}

Higher(a, b) == IF a > b THEN a ELSE b
Lower(a, b) == IF a < b THEN a ELSE b

\* An age past which no comparison changes.
BeatCap == Higher(DegradedAfter, OfflineAfter) + MaxLag
WorkCap == StuckAfter + MaxLag + 1
NewsCap == Refresh + MaxLag

Age(cap) == 0..cap \cup {Never}
Device == [paired : BOOLEAN, paired_at : Age(Higher(BeatCap, WorkCap)),
           heartbeat : Age(BeatCap), received : 0..WorkCap,
           cycle : Lower(-Skew, 0)..Higher(WorkCap, MaxLag - Skew) \cup {Never},
           state : States, since : Age(NewsCap)]

IdleBeat == [pc |-> "idle", lag |-> 0, cycled |-> FALSE]
IdleSweep == [pc |-> "idle", lag |-> 0, failed |-> FALSE]

NewDevice == [paired |-> FALSE, paired_at |-> Never, heartbeat |-> Never,
              received |-> WorkCap, cycle |-> Never, state |-> "unknown", since |-> Never]
Closed == [pc |-> "idle", lag |-> 0, row |-> NewDevice]

Init ==
    /\ dev = NewDevice
    /\ log = [last |-> "unknown", broken |-> FALSE]
    /\ evidence = [at |-> Never, failed |-> FALSE]
    /\ beat = [b \in Beats |-> IdleBeat]
    /\ sweep = IdleSweep
    /\ revoking = "no"
    /\ form = Closed
    /\ tainted = FALSE
    /\ pairs = 0 /\ upsets = 0

Upset == upsets < MaxUpsets /\ upsets' = upsets + 1

-----------------------------------------------------------------------------------
(* Time.                                                                         *)

Older(age, cap) == IF age = Never \/ age >= cap THEN age ELSE age + 1

Behind(actor) == IF actor.pc = "idle" THEN actor ELSE [actor EXCEPT !.lag = @ + 1]

\* A row, or a copy of one, an interval later.
Aged(row) == [row EXCEPT !.paired_at = Older(@, Higher(BeatCap, WorkCap)),
                         !.heartbeat = Older(@, BeatCap),
                         !.received = Older(@, WorkCap),
                         !.cycle = Older(@, WorkCap),
                         !.since = Older(@, NewsCap)]

\* One heartbeat interval passes. Requests and sweeps are served within MaxLag.
Tick ==
    /\ \A b \in Beats : beat[b].lag < MaxLag
    /\ sweep.lag < MaxLag /\ form.lag < MaxLag
    /\ Prompt => form.pc = "idle"
    /\ dev' = Aged(dev)
    /\ form' = IF form.pc = "idle" THEN form
               ELSE [form EXCEPT !.lag = @ + 1, !.row = Aged(@)]
    /\ evidence' = [evidence EXCEPT !.at = Older(@, NewsCap)]
    /\ beat' = [b \in Beats |-> Behind(beat[b])]
    /\ sweep' = Behind(sweep)
    /\ UNCHANGED <<log, revoking, tainted, pairs, upsets>>

-----------------------------------------------------------------------------------
(* liveness_of. Every operator here takes the device and the lag of `now'.       *)

\* max(now - moment, 0)
Elapsed(age, lag) == Higher(age - lag, 0)

\* mutant: silence is only measured from a heartbeat.
MissedOnceHeard(d, lag) ==
    IF d.heartbeat # Never THEN Elapsed(d.heartbeat, lag) ELSE 0

\* device.last_heartbeat_at or device.paired_at
Missed(d, lag) ==
    Elapsed(IF d.heartbeat # Never THEN d.heartbeat ELSE d.paired_at, lag)

Silent(d, lag) == Missed(d, lag) >= Lower(DegradedAfter, OfflineAfter)

\* mutant: a machine that never finished a cycle has nothing to be measured from.
CycledOverdueOnly(d, lag) == d.cycle # Never /\ Elapsed(d.cycle, lag) > StuckAfter

\* device.last_cycle_completed_at or device.paired_at
CycleOverdue(d, lag) ==
    Elapsed(IF d.cycle # Never THEN d.cycle ELSE d.paired_at, lag) > StuckAfter

\* None counts for nothing, and so does WorkCap.
Arriving(d, lag) == Elapsed(d.received, lag) <= StuckAfter

\* mutant: a machine yet to be heard is given a state outside the vocabulary.
LivenessNever(d, lag) ==
    IF d.paired /\ d.heartbeat = Never THEN "never" ELSE "online"

LivenessOf(d, lag) ==
    IF ~d.paired THEN "unknown"
    ELSE IF Silent(d, lag)
         THEN IF Missed(d, lag) >= OfflineAfter THEN "offline" ELSE "degraded"
    ELSE IF CycleOverdue(d, lag) /\ ~Arriving(d, lag) THEN "cycle_stuck"
    ELSE "online"

-----------------------------------------------------------------------------------
(* record_liveness, by whichever actor holds an instance of the device.          *)

\* A row from the standing state to `state' begins where the log ends.
Follows(state) == log.last = dev.state /\ state # dev.state

\* Under the row's lock: a change is logged and becomes the state, as of the lag. A
\* row is not held against the log if a form had moved the state before it.
Record(lag) ==
    LET state == LivenessOf(dev, lag) IN
    IF state = dev.state
    THEN UNCHANGED <<dev, log, tainted>>
    ELSE /\ dev' = [dev EXCEPT !.state = state, !.since = lag]
         /\ log' = [last |-> state,
                    broken |-> log.broken \/ ~(tainted \/ Follows(state))]
         /\ tainted' = FALSE

-----------------------------------------------------------------------------------
(* The machine and the administrator.                                            *)

\* redeem_pairing_code: first enrolment, rotation or a return from revocation.
Redeem ==
    /\ pairs < MaxPairs
    /\ pairs' = pairs + 1
    /\ dev' = [dev EXCEPT !.paired = TRUE, !.paired_at = 0]
    /\ UNCHANGED <<log, evidence, beat, sweep, revoking, form, tainted, upsets>>

\* mutant: the revoke is over with its save.
RevokeOnly ==
    /\ dev.paired
    /\ dev' = [dev EXCEPT !.paired = FALSE]
    /\ UNCHANGED <<log, evidence, beat, sweep, revoking, form, tainted, pairs,
                   upsets>>

\* mutant: the revoke writes the state itself, and no row.
RevokeResets ==
    /\ dev.paired
    /\ revoking # "cut"
    /\ dev' = [dev EXCEPT !.paired = FALSE, !.state = "unknown"]
    /\ revoking' = "cut"
    /\ UNCHANGED <<log, evidence, beat, sweep, form, tainted, pairs, upsets>>

\* revoke: the token goes, in a save of its own ...
RevokeCut ==
    /\ dev.paired
    /\ revoking # "cut"
    /\ dev' = [dev EXCEPT !.paired = FALSE]
    /\ revoking' = "cut"
    /\ UNCHANGED <<log, evidence, beat, sweep, form, tainted, pairs, upsets>>

\* ... and what that makes of the machine is recorded in the next.
RevokeRecord ==
    /\ revoking = "cut"
    /\ revoking' = "no"
    /\ Record(0)
    /\ UNCHANGED <<evidence, beat, sweep, form, pairs, upsets>>

RevokeDies ==
    /\ revoking = "cut"
    /\ Upset
    /\ revoking' = "lost"
    /\ UNCHANGED <<dev, log, evidence, beat, sweep, form, tainted, pairs>>

\* stamp_device: a file arrived.
Arrive ==
    /\ dev.paired
    /\ dev' = [dev EXCEPT !.received = 0]
    /\ UNCHANGED <<log, evidence, beat, sweep, revoking, form, tainted, pairs,
                   upsets>>

\* The device's edit form is posted: the view loads the row, without its lock ...
FormLoad ==
    /\ form.pc = "idle"
    /\ Upset
    /\ form' = [pc |-> "loaded", lag |-> 0, row |-> dev]
    /\ UNCHANGED <<dev, log, evidence, beat, sweep, revoking, tainted, pairs>>

\* ... and AgentDevice.save writes all of it back, the state of then without a row.
FormSave ==
    /\ form.pc = "loaded"
    /\ dev' = form.row
    /\ tainted' = (form.row.state # log.last)
    /\ form' = Closed
    /\ UNCHANGED <<log, evidence, beat, sweep, revoking, pairs, upsets>>

-----------------------------------------------------------------------------------
(* A heartbeat.                                                                  *)

\* The token is good and `now' is taken. The beat carries a cycle the machine has
\* just finished, or nothing ADL has not been told.
BeatBegin(b) ==
    /\ beat[b].pc = "idle"
    /\ dev.paired
    /\ \E cycled \in BOOLEAN :
         beat' = [beat EXCEPT ![b] = [pc |-> "begun", lag |-> 0, cycled |-> cycled]]
    /\ UNCHANGED <<dev, log, evidence, sweep, revoking, form, tainted, pairs,
                   upsets>>

\* record_heartbeat's UPDATE. The cycle is dated by the machine's own clock.
BeatStamp(b) ==
    /\ beat[b].pc = "begun"
    /\ dev' = [dev EXCEPT !.heartbeat = beat[b].lag,
                          !.cycle = IF beat[b].cycled THEN beat[b].lag - Skew ELSE @]
    /\ beat' = [beat EXCEPT ![b].pc = "stamped", ![b].cycled = FALSE]
    /\ UNCHANGED <<log, evidence, sweep, revoking, form, tainted, pairs, upsets>>

\* record_passes over, whether or not it could store them; the verdict.
BeatRecord(b) ==
    /\ beat[b].pc = "stamped"
    /\ Record(beat[b].lag)
    /\ beat' = [beat EXCEPT ![b] = IdleBeat]
    /\ UNCHANGED <<evidence, sweep, revoking, form, pairs, upsets>>

BeatDies(b) ==
    /\ beat[b].pc # "idle"
    /\ Upset
    /\ beat' = [beat EXCEPT ![b] = IdleBeat]
    /\ UNCHANGED <<dev, log, evidence, sweep, revoking, form, tainted, pairs>>

-----------------------------------------------------------------------------------
(* The sweep: a singleton, every minute.                                         *)

\* sweep_liveness takes its `now' and the query's copy of an active() device.
SweepBegin ==
    /\ sweep.pc = "idle"
    /\ sweep' = IF dev.paired
                THEN [IdleSweep EXCEPT !.pc = "asking"]
                ELSE [IdleSweep EXCEPT !.pc = "publishing"]
    /\ UNCHANGED <<dev, log, evidence, beat, revoking, form, tainted, pairs,
                   upsets>>

\* sweep_liveness is through, and publish_source_evidence takes a `now' of its own.
SweepRecord ==
    /\ sweep.pc = "asking"
    /\ Record(sweep.lag)
    /\ sweep' = [IdleSweep EXCEPT !.pc = "publishing"]
    /\ UNCHANGED <<evidence, beat, revoking, form, pairs, upsets>>

\* The device's row cannot be written: logged, and the sweep goes on.
SweepSkips ==
    /\ sweep.pc = "asking"
    /\ Upset
    /\ sweep' = [IdleSweep EXCEPT !.pc = "publishing"]
    /\ UNCHANGED <<dev, log, evidence, beat, revoking, form, tainted, pairs>>

\* mutant: a standing row is only replaced when the state has moved.
NewsOnly(lag) ==
    \/ evidence.at = Never
    \/ dev.since # Never /\ evidence.at > dev.since

\* _worth_writing: none yet, one older than the state, or one about to go stale.
WorthWriting(lag) ==
    \/ evidence.at = Never
    \/ dev.since # Never /\ evidence.at > dev.since
    \/ evidence.at - lag >= Refresh

\* The connection and its device are loaded, the standing row looked up, and the
\* verdict worked out from the loaded copy and the time it is by then.
PublishRead ==
    /\ sweep.pc = "publishing"
    /\ sweep' = IF WorthWriting(sweep.lag)
                THEN [sweep EXCEPT !.pc = "writing",
                                   !.failed = LivenessOf(dev, 0) # "online"]
                ELSE IdleSweep
    /\ UNCHANGED <<dev, log, evidence, beat, revoking, form, tainted, pairs,
                   upsets>>

\* SourceProbeResult.objects.create(..., at=now)
PublishWrite ==
    /\ sweep.pc = "writing"
    /\ evidence' = [at |-> sweep.lag, failed |-> sweep.failed]
    /\ sweep' = IdleSweep
    /\ UNCHANGED <<dev, log, beat, revoking, form, tainted, pairs, upsets>>

\* The worker dies, or the result's row cannot be written.
SweepDies ==
    /\ sweep.pc # "idle"
    /\ Upset
    /\ sweep' = IdleSweep
    /\ UNCHANGED <<dev, log, evidence, beat, revoking, form, tainted, pairs>>

-----------------------------------------------------------------------------------

BeatStep(b) == BeatStamp(b) \/ BeatRecord(b)

SweepStep ==
    SweepBegin \/ SweepRecord \/ PublishRead \/ PublishWrite

\* The row has been written since the form loaded it.
Overtaken == form.pc = "loaded" /\ form.row # dev

Next ==
    \/ FormSave
    \/ /\ Prompt => ~Overtaken
       /\ \/ Tick
          \/ Redeem \/ RevokeCut \/ RevokeRecord \/ RevokeDies \/ FormLoad \/ Arrive
          \/ \E b \in Beats : BeatBegin(b) \/ BeatStep(b) \/ BeatDies(b)
          \/ SweepStep \/ SweepSkips \/ SweepDies

Spec == Init /\ [][Next]_vars

\* Time passes, requests that were begun are finished, and Beat starts the sweep
\* again when it is over. No machine owes a heartbeat, a cycle or a file.
Fairness ==
    /\ WF_vars(Tick)
    /\ \A b \in Beats : WF_vars(BeatStep(b))
    /\ WF_vars(SweepStep)
    /\ WF_vars(RevokeRecord)
    /\ WF_vars(FormSave)

FairSpec == Spec /\ Fairness

-----------------------------------------------------------------------------------
(* Properties.                                                                   *)

TypeOK ==
    /\ dev \in Device
    /\ log \in [last : States, broken : BOOLEAN]
    /\ evidence \in [at : Age(NewsCap), failed : BOOLEAN]
    /\ beat \in [Beats -> [pc : {"idle", "begun", "stamped"}, lag : 0..MaxLag,
                           cycled : BOOLEAN]]
    /\ sweep \in [pc : {"idle", "asking", "publishing", "writing"},
                  lag : 0..MaxLag, failed : BOOLEAN]
    /\ revoking \in {"no", "cut", "lost"}
    /\ form \in [pc : {"idle", "loaded"}, lag : 0..MaxLag, row : Device]
    /\ tainted \in BOOLEAN
    /\ pairs \in 0..MaxPairs
    /\ upsets \in 0..MaxUpsets

\* The transitions log is a history: each row starts where the last one ended and
\* says something new, and the device's state does not move without its row --
\* whichever of heartbeats, sweep and revoke come to the row at once. The edit form
\* alone moves it so, by saving a copy whose state has been overtaken; what it puts
\* back lasts until the next row, and that row alone begins somewhere else.
LogIsAChain == ~log.broken /\ (~tainted => log.last = dev.state)

\* A machine that stops calling in is told from a working one: it ends up offline
\* and stays so, a heartbeat served late or a lost sweep notwithstanding.
SilenceIsNoticed ==
    (<>[]\A b \in Beats : beat[b].pc = "idle")
        => <>[](dev.paired => dev.state = "offline")

\* A machine that goes on calling in and has stopped working does not go on being
\* called online.
StoppedWorking ==
    /\ \A b \in Beats : ~beat[b].cycled
    /\ dev.received = WorkCap
    /\ pairs = MaxPairs
StuckIsNoticed == (<>[]StoppedWorking) => <>[](dev.paired => dev.state # "online")

\* A revoked machine drops out of the sweep, so the revoke has the last word: its
\* history does not end on what it was doing when it was cut off, unless the revoke
\* itself was cut off between its two writes or a form wrote over the second.
RevokedReadsUnknown ==
    (<>[]~dev.paired) => <>[](dev.state = "unknown" \/ revoking = "lost" \/ tainted)

Failing == LivenessOf(dev, 0) # "online"

\* What the diagnostic reads comes to agree with what ADL believes, though a verdict
\* can change between being read and being written, and the row then looks current.
EvidenceFollows ==
    (<>[][Failing' = Failing]_vars)
        => <>[](evidence.at # Never /\ evidence.failed = Failing)

\* LivenessState: 'Clock skew is deliberately *not* here. It is a finding about a
\* machine that is otherwise fine'; skew_note: 'never allowed to become the verdict'.
\* Claimed of a machine whose last cycle really ended less than StuckAfter ago.
SkewIsNotTheVerdict ==
    LivenessOf(dev, 0) = "cycle_stuck"
        => dev.cycle = Never \/ dev.cycle + Skew > StuckAfter
====
