---------------------------------- MODULE Nudge -----------------------------------
(* When one connection's files are drained: the nudge an upload gives, the latch  *)
(* that coalesces a burst of them, the drain it queues, and the scheduled pass    *)
(* behind it (tasks.py, the end of the upload view, plugins.get_station_data).    *)
(*                                                                              *)
(* The one fact about time that matters is kept and the rest left out: a drain is *)
(* queued after its latch was taken and waits for as long as the latch lives, so  *)
(* it starts only once that latch is gone.                                        *)
(*                                                                              *)
(* A drain is named after the file whose request queued it. What core does with   *)
(* a run -- one station at a time under a lock per station, its waiting list read *)
(* once the lock is held -- is external.                                          *)

EXTENDS Naturals, FiniteSets

CONSTANTS
    Stations,
    PerStation,     \* bound: files that arrive for a station
    Beat,           \* the scheduled pass
    Free,           \* no holder
    MaxFaults,      \* bound: requests and workers that die
    MaxPauses       \* bound: times an operator pauses the connection

ASSUME NudgeAssumption ==
    /\ PerStation \in Nat
    /\ MaxFaults \in Nat
    /\ MaxPauses \in Nat

Files == Stations \X (1..PerStation)
At(s) == {f \in Files : f[1] = s}
Runs == Files \cup {Beat}

ASSUME FreeIsNoRun == Free \notin Runs

VARIABLES
    request,    \* the upload of each file
    latch,      \* the cache entry, by the file whose request added it
    cover,      \* whose drain each file was left to
    task,       \* the drain each file's request queued
    todo,       \* stations a run has yet to visit
    lock,       \* core's lock on each station
    listed,     \* what a run found waiting at a station and has yet to drain
    drains,     \* how often each file was drained
    paused,     \* ~plugin_processing_enabled
    pauses,
    excused,    \* files whose drain met a held lock, a pause or a fault (history)
    faults

vars == <<request, latch, cover, task, todo, lock, listed, drains, paused, pauses,
          excused, faults>>

Init ==
    /\ request = [f \in Files |-> "none"]
    /\ latch = Free
    /\ cover = [f \in Files |-> Free]
    /\ task = [f \in Files |-> "none"]
    /\ todo = [r \in Runs |-> {}]
    /\ lock = [s \in Stations |-> Free]
    /\ listed = [r \in Runs |-> {}]
    /\ drains = [f \in Files |-> 0]
    /\ paused = FALSE
    /\ pauses = 0
    /\ excused = {}
    /\ faults = 0

Fault == faults < MaxFaults /\ faults' = faults + 1

-----------------------------------------------------------------------------------
(* The upload's request.                                                         *)

\* record_upload has committed.
Land(f) ==
    /\ request[f] = "none"
    /\ request' = [request EXCEPT ![f] = "landed"]
    /\ UNCHANGED <<latch, cover, task, todo, lock, listed, drains, paused, pauses,
                   excused, faults>>

\* cache.add(nudge_latch_key(...)): taken, or found taken.
Nudge(f) ==
    /\ request[f] = "landed"
    /\ IF latch = Free
       THEN /\ latch' = f
            /\ cover' = [cover EXCEPT ![f] = f]
            /\ request' = [request EXCEPT ![f] = "latched"]
       ELSE /\ cover' = [cover EXCEPT ![f] = latch]
            /\ request' = [request EXCEPT ![f] = "over"]
            /\ UNCHANGED latch
    /\ UNCHANGED <<task, todo, lock, listed, drains, paused, pauses, excused, faults>>

\* drain_agent_connection.apply_async(countdown=NUDGE_DELAY_SECONDS)
QueueDrain(f) ==
    /\ request[f] = "latched"
    /\ request' = [request EXCEPT ![f] = "over"]
    /\ task' = [task EXCEPT ![f] = "counting"]
    /\ UNCHANGED <<latch, cover, todo, lock, listed, drains, paused, pauses, excused,
                   faults>>

\* The web worker dies before the nudge is given, or between its two halves. It never
\* gets to undo the latch it took.
RequestDies(f) ==
    /\ request[f] \in {"landed", "latched"}
    /\ Fault
    /\ request' = [request EXCEPT ![f] = "over"]
    /\ UNCHANGED <<latch, cover, task, todo, lock, listed, drains, paused, pauses,
                   excused>>

LatchExpires ==
    /\ latch # Free
    /\ latch' = Free
    /\ UNCHANGED <<request, cover, task, todo, lock, listed, drains, paused, pauses,
                   excused, faults>>

-----------------------------------------------------------------------------------
(* The drain.                                                                    *)

\* mutant: the drain waits for less than its latch lives.
DueAtOnce(f) == task[f] = "counting"

\* The countdown is over, and the latch was taken before it began.
Due(f) == task[f] = "counting" /\ latch # f

\* history: f's drain does not get to the files at S that were left to it.
Excuse(f, S) ==
    excused' = excused \cup {g \in Files : cover[g] = f /\ g[1] \in S}

\* drain_agent_connection: nothing if the connection is paused, else a run.
RunDrain(f) ==
    /\ Due(f)
    /\ task' = [task EXCEPT ![f] = "over"]
    /\ IF paused THEN Excuse(f, Stations) /\ UNCHANGED todo
                 ELSE todo' = [todo EXCEPT ![f] = Stations] /\ UNCHANGED excused
    /\ UNCHANGED <<request, latch, cover, lock, listed, drains, paused, pauses, faults>>

\* Celery Beat starts the connection's own run, once its last one is over.
RunBeat ==
    /\ ~paused
    /\ todo[Beat] = {} /\ \A s \in Stations : lock[s] # Beat
    /\ todo' = [todo EXCEPT ![Beat] = Stations]
    /\ UNCHANGED <<request, latch, cover, task, lock, listed, drains, paused, pauses,
                   excused, faults>>

\* mutant: the schedule leaves a file to the drain that was queued for it.
WaitingUnnudged(s) ==
    {f \in At(s) : request[f] # "none" /\ drains[f] = 0 /\ cover[f] = Free}

\* waiting = list(AgentStationDataFile.waiting_for(station_link))
Waiting(s) == {f \in At(s) : request[f] # "none" /\ drains[f] = 0}

\* mutant: the station is drained whoever else is draining it.
Unlocked(s) == TRUE

\* The station's lock can be had.
Lockable(s) == lock[s] = Free

\* mutant: the lock is held in the station's name and not in the run's.
TakenForStation(r, s) == [lock EXCEPT ![s] = s]

Taken(r, s) == [lock EXCEPT ![s] = r]

\* A run comes to a station: it takes the lock and reads what is waiting, or finds
\* the lock held and records a skip.
Visit(r, s) ==
    /\ s \in todo[r]
    /\ todo' = [todo EXCEPT ![r] = @ \ {s}]
    /\ IF Lockable(s)
       THEN /\ lock' = Taken(r, s)
            /\ listed' = [listed EXCEPT ![r] = @ \cup Waiting(s)]
            /\ UNCHANGED excused
       ELSE /\ IF r \in Files THEN Excuse(r, {s}) ELSE UNCHANGED excused
            /\ UNCHANGED <<lock, listed>>
    /\ UNCHANGED <<request, latch, cover, task, drains, paused, pauses, faults>>

\* One listed file gets its verdict.
DrainFile(r, f) ==
    /\ f \in listed[r]
    /\ listed' = [listed EXCEPT ![r] = @ \ {f}]
    /\ drains' = [drains EXCEPT ![f] = @ + 1]
    /\ UNCHANGED <<request, latch, cover, task, todo, lock, paused, pauses, excused,
                   faults>>

\* The station is done with.
Release(r, s) ==
    /\ lock[s] = r
    /\ listed[r] \cap At(s) = {}
    /\ lock' = [lock EXCEPT ![s] = Free]
    /\ UNCHANGED <<request, latch, cover, task, todo, listed, drains, paused, pauses,
                   excused, faults>>

\* A run stops: its worker is killed, or the soft time limit ends the batch. Its
\* locks are released, or lapse.
RunDies(r) ==
    /\ todo[r] # {} \/ \E s \in Stations : lock[s] = r
    /\ Fault
    /\ todo' = [todo EXCEPT ![r] = {}]
    /\ listed' = [listed EXCEPT ![r] = {}]
    /\ lock' = [s \in Stations |-> IF lock[s] = r THEN Free ELSE lock[s]]
    /\ UNCHANGED <<request, latch, cover, task, drains, paused, pauses, excused>>

\* The operator pauses the connection, and lifts the pause. Files still arrive.
Pause ==
    /\ ~paused
    /\ pauses < MaxPauses
    /\ paused' = TRUE
    /\ pauses' = pauses + 1
    /\ UNCHANGED <<request, latch, cover, task, todo, lock, listed, drains, excused,
                   faults>>

Resume ==
    /\ paused
    /\ paused' = FALSE
    /\ UNCHANGED <<request, latch, cover, task, todo, lock, listed, drains, pauses,
                   excused, faults>>

-----------------------------------------------------------------------------------

RequestStep(f) == Nudge(f) \/ QueueDrain(f)

RunStep(r) ==
    \/ \E s \in Stations : Visit(r, s) \/ Release(r, s)
    \/ \E f \in Files : DrainFile(r, f)

Next ==
    \/ \E f \in Files : Land(f) \/ RequestStep(f) \/ RequestDies(f) \/ RunDrain(f)
    \/ LatchExpires \/ RunBeat \/ Pause \/ Resume
    \/ \E r \in Runs : RunStep(r) \/ RunDies(r)

Spec == Init /\ [][Next]_vars

\* Requests and queued drains finish, a run visits its stations and empties its list,
\* a latch does not outlive its timeout, and Celery Beat keeps to its schedule.
BeatSpec ==
    /\ Spec
    /\ \A f \in Files : WF_vars(RequestStep(f)) /\ WF_vars(RunDrain(f))
    /\ \A r \in Runs : WF_vars(RunStep(r))
    /\ WF_vars(LatchExpires)
    /\ WF_vars(RunBeat)

-----------------------------------------------------------------------------------
(* Properties.                                                                   *)

TypeOK ==
    /\ request \in [Files -> {"none", "landed", "latched", "over"}]
    /\ latch \in Files \cup {Free}
    /\ cover \in [Files -> Files \cup {Free}]
    /\ task \in [Files -> {"none", "counting", "over"}]
    /\ todo \in [Runs -> SUBSET Stations]
    /\ lock \in [Stations -> Runs \cup {Free}]
    /\ listed \in [Runs -> SUBSET Files]
    /\ drains \in [Files -> Nat]
    /\ paused \in BOOLEAN
    /\ pauses \in 0..MaxPauses
    /\ excused \in SUBSET Files
    /\ faults \in 0..MaxFaults

\* However a nudged run, another nudged run and the schedule land together, no file is
\* drained by two of them.
DrainedOnce == \A f \in Files : drains[f] <= 1

\* A burst needs no schedule: a file whose request is over, its nudge given or found
\* unnecessary, is drained or still on its way to be -- the drain it was left to is to be
\* queued, counting down or yet to come to its station, or a run has it on its list. The
\* exceptions are a drain that found its station locked or the connection paused, and a
\* fault.
NudgeSuffices ==
    \A f \in Files :
        request[f] = "over" /\ drains[f] = 0 /\ f \notin excused /\ faults = 0 =>
            \/ request[cover[f]] = "latched"
            \/ task[cover[f]] = "counting"
            \/ f[1] \in todo[cover[f]]
            \/ \E r \in Runs : f \in listed[r]

\* Whatever a nudge misses, loses or arrives too early for is picked up by the
\* schedule, as long as the connection is not left paused.
ScheduleIsTheNet ==
    (<>[]~paused) => \A f \in Files : request[f] = "landed" ~> drains[f] > 0
====
