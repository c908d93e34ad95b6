------------------------------- MODULE NudgeProofs --------------------------------
(* What nudged and scheduled drains keep for any stations, files, faults and      *)
(* pauses. That a file is drained once rests on the lists: a file on one is       *)
(* undrained and its station locked by the run whose list it is, and a lock has   *)
(* one holder. That a nudge suffices rests on the latch: as long as it is held    *)
(* the drain it promises is queued or about to be, so whatever is left to that    *)
(* drain comes before it starts.                                                  *)

EXTENDS Nudge, TLAPS

USE NudgeAssumption DEF NudgeAssumption

-----------------------------------------------------------------------------------
(* Types.                                                                          *)

LEMMA InitTyped == Init => TypeOK
  <1>1. 0 \in 0..MaxPauses /\ 0 \in 0..MaxFaults /\ 0 \in Nat
    OBVIOUS
  <1>2. {} \in SUBSET Stations /\ {} \in SUBSET Files
    OBVIOUS
  <1> SUFFICES ASSUME Init PROVE TypeOK
    OBVIOUS
  <1>3. request \in [Files -> {"none", "landed", "latched", "over"}]
        /\ task \in [Files -> {"none", "counting", "over"}]
    BY DEF Init
  <1>4. cover \in [Files -> Files \cup {Free}] /\ lock \in [Stations -> Runs \cup {Free}]
    BY DEF Init
  <1>5. todo \in [Runs -> SUBSET Stations] /\ listed \in [Runs -> SUBSET Files]
    BY <1>2 DEF Init
  <1>6. drains \in [Files -> Nat]
    BY <1>1 DEF Init
  <1>7. /\ latch \in Files \cup {Free} /\ paused \in BOOLEAN /\ excused \in SUBSET Files
        /\ pauses \in 0..MaxPauses /\ faults \in 0..MaxFaults
    BY <1>1, <1>2 DEF Init
  <1> QED  BY <1>3, <1>4, <1>5, <1>6, <1>7 DEF TypeOK

LEMMA FaultTyped ==
  ASSUME TypeOK, Fault
  PROVE  faults' \in 0..MaxFaults
  BY DEF TypeOK, Fault

LEMMA FileIsARun == Files \subseteq Runs
  BY DEF Runs

LEMMA RequestTyped ==
  ASSUME TypeOK, NEW f \in Files, Land(f) \/ RequestStep(f) \/ RequestDies(f)
  PROVE  TypeOK'
  <1>1. CASE Land(f)
    BY <1>1 DEF Land, TypeOK
  <1>2. CASE Nudge(f)
    BY <1>2 DEF Nudge, TypeOK
  <1>3. CASE QueueDrain(f)
    BY <1>3 DEF QueueDrain, TypeOK
  <1>4. CASE RequestDies(f)
    BY <1>4, FaultTyped DEF RequestDies, TypeOK
  <1> QED  BY <1>1, <1>2, <1>3, <1>4 DEF RequestStep

LEMMA StartTyped ==
  ASSUME TypeOK, (\E f \in Files : RunDrain(f)) \/ LatchExpires \/ RunBeat \/ Pause \/ Resume
  PROVE  TypeOK'
  <1>1. ASSUME NEW f \in Files, RunDrain(f) PROVE TypeOK'
    <2>1. excused' \in SUBSET Files /\ todo' \in [Runs -> SUBSET Stations]
      BY <1>1 DEF RunDrain, Excuse, TypeOK
    <2> QED  BY <1>1, <2>1 DEF RunDrain, TypeOK
  <1>2. CASE LatchExpires
    BY <1>2 DEF LatchExpires, TypeOK
  <1>3. CASE RunBeat
    BY <1>3 DEF RunBeat, TypeOK
  <1>4. CASE Pause
    BY <1>4 DEF Pause, TypeOK
  <1>5. CASE Resume
    BY <1>5 DEF Resume, TypeOK
  <1> QED  BY <1>1, <1>2, <1>3, <1>4, <1>5

LEMMA RunTyped ==
  ASSUME TypeOK, NEW r \in Runs, RunStep(r) \/ RunDies(r)
  PROVE  TypeOK'
  <1>1. ASSUME NEW s \in Stations, Visit(r, s) PROVE TypeOK'
    <2>1. todo' \in [Runs -> SUBSET Stations]
      BY <1>1 DEF Visit, TypeOK
    <2>2. lock' \in [Stations -> Runs \cup {Free}] /\ listed' \in [Runs -> SUBSET Files]
      BY <1>1 DEF Visit, Taken, Waiting, At, TypeOK
    <2>3. excused' \in SUBSET Files
      BY <1>1 DEF Visit, Excuse, TypeOK
    <2> QED  BY <1>1, <2>1, <2>2, <2>3 DEF Visit, TypeOK
  <1>2. ASSUME NEW s \in Stations, Release(r, s) PROVE TypeOK'
    BY <1>2 DEF Release, TypeOK
  <1>3. ASSUME NEW f \in Files, DrainFile(r, f) PROVE TypeOK'
    BY <1>3 DEF DrainFile, TypeOK
  <1>4. CASE RunDies(r)
    BY <1>4, FaultTyped DEF RunDies, TypeOK
  <1> QED  BY <1>1, <1>2, <1>3, <1>4 DEF RunStep

LEMMA TypesKept == TypeOK /\ [Next]_vars => TypeOK'
  <1> SUFFICES ASSUME TypeOK, [Next]_vars PROVE TypeOK'
    OBVIOUS
  <1>1. CASE UNCHANGED vars
    BY <1>1 DEF vars, TypeOK
  <1> QED
    BY <1>1, RequestTyped, StartTyped, RunTyped DEF Next

-----------------------------------------------------------------------------------
(* Once.                                                                           *)

\* A file on a run's list is undrained, and its station is that run's to drain.
Listings ==
    \A r \in Runs : \A f \in listed[r] : lock[f[1]] = r /\ drains[f] = 0

Once == Listings /\ DrainedOnce

LEMMA InitOnce == Init => Once
  BY DEF Init, Once, Listings, DrainedOnce

\* Steps that touch no list, lock or file.
LEMMA OnceFrame ==
  ASSUME Once, UNCHANGED <<lock, listed, drains>>
  PROVE  Once'
  BY DEF Once, Listings, DrainedOnce

LEMMA VisitOnce ==
  ASSUME TypeOK, Once, NEW r \in Runs, NEW s \in Stations, Visit(r, s)
  PROVE  Once'
  <1>1. CASE lock[s] = Free
    <2>1. /\ lock' = [lock EXCEPT ![s] = r]
          /\ listed' = [listed EXCEPT ![r] = listed[r] \cup Waiting(s)]
          /\ drains' = drains
      BY <1>1 DEF Visit, Lockable, Taken
    <2>2. ASSUME NEW q \in Runs, NEW f \in listed'[q]
          PROVE  lock'[f[1]] = q /\ drains[f] = 0
      <3>1. CASE f \in listed[q]
        <4>1. lock[f[1]] = q /\ drains[f] = 0 /\ f \in Files
          BY <3>1 DEF Once, Listings, TypeOK
        <4>2. f[1] # s
          BY <1>1, <4>1, FreeIsNoRun
        <4> QED  BY <2>1, <4>1, <4>2 DEF TypeOK
      <3>2. CASE f \notin listed[q]
        <4>1. q = r /\ f \in Waiting(s)
          BY <2>1, <3>2 DEF TypeOK
        <4> QED  BY <2>1, <4>1 DEF Waiting, At, TypeOK
      <3> QED  BY <3>1, <3>2
    <2> QED  BY <2>1, <2>2 DEF Once, Listings, DrainedOnce
  <1>2. CASE lock[s] # Free
    BY <1>2, OnceFrame DEF Visit, Lockable
  <1> QED  BY <1>1, <1>2

LEMMA DrainFileOnce ==
  ASSUME TypeOK, Once, NEW r \in Runs, NEW f \in Files, DrainFile(r, f)
  PROVE  Once'
  <1>1. /\ listed' = [listed EXCEPT ![r] = listed[r] \ {f}]
        /\ drains' = [drains EXCEPT ![f] = drains[f] + 1]
        /\ lock' = lock
        /\ f \in listed[r]
    BY DEF DrainFile
  <1>2. lock[f[1]] = r /\ drains[f] = 0
    BY <1>1 DEF Once, Listings
  <1>3. ASSUME NEW q \in Runs, NEW g \in listed'[q]
        PROVE  lock'[g[1]] = q /\ drains'[g] = 0
    <2>1. g \in listed[q] /\ g \in Files
      BY <1>1 DEF TypeOK
    <2>2. lock[g[1]] = q /\ drains[g] = 0
      BY <2>1 DEF Once, Listings
    <2>3. g # f
      BY <1>1, <1>2, <2>2 DEF TypeOK
    <2> QED  BY <1>1, <2>1, <2>2, <2>3 DEF TypeOK
  <1>4. ASSUME NEW g \in Files PROVE drains'[g] <= 1
    BY <1>1, <1>2 DEF TypeOK, Once, DrainedOnce
  <1> QED  BY <1>3, <1>4 DEF Once, Listings, DrainedOnce

LEMMA EndOnce ==
  ASSUME TypeOK, Once, NEW r \in Runs,
         RunDies(r) \/ \E s \in Stations : Release(r, s)
  PROVE  Once'
  <1>1. ASSUME NEW s \in Stations, Release(r, s) PROVE Once'
    <2>1. /\ lock' = [lock EXCEPT ![s] = Free]
          /\ listed' = listed /\ drains' = drains
          /\ lock[s] = r /\ listed[r] \cap At(s) = {}
      BY <1>1 DEF Release
    <2>2. ASSUME NEW q \in Runs, NEW f \in listed[q] PROVE f[1] # s
      <3>1. lock[f[1]] = q /\ f \in Files
        BY DEF Once, Listings, TypeOK
      <3> QED  BY <2>1, <3>1 DEF At
    <2>3. Listings'
      BY <2>1, <2>2 DEF Once, Listings, TypeOK
    <2> QED  BY <2>1, <2>3 DEF Once, DrainedOnce
  <1>2. CASE RunDies(r)
    <2>1. /\ listed' = [listed EXCEPT ![r] = {}]
          /\ lock' = [s \in Stations |-> IF lock[s] = r THEN Free ELSE lock[s]]
          /\ drains' = drains
      BY <1>2 DEF RunDies
    <2>2. ASSUME NEW q \in Runs, NEW f \in listed'[q]
          PROVE  lock'[f[1]] = q /\ drains'[f] = 0
      <3>1. q # r /\ f \in listed[q] /\ f \in Files
        BY <2>1 DEF TypeOK
      <3>2. lock[f[1]] = q /\ drains[f] = 0 /\ f[1] \in Stations
        BY <3>1 DEF Once, Listings, Files
      <3> QED  BY <2>1, <3>1, <3>2
    <2> QED  BY <2>1, <2>2 DEF Once, Listings, DrainedOnce
  <1> QED  BY <1>1, <1>2

LEMMA OnceKept == TypeOK /\ Once /\ [Next]_vars => Once'
  <1> SUFFICES ASSUME TypeOK, Once, [Next]_vars PROVE Once'
    OBVIOUS
  <1>1. ASSUME NEW f \in Files, Land(f) \/ RequestStep(f) \/ RequestDies(f) \/ RunDrain(f)
        PROVE  Once'
    BY <1>1, OnceFrame DEF Land, RequestStep, Nudge, QueueDrain, RequestDies, RunDrain
  <1>2. CASE LatchExpires \/ RunBeat \/ Pause \/ Resume
    BY <1>2, OnceFrame DEF LatchExpires, RunBeat, Pause, Resume
  <1>3. ASSUME NEW r \in Runs, RunStep(r) \/ RunDies(r) PROVE Once'
    BY <1>3, VisitOnce, DrainFileOnce, EndOnce DEF RunStep
  <1>4. CASE UNCHANGED vars
    BY <1>4, OnceFrame DEF vars
  <1> QED  BY <1>1, <1>2, <1>3, <1>4 DEF Next

-----------------------------------------------------------------------------------
(* A nudge suffices.                                                               *)

\* The drain that file g's request is to queue is to be queued, or is counting down.
Promised(g) == request[g] = "latched" \/ task[g] = "counting"

\* f, left to its drain, has been drained, or will be by it or by whoever lists it.
Reached(f) ==
    \/ Promised(cover[f])
    \/ f[1] \in todo[cover[f]]
    \/ \E r \in Runs : f \in listed[r]
    \/ drains[f] > 0

Left ==
    faults = 0 =>
        /\ latch # Free => Promised(latch)
        /\ \A f \in Files :
             /\ request[f] \in {"latched", "over"} => cover[f] # Free
             /\ cover[f] # Free => request[f] # "none"
             /\ cover[f] # Free /\ f \notin excused => Reached(f)

LEMMA InitLeft == Init => Left
  BY DEF Init, Left

\* Faults are only ever counted up.
LEMMA FaultEndsLeft ==
  ASSUME TypeOK, Fault
  PROVE  Left'
  BY DEF TypeOK, Fault, Left

\* Steps that touch nothing a promise is made of, or only add to it.
LEMMA LeftFrame ==
  ASSUME TypeOK, Left, latch' \in {latch, Free},
         UNCHANGED <<request, cover, task, listed, drains, excused, faults>>,
         \A r \in Runs : todo[r] \subseteq todo'[r]
  PROVE  Left'
  <1> SUFFICES ASSUME faults = 0
               PROVE  /\ latch' # Free => Promised(latch)'
                      /\ \A f \in Files :
                           /\ request[f] \in {"latched", "over"} => cover[f] # Free
                           /\ cover[f] # Free => request[f] # "none"
                           /\ cover[f] # Free /\ f \notin excused => Reached(f)'
    BY DEF Left
  <1>1. latch' # Free => Promised(latch)'
    BY DEF Left, Promised
  <1>2. ASSUME NEW f \in Files, cover[f] # Free, f \notin excused
        PROVE  Reached(f)'
    <2>1. cover[f] \in Runs
      BY <1>2, FileIsARun DEF TypeOK
    <2>2. Reached(f)
      BY <1>2 DEF Left
    <2> QED  BY <2>1, <2>2 DEF Reached, Promised
  <1> QED  BY <1>1, <1>2 DEF Left

LEMMA RequestLeft ==
  ASSUME TypeOK, Left, NEW f \in Files, Land(f) \/ RequestStep(f) \/ RequestDies(f)
  PROVE  Left'
  <1>1. CASE RequestDies(f)
    BY <1>1, FaultEndsLeft DEF RequestDies
  <1>2. CASE faults # 0 /\ ~RequestDies(f)
    BY <1>2 DEF Left, Land, RequestStep, Nudge, QueueDrain
  <1>3. CASE faults = 0 /\ Land(f)
    <2>1. /\ request' = [request EXCEPT ![f] = "landed"] /\ request[f] = "none"
          /\ UNCHANGED <<latch, cover, task, todo, listed, drains, excused, faults>>
      BY <1>3 DEF Land
    <2>2. ASSUME NEW g \in Files, Promised(g) PROVE Promised(g)'
      BY <2>1, <2>2 DEF Promised, TypeOK
    <2>3. ASSUME NEW g \in Files
          PROVE  /\ request'[g] \in {"latched", "over"} => cover[g] # Free
                 /\ cover[g] # Free => request'[g] # "none"
                 /\ cover[g] # Free /\ g \notin excused => Reached(g)'
      <3>1. cover[g] # Free => cover[g] \in Files
        BY DEF TypeOK
      <3>2. cover[g] # Free /\ g \notin excused => Reached(g)'
        <4>1. ASSUME cover[g] # Free, Promised(cover[g]) PROVE Promised(cover[g])'
          BY <2>1, <2>2, <3>1, <4>1 DEF Promised
        <4> QED  BY <1>3, <2>1, <3>1, <4>1 DEF Left, Reached
      <3>3. /\ request[g] \in {"latched", "over"} => cover[g] # Free
            /\ cover[g] # Free => request[g] # "none"
        BY <1>3 DEF Left
      <3>4. /\ request'[g] \in {"latched", "over"} => cover[g] # Free
            /\ cover[g] # Free => request'[g] # "none"
        BY <2>1, <3>3 DEF TypeOK
      <3> QED  BY <3>2, <3>4
    <2>4. latch # Free => Promised(latch)'
      BY <1>3, <2>1, <2>2 DEF Left, Promised, TypeOK
    <2> QED  BY <2>1, <2>3, <2>4 DEF Left, Promised
  <1>4. CASE faults = 0 /\ Nudge(f)
    <2>1. /\ request[f] = "landed" /\ faults' = faults
          /\ UNCHANGED <<task, todo, listed, drains, excused>>
      BY <1>4 DEF Nudge
    <2>2. ASSUME NEW g \in Files, Promised(g) PROVE Promised(g)'
      BY <1>4, <2>2 DEF Nudge, Promised, TypeOK
    <2>3. /\ cover' = [cover EXCEPT ![f] = cover'[f]] /\ cover'[f] \in Files
          /\ Promised(cover[f])'
          /\ request'[f] \in {"latched", "over"}
          /\ \A g \in Files : g # f => request'[g] = request[g]
      <3>1. CASE latch = Free
        BY <1>4, <3>1 DEF Nudge, Promised, TypeOK
      <3>2. CASE latch # Free
        <4>1. latch \in Files /\ Promised(latch)
          BY <1>4, <3>2 DEF Left, TypeOK
        <4>2. cover'[f] = latch
          BY <1>4, <3>2 DEF Nudge, TypeOK
        <4>3. Promised(cover[f])'
          BY <2>2, <4>1, <4>2 DEF Promised
        <4> QED  BY <1>4, <3>2, <4>1, <4>2, <4>3 DEF Nudge, TypeOK
      <3> QED  BY <3>1, <3>2
    <2>4. ASSUME NEW g \in Files
          PROVE  /\ request'[g] \in {"latched", "over"} => cover'[g] # Free
                 /\ cover'[g] # Free => request'[g] # "none"
                 /\ cover'[g] # Free /\ g \notin excused => Reached(g)'
      <3>1. CASE g = f
        BY <2>3, <3>1, FreeIsNoRun, FileIsARun DEF Reached, Promised
      <3>2. CASE g # f
        <4>1. cover'[g] = cover[g] /\ request'[g] = request[g]
          BY <2>3, <3>2 DEF TypeOK
        <4>2. ASSUME cover[g] # Free, g \notin excused PROVE Reached(g)'
          <5>1. cover[g] \in Files /\ Reached(g)
            BY <1>4, <4>2 DEF Left, TypeOK
          <5>2. Promised(cover[g]) => Promised(cover[g])'
            BY <2>2, <4>1, <5>1 DEF Promised
          <5> QED  BY <2>1, <4>1, <5>1, <5>2 DEF Reached
        <4> QED  BY <1>4, <4>1, <4>2 DEF Left
      <3> QED  BY <3>1, <3>2
    <2>5. latch' # Free => Promised(latch)'
      <3>1. CASE latch = Free
        BY <1>4, <3>1 DEF Nudge, Promised, TypeOK
      <3>2. CASE latch # Free
        <4>1. latch' = latch /\ latch \in Files /\ Promised(latch)
          BY <1>4, <3>2 DEF Nudge, Left, TypeOK
        <4> QED  BY <2>2, <4>1 DEF Promised
      <3> QED  BY <3>1, <3>2
    <2> QED  BY <2>1, <2>4, <2>5 DEF Left
  <1>5. CASE faults = 0 /\ QueueDrain(f)
    <2>1. /\ request' = [request EXCEPT ![f] = "over"] /\ request[f] = "latched"
          /\ task' = [task EXCEPT ![f] = "counting"]
          /\ UNCHANGED <<latch, cover, todo, listed, drains, excused, faults>>
      BY <1>5 DEF QueueDrain
    <2>2. ASSUME NEW g \in Files, Promised(g) PROVE Promised(g)'
      BY <2>1, <2>2 DEF Promised, TypeOK
    <2>3. ASSUME NEW g \in Files
          PROVE  /\ request'[g] \in {"latched", "over"} => cover[g] # Free
                 /\ cover[g] # Free => request'[g] # "none"
                 /\ cover[g] # Free /\ g \notin excused => Reached(g)'
      <3>1. cover[g] # Free => cover[g] \in Files
        BY DEF TypeOK
      <3>2. cover[g] # Free /\ g \notin excused => Reached(g)'
        <4>1. ASSUME cover[g] # Free, Promised(cover[g]) PROVE Promised(cover[g])'
          BY <2>1, <2>2, <3>1, <4>1 DEF Promised
        <4> QED  BY <1>5, <2>1, <3>1, <4>1 DEF Left, Reached
      <3>3. /\ request[g] \in {"latched", "over"} => cover[g] # Free
            /\ cover[g] # Free => request[g] # "none"
        BY <1>5 DEF Left
      <3>4. /\ request'[g] \in {"latched", "over"} => cover[g] # Free
            /\ cover[g] # Free => request'[g] # "none"
        BY <2>1, <3>3 DEF TypeOK
      <3> QED  BY <3>2, <3>4
    <2>4. latch # Free => Promised(latch)'
      BY <1>5, <2>1, <2>2 DEF Left, Promised, TypeOK
    <2> QED  BY <2>1, <2>3, <2>4 DEF Left, Promised
  <1> QED  BY <1>1, <1>2, <1>3, <1>4, <1>5 DEF RequestStep

LEMMA RunDrainLeft ==
  ASSUME TypeOK, Left, NEW f \in Files, RunDrain(f)
  PROVE  Left'
  <1>1. CASE faults # 0
    BY <1>1 DEF Left, RunDrain
  <1>2. CASE faults = 0
    <2>1. /\ latch # f /\ task' = [task EXCEPT ![f] = "over"]
          /\ UNCHANGED <<request, latch, cover, listed, drains, faults>>
      BY DEF RunDrain, Due
    <2>2. ASSUME NEW g \in Files, g # f, Promised(g) PROVE Promised(g)'
      BY <2>1, <2>2 DEF Promised, TypeOK
    <2>3. ASSUME NEW g \in Files, cover[g] # Free, g \notin excused'
          PROVE  Reached(g)'
      <3>0. g \notin excused /\ g[1] \in Stations /\ cover[g] \in Files /\ Reached(g)
        BY <1>2, <2>3 DEF RunDrain, Excuse, Left, Files, TypeOK
      <3>1. CASE cover[g] = f
        <4>1. ~paused
          BY <2>3, <3>0, <3>1 DEF RunDrain, Excuse
        <4>2. todo'[f] = Stations
          BY <4>1, FileIsARun DEF RunDrain, TypeOK
        <4> QED  BY <2>1, <3>0, <3>1, <4>2 DEF Reached
      <3>2. CASE cover[g] # f
        <4>1. todo'[cover[g]] = todo[cover[g]]
          BY <3>0, <3>2, FileIsARun DEF RunDrain, TypeOK
        <4>2. Promised(cover[g]) => Promised(cover[g])'
          BY <2>1, <2>2, <3>0, <3>2 DEF Promised
        <4> QED  BY <2>1, <3>0, <4>1, <4>2 DEF Reached
      <3> QED  BY <3>1, <3>2
    <2>4. latch # Free => Promised(latch)'
      BY <1>2, <2>1, <2>2 DEF Left, TypeOK
    <2> QED  BY <1>2, <2>1, <2>3, <2>4 DEF Left, Promised
  <1> QED  BY <1>1, <1>2

LEMMA VisitLeft ==
  ASSUME TypeOK, Left, NEW r \in Runs, NEW s \in Stations, Visit(r, s)
  PROVE  Left'
  <1>1. CASE faults # 0
    BY <1>1 DEF Left, Visit
  <1>2. CASE faults = 0
    <2>1. /\ todo' = [todo EXCEPT ![r] = todo[r] \ {s}]
          /\ UNCHANGED <<request, latch, cover, task, drains, faults>>
      BY DEF Visit
    <2>2. ASSUME NEW g \in Files, cover[g] # Free, g \notin excused'
          PROVE  Reached(g)'
      <3>0. /\ g \notin excused /\ cover[g] \in Files /\ Reached(g)
            /\ request[g] # "none"
        BY <1>2, <2>2 DEF Visit, Excuse, Left, TypeOK
      <3>1. CASE Promised(cover[g]) \/ drains[g] > 0
        BY <2>1, <3>1 DEF Reached, Promised
      <3>2. CASE \E q \in Runs : g \in listed[q]
        <4>1. PICK q \in Runs : g \in listed[q]
          BY <3>2
        <4>2. g \in listed'[q]
          BY <4>1 DEF Visit, TypeOK
        <4> QED  BY <4>2 DEF Reached
      <3>3. CASE g[1] \in todo[cover[g]] /\ ~(cover[g] = r /\ g[1] = s)
        <4>1. g[1] \in todo'[cover[g]]
          BY <2>1, <3>0, <3>3, FileIsARun DEF TypeOK
        <4> QED  BY <2>1, <4>1 DEF Reached
      <3>4. CASE cover[g] = r /\ g[1] = s /\ drains[g] = 0
        <4>1. lock[s] = Free
          BY <2>2, <3>0, <3>4 DEF Visit, Lockable, Excuse
        <4>2. g \in Waiting(s)
          BY <3>0, <3>4 DEF Waiting, At
        <4>3. g \in listed'[r]
          BY <4>1, <4>2 DEF Visit, Lockable, TypeOK
        <4> QED  BY <4>3 DEF Reached
      <3>5. drains[g] = 0 \/ drains[g] > 0
        BY DEF TypeOK
      <3> QED  BY <3>0, <3>1, <3>2, <3>3, <3>4, <3>5 DEF Reached
    <2>3. latch # Free => Promised(latch)'
      BY <1>2, <2>1 DEF Left, Promised
    <2> QED  BY <1>2, <2>1, <2>2, <2>3 DEF Left, Promised
  <1> QED  BY <1>1, <1>2

LEMMA DrainFileLeft ==
  ASSUME TypeOK, Left, NEW r \in Runs, NEW f \in Files, DrainFile(r, f)
  PROVE  Left'
  <1>1. /\ listed' = [listed EXCEPT ![r] = listed[r] \ {f}]
        /\ drains' = [drains EXCEPT ![f] = drains[f] + 1]
        /\ UNCHANGED <<request, latch, cover, task, todo, excused, faults>>
    BY DEF DrainFile
  <1>2. ASSUME NEW g \in Files, Reached(g) PROVE Reached(g)'
    <2>1. CASE g = f
      BY <1>1, <2>1 DEF Reached, TypeOK
    <2>2. CASE g # f
      <3>1. ASSUME NEW q \in Runs, g \in listed[q] PROVE g \in listed'[q]
        BY <1>1, <2>2, <3>1 DEF TypeOK
      <3>2. drains'[g] = drains[g]
        BY <1>1, <2>2 DEF TypeOK
      <3> QED  BY <1>1, <1>2, <3>1, <3>2 DEF Reached, Promised
    <2> QED  BY <2>1, <2>2
  <1> QED  BY <1>1, <1>2 DEF Left, Promised

LEMMA LeftKept == TypeOK /\ Left /\ [Next]_vars => Left'
  <1> SUFFICES ASSUME TypeOK, Left, [Next]_vars PROVE Left'
    OBVIOUS
  <1>1. ASSUME NEW f \in Files, Land(f) \/ RequestStep(f) \/ RequestDies(f) \/ RunDrain(f)
        PROVE  Left'
    BY <1>1, RequestLeft, RunDrainLeft
  <1>2. CASE LatchExpires \/ Pause \/ Resume \/ UNCHANGED vars
    BY <1>2, LeftFrame DEF LatchExpires, Pause, Resume, vars
  <1>3. CASE RunBeat
    <2>1. \A r \in Runs : todo[r] \subseteq todo'[r]
      BY <1>3 DEF RunBeat, TypeOK
    <2> QED  BY <1>3, <2>1, LeftFrame DEF RunBeat
  <1>4. ASSUME NEW r \in Runs, RunStep(r) \/ RunDies(r) PROVE Left'
    <2>1. ASSUME NEW s \in Stations, Release(r, s) PROVE Left'
      BY <2>1, LeftFrame DEF Release
    <2>2. CASE RunDies(r)
      BY <2>2, FaultEndsLeft DEF RunDies
    <2> QED  BY <1>4, <2>1, <2>2, VisitLeft, DrainFileLeft DEF RunStep
  <1> QED  BY <1>1, <1>2, <1>3, <1>4 DEF Next

LEMMA LeftSuffices == TypeOK /\ Left => NudgeSuffices
  BY DEF TypeOK, Left, Reached, Promised, NudgeSuffices

-----------------------------------------------------------------------------------

\* Every reachable state of a connection's drains is well typed.
THEOREM NudgeTypeCorrect == Spec => []TypeOK
  BY InitTyped, TypesKept, PTL DEF Spec

\* However many nudged and scheduled runs of get_station_data come to a station at once,
\* no file is drained by two of them: what is waiting is read under the station's lock.
THEOREM OnceIsOnce == Spec => []DrainedOnce
  <1>1. Init => TypeOK /\ Once
    BY InitTyped, InitOnce
  <1>2. TypeOK /\ Once /\ [Next]_vars => (TypeOK /\ Once)'
    BY TypesKept, OnceKept
  <1>3. Once => DrainedOnce
    BY DEF Once
  <1> QED  BY <1>1, <1>2, <1>3, PTL DEF Spec

\* A burst of uploads needs no schedule: whatever the latch leaves to a drain another
\* upload queued is there when that drain reads, because NUDGE_DELAY_SECONDS keeps the
\* drain from starting while the latch is held.
THEOREM NudgeIsEnough == Spec => []NudgeSuffices
  <1>1. Init => TypeOK /\ Left
    BY InitTyped, InitLeft
  <1>2. TypeOK /\ Left /\ [Next]_vars => (TypeOK /\ Left)'
    BY TypesKept, LeftKept
  <1> QED  BY <1>1, <1>2, LeftSuffices, PTL DEF Spec
====
