------------------------------- MODULE ConfigProofs -------------------------------
(* What config_version tells a machine, for any machines, connections, requests   *)
(* saving at once and bounds. The number alone is not inductive: a sync carries   *)
(* two readings to the machine and only then reads the number, so the proof keeps *)
(* that an untorn sync in progress still agrees with the rows it has read, and    *)
(* that a machine is never ahead of a number no stale form has written over.      *)

EXTENDS Config, TLAPS

USE ConfigAssumption DEF ConfigAssumption

-----------------------------------------------------------------------------------
(* Types. The counts of edits and of forms saved are what bounds the rows.         *)

Counts ==
    /\ \A c \in Connections : edit[c] <= edits
    /\ \A d \in Devices : tier[d] + (IF form[d] = 0 THEN 0 ELSE 1) <= forms
    /\ \A w \in Writers : writer[w] # NoWrite <=> writer[w].pc # "idle"
    /\ \A w \in Writers : writer[w].pc = "link" => writer[w].conn \in Connections

Typed == TypeOK /\ Counts

LEMMA InitTyped == Init => Typed
  <1> SUFFICES ASSUME Init PROVE Typed
    OBVIOUS
  <1>1. 0 \in 0..MaxEdits /\ 0 \in 0..MaxForms /\ {} \in Reading
    BY DEF Reading
  <1>2. 1 \in Nat \ {0} /\ 0 \in Nat
    OBVIOUS
  <1>3. NoWrite \in [pc : {"idle", "link", "connection"},
                     conn : Connections \cup {Nobody}, dev : Owners]
    BY DEF NoWrite, Owners
  <1>4. NoSync \in [pc : {"idle", "begun", "read"}, tier : 0..MaxForms,
                    held : Reading, torn : BOOLEAN]
    BY <1>1 DEF NoSync
  <1>5. [num |-> 0, tier |-> 0, held |-> {}, torn |-> FALSE]
          \in [num : Nat, tier : 0..MaxForms, held : Reading, torn : BOOLEAN]
    BY <1>1
  <1>6. {} \in SUBSET Devices
    OBVIOUS
  <1>7. TypeOK
    BY <1>1, <1>2, <1>3, <1>4, <1>5, <1>6 DEF Init, TypeOK, FirstVersion
  <1>8. Counts
    BY DEF Init, Counts, NoWrite
  <1> QED  BY <1>7, <1>8 DEF Typed

LEMMA EditedTyped ==
  ASSUME Typed, Edited
  PROVE  /\ edits' \in 0..MaxEdits /\ edits' = edits + 1
         /\ \A c \in Connections : edit[c] + 1 \in 0..MaxEdits /\ edit[c] + 1 <= edits'
  BY DEF Typed, TypeOK, Counts, Edited

LEMMA TearsTyped ==
  ASSUME Typed, NEW D, Tears(D)
  PROVE  sync' \in [Devices -> [pc : {"idle", "begun", "read"}, tier : 0..MaxForms,
                                held : Reading, torn : BOOLEAN]]
  <1> DEFINE Syncs == [pc : {"idle", "begun", "read"}, tier : 0..MaxForms,
                       held : Reading, torn : BOOLEAN]
  <1> SUFFICES ASSUME NEW d \in Devices
               PROVE  (IF d \in D /\ sync[d].pc = "read"
                       THEN [sync[d] EXCEPT !.torn = TRUE] ELSE sync[d]) \in Syncs
    BY DEF Tears
  <1>1. sync[d] \in Syncs
    BY DEF Typed, TypeOK
  <1>2. [sync[d] EXCEPT !.torn = TRUE] \in Syncs
    BY <1>1
  <1> QED  BY <1>1, <1>2

LEMMA HeldTyped ==
  ASSUME Typed, NEW d \in Devices
  PROVE  Held(d) \in Reading
  BY DEF Typed, TypeOK, Held, Reading

LEMMA SaveLinkTyped ==
  ASSUME Typed, NEW w \in Writers, NEW c \in Connections, SaveLink(w, c)
  PROVE  Typed'
  <1> DEFINE W == [pc |-> "link", conn |-> c, dev |-> Nobody]
  <1>1. W \in [pc : {"idle", "link", "connection"},
               conn : Connections \cup {Nobody}, dev : Owners]
    BY DEF Owners
  <1>2. W # NoWrite /\ W.pc = "link" /\ W.conn = c
    BY DEF NoWrite
  <1> HIDE DEF W
  <1>3. writer' = [writer EXCEPT ![w] = W]
    BY DEF SaveLink, W
  <1>4. edit' = [edit EXCEPT ![c] = edit[c] + 1]
    BY DEF SaveLink
  <1>5. TypeOK'
    BY <1>1, <1>3, <1>4, EditedTyped, TearsTyped DEF SaveLink, Typed, TypeOK
  <1>6. Counts'
    BY <1>2, <1>3, <1>4, EditedTyped DEF SaveLink, Typed, TypeOK, Counts
  <1> QED  BY <1>5, <1>6 DEF Typed

LEMMA SaveConnectionTyped ==
  ASSUME Typed, NEW w \in Writers, NEW c \in Connections, NEW d \in Devices,
         SaveConnection(w, c, d)
  PROVE  Typed'
  <1> DEFINE W == [pc |-> "connection", conn |-> c, dev |-> d]
  <1>1. W \in [pc : {"idle", "link", "connection"},
               conn : Connections \cup {Nobody}, dev : Owners]
    BY DEF Owners
  <1>2. W # NoWrite /\ W.pc = "connection"
    BY DEF NoWrite
  <1> HIDE DEF W
  <1>3. writer' = [writer EXCEPT ![w] = W]
    BY DEF SaveConnection, W
  <1>4. edit' = [edit EXCEPT ![c] = edit[c] + 1]
    BY DEF SaveConnection
  <1>5. TypeOK'
    <2>1. owner' \in [Connections -> Owners] /\ moved' \in SUBSET Devices
      BY DEF SaveConnection, Typed, TypeOK, Owners
    <2> QED
      BY <1>1, <1>3, <1>4, <2>1, EditedTyped, TearsTyped
         DEF SaveConnection, Typed, TypeOK
  <1>6. Counts'
    BY <1>2, <1>3, <1>4, EditedTyped DEF SaveConnection, Typed, TypeOK, Counts
  <1> QED  BY <1>5, <1>6 DEF Typed

LEMMA DeleteTyped ==
  ASSUME Typed, NEW c \in Connections, DeleteConnection(c)
  PROVE  Typed'
  <1>1. /\ version' = [version EXCEPT ![owner[c]] = version[owner[c]] + 1]
        /\ owner' = [owner EXCEPT ![c] = Nobody]
    BY DEF DeleteConnection, Deleted
  <1>2. TypeOK'
    BY <1>1, EditedTyped, TearsTyped DEF DeleteConnection, Typed, TypeOK, Owners
  <1>3. Counts'
    BY EditedTyped DEF DeleteConnection, Typed, TypeOK, Counts
  <1> QED  BY <1>2, <1>3 DEF Typed

LEMMA BumpTyped ==
  ASSUME Typed, NEW w \in Writers, Bump(w)
  PROVE  Typed'
  <1>1. NoWrite \in [pc : {"idle", "link", "connection"},
                     conn : Connections \cup {Nobody}, dev : Owners]
        /\ NoWrite.pc = "idle"
    BY DEF NoWrite, Owners
  <1>2. writer' = [writer EXCEPT ![w] = NoWrite]
    BY DEF Bump
  <1>3. version' \in [Devices -> Nat \ {0}]
    BY DEF Bump, Typed, TypeOK
  <1>4. TypeOK'
    BY <1>1, <1>2, <1>3 DEF Bump, Typed, TypeOK
  <1>5. Counts'
    BY <1>1, <1>2 DEF Bump, Typed, TypeOK, Counts
  <1> QED  BY <1>4, <1>5 DEF Typed

LEMMA FormTyped ==
  ASSUME Typed, NEW d \in Devices, OpenForm(d) \/ SaveForm(d)
  PROVE  Typed'
  <1>1. CASE OpenForm(d)
    <2>1. form' = [form EXCEPT ![d] = version[d]] /\ version[d] \in Nat \ {0}
      BY <1>1 DEF OpenForm, Typed, TypeOK
    <2>2. TypeOK'
      BY <1>1, <2>1 DEF OpenForm, Typed, TypeOK
    <2>3. Counts'
      BY <1>1, <2>1 DEF OpenForm, Typed, TypeOK, Counts
    <2> QED  BY <2>2, <2>3 DEF Typed
  <1>2. CASE SaveForm(d)
    <2>1. /\ tier' = [tier EXCEPT ![d] = tier[d] + 1]
          /\ version' = [version EXCEPT ![d] = form[d] + 1]
          /\ form' = [form EXCEPT ![d] = 0]
          /\ form[d] # 0
      BY <1>2 DEF SaveForm
    <2>2. tier[d] + 1 \in 0..MaxForms
      BY <2>1 DEF Typed, TypeOK, Counts
    <2>3. sync' \in [Devices -> [pc : {"idle", "begun", "read"}, tier : 0..MaxForms,
                                 held : Reading, torn : BOOLEAN]]
      <3> DEFINE T == (sync[d].pc # "idle")
      <3>1. T \in BOOLEAN
        OBVIOUS
      <3>2. sync' = [sync EXCEPT ![d].torn = T]
        BY <1>2 DEF SaveForm
      <3> HIDE DEF T
      <3>3. [sync[d] EXCEPT !.torn = T]
              \in [pc : {"idle", "begun", "read"}, tier : 0..MaxForms,
                   held : Reading, torn : BOOLEAN]
        BY <3>1 DEF Typed, TypeOK
      <3>4. sync' = [sync EXCEPT ![d] = [sync[d] EXCEPT !.torn = T]]
        BY <3>2 DEF Typed, TypeOK
      <3> QED  BY <3>3, <3>4 DEF Typed, TypeOK
    <2>4. TypeOK'
      BY <1>2, <2>1, <2>2, <2>3 DEF SaveForm, Typed, TypeOK
    <2>5. Counts'
      BY <1>2, <2>1 DEF SaveForm, Typed, TypeOK, Counts
    <2> QED  BY <2>4, <2>5 DEF Typed
  <1> QED  BY <1>1, <1>2

LEMMA SyncTyped ==
  ASSUME Typed, NEW d \in Devices, SyncStep(d)
  PROVE  Typed'
  <1> DEFINE Syncs == [pc : {"idle", "begun", "read"}, tier : 0..MaxForms,
                       held : Reading, torn : BOOLEAN]
  <1>0. sync[d] \in Syncs /\ NoSync \in Syncs
    <2>1. 0 \in 0..MaxForms /\ {} \in Reading
      BY DEF Reading
    <2> QED  BY <2>1 DEF NoSync, Typed, TypeOK
  <1>1. CASE SyncBegin(d)
    <2>1. [NoSync EXCEPT !.pc = "begun", !.tier = tier[d]] \in Syncs
      BY <1>0 DEF Typed, TypeOK
    <2>2. TypeOK' /\ Counts'
      BY <1>1, <2>1 DEF SyncBegin, Typed, TypeOK, Counts
    <2> QED  BY <2>2 DEF Typed
  <1>2. CASE SyncRead(d)
    <2>1. [sync[d] EXCEPT !.pc = "read", !.held = Held(d)] \in Syncs
      BY <1>0, HeldTyped
    <2>2. sync' = [sync EXCEPT ![d] = [sync[d] EXCEPT !.pc = "read", !.held = Held(d)]]
      BY <1>2 DEF SyncRead, Typed, TypeOK
    <2>3. TypeOK' /\ Counts'
      BY <1>2, <2>1, <2>2 DEF SyncRead, Typed, TypeOK, Counts
    <2> QED  BY <2>3 DEF Typed
  <1>3. CASE SyncAnswer(d)
    <2>1. Answer(d) \in [num : Nat, tier : 0..MaxForms, held : Reading, torn : BOOLEAN]
      BY <1>0 DEF Answer, Typed, TypeOK
    <2>2. TypeOK' /\ Counts'
      BY <1>0, <1>3, <2>1 DEF SyncAnswer, Typed, TypeOK, Counts
    <2> QED  BY <2>2 DEF Typed
  <1> QED  BY <1>1, <1>2, <1>3 DEF SyncStep

LEMMA TypesKept == Typed /\ [Next]_vars => Typed'
  <1> SUFFICES ASSUME Typed, [Next]_vars PROVE Typed'
    OBVIOUS
  <1>1. CASE UNCHANGED vars
    BY <1>1 DEF vars, Typed, TypeOK, Counts
  <1> QED
    BY <1>1, SaveLinkTyped, SaveConnectionTyped, DeleteTyped, BumpTyped, FormTyped,
       SyncTyped DEF Next

-----------------------------------------------------------------------------------
(* The number.                                                                     *)

Behaved == Devices \ (reused \cup moved)

\* A sync nobody has written across agrees with the rows it has read so far.
SyncAgrees(d) ==
    ~sync[d].torn =>
        /\ sync[d].pc # "idle" => sync[d].tier = tier[d]
        /\ sync[d].pc = "read" => sync[d].held = Held(d)

\* The number tells d all there is to know, and d is not ahead of it.
Told(d) ==
    /\ agent[d].num <= version[d]
    /\ agent[d].num = version[d] /\ ~agent[d].torn /\ Signalled(d) => UpToDate(d)

Telling ==
    /\ \A d \in Devices : SyncAgrees(d)
    /\ \A d \in Behaved : Told(d)

LEMMA InitTelling == Init => Telling
  BY DEF Init, Telling, SyncAgrees, Told, NoSync, FirstVersion, Behaved

\* What a machine's connections say changes only with its connections.
LEMMA HeldFrame ==
  ASSUME NEW d \in Devices,
         \A c \in Connections : (owner'[c] = d) <=> (owner[c] = d),
         \A c \in Connections : owner[c] = d => edit'[c] = edit[c]
  PROVE  Held(d)' = Held(d)
  BY DEF Held

\* A write to the connections of the devices of D tears the syncs that have read them,
\* and leaves the other devices' connections as they were.
LEMMA WriteTears ==
  ASSUME Typed, Telling, NEW D, Tears(D), tier' = tier,
         \A d \in Devices \ D : Held(d)' = Held(d)
  PROVE  \A d \in Devices : SyncAgrees(d)'
  <1> SUFFICES ASSUME NEW d \in Devices PROVE SyncAgrees(d)'
    OBVIOUS
  <1>0. SyncAgrees(d)
    BY DEF Telling
  <1>1. CASE d \in D /\ sync[d].pc = "read"
    <2>1. sync'[d].torn = TRUE
      BY <1>1 DEF Tears, Typed, TypeOK
    <2> QED  BY <2>1 DEF SyncAgrees
  <1>2. CASE d \in D /\ sync[d].pc # "read"
    <2>1. sync'[d] = sync[d]
      BY <1>2 DEF Tears
    <2> QED  BY <1>0, <1>2, <2>1 DEF SyncAgrees
  <1>3. CASE d \notin D
    <2>1. sync'[d] = sync[d] /\ Held(d)' = Held(d)
      BY <1>3 DEF Tears
    <2> QED  BY <1>0, <2>1 DEF SyncAgrees
  <1> QED  BY <1>1, <1>2, <1>3

\* A device whose own rows are not written goes on being told, as long as no signal it
\* is owed disappears.
LEMMA ToldFrame ==
  ASSUME Typed, Telling, NEW d \in Behaved,
         agent' = agent, tier' = tier, version'[d] = version[d],
         Held(d)' = Held(d), Signalled(d)' => Signalled(d)
  PROVE  Told(d)'
  <1>1. Told(d)
    BY DEF Telling
  <1> QED  BY <1>1 DEF Told, UpToDate

\* A number that moves on past a device that stood behind it or at it.
LEMMA ToldPast ==
  ASSUME Typed, Telling, NEW d \in Behaved, agent' = agent, version'[d] = version[d] + 1
  PROVE  Told(d)'
  <1>1. agent[d].num <= version[d] /\ agent[d].num \in Nat /\ version[d] \in Nat
    BY DEF Telling, Told, Behaved, Typed, TypeOK
  <1> QED  BY <1>1 DEF Told

\* A device that is owed a signal is told nothing by a number that has not moved.
LEMMA ToldLater ==
  ASSUME Typed, Telling, NEW d \in Behaved, agent' = agent, version'[d] = version[d],
         ~Signalled(d)'
  PROVE  Told(d)'
  <1>1. Told(d)
    BY DEF Telling
  <1> QED  BY <1>1 DEF Told

LEMMA SaveLinkTelling ==
  ASSUME Typed, Telling, NEW w \in Writers, NEW c \in Connections, SaveLink(w, c)
  PROVE  Telling'
  <1> DEFINE W == [pc |-> "link", conn |-> c, dev |-> Nobody]
  <1>1. W # NoWrite /\ W.pc = "link" /\ W.conn = c
    BY DEF NoWrite
  <1>2. writer' = [writer EXCEPT ![w] = W] /\ writer[w] = NoWrite
    BY DEF SaveLink
  <1> HIDE DEF W
  <1>3. BumpedDevice(w)' = owner[c] /\ writer'[w] # NoWrite
    BY <1>1, <1>2 DEF SaveLink, BumpedDevice, Typed, TypeOK
  <1>4. \A x \in Writers : x # w => writer'[x] = writer[x] /\ BumpedDevice(x)' = BumpedDevice(x)
    BY <1>2 DEF SaveLink, BumpedDevice, Typed, TypeOK
  <1>5. \A d \in Devices \ {owner[c]} : Held(d)' = Held(d)
    BY HeldFrame DEF SaveLink, Typed, TypeOK
  <1>6. \A d \in Devices : SyncAgrees(d)'
    BY <1>5, WriteTears DEF SaveLink
  <1>7. ASSUME NEW d \in Behaved' PROVE Told(d)'
    <2>0. d \in Behaved /\ d \in Devices /\ agent' = agent /\ version' = version /\ tier' = tier
      BY DEF SaveLink, Behaved
    <2>1. CASE d = owner[c]
      <3>1. ~Signalled(d)'
        BY <1>3, <2>1 DEF Signalled
      <3> QED  BY <2>0, <3>1, ToldLater
    <2>2. CASE d # owner[c]
      <3>1. Signalled(d)' => Signalled(d)
        BY <1>2, <1>3, <1>4 DEF Signalled
      <3> QED  BY <1>5, <2>0, <2>2, <3>1, ToldFrame
    <2> QED  BY <2>1, <2>2
  <1> QED  BY <1>6, <1>7 DEF Telling

LEMMA SaveConnectionTelling ==
  ASSUME Typed, Telling, NEW w \in Writers, NEW c \in Connections, NEW e \in Devices,
         SaveConnection(w, c, e)
  PROVE  Telling'
  <1> DEFINE W == [pc |-> "connection", conn |-> c, dev |-> e]
  <1>1. W # NoWrite /\ W.pc = "connection" /\ W.dev = e
    BY DEF NoWrite
  <1>2. writer' = [writer EXCEPT ![w] = W] /\ writer[w] = NoWrite
    BY DEF SaveConnection
  <1> HIDE DEF W
  <1>3. BumpedDevice(w)' = e /\ writer'[w] # NoWrite
    BY <1>1, <1>2 DEF BumpedDevice, Typed, TypeOK
  <1>o. owner' = [owner EXCEPT ![c] = e] /\ edit' = [edit EXCEPT ![c] = edit[c] + 1]
    BY DEF SaveConnection
  \* A signal that was going to the connection's old device goes to the new one.
  <1>4. \A x \in Writers : x # w =>
          /\ writer'[x] = writer[x]
          /\ BumpedDevice(x)' = BumpedDevice(x) \/ BumpedDevice(x) = owner[c]
    BY <1>2, <1>o DEF BumpedDevice, Typed, TypeOK, Counts
  <1>5. \A d \in Devices \ {e, owner[c]} : Held(d)' = Held(d)
    BY <1>o, HeldFrame DEF Typed, TypeOK
  <1>6. \A d \in Devices : SyncAgrees(d)'
    BY <1>5, WriteTears DEF SaveConnection
  <1>7. ASSUME NEW d \in Behaved' PROVE Told(d)'
    <2>0. /\ d \in Behaved /\ d \in Devices /\ d # Nobody
          /\ agent' = agent /\ version' = version /\ tier' = tier
          /\ d = owner[c] => d = e
      BY DEF SaveConnection, Behaved
    <2>1. CASE d = e
      <3>1. ~Signalled(d)'
        BY <1>3, <2>1 DEF Signalled
      <3> QED  BY <2>0, <3>1, ToldLater
    <2>2. CASE d # e
      <3>0. d # owner[c]
        BY <2>0, <2>2
      <3>1. Signalled(d)' => Signalled(d)
        BY <1>2, <1>3, <1>4, <3>0 DEF Signalled
      <3> QED  BY <1>5, <2>0, <2>2, <3>0, <3>1, ToldFrame
    <2> QED  BY <2>1, <2>2
  <1> QED  BY <1>6, <1>7 DEF Telling

LEMMA DeleteTelling ==
  ASSUME Typed, Telling, NEW c \in Connections, DeleteConnection(c)
  PROVE  Telling'
  <1>1. /\ version' = [version EXCEPT ![owner[c]] = version[owner[c]] + 1]
        /\ owner' = [owner EXCEPT ![c] = Nobody]
        /\ owner[c] \in Devices
        /\ UNCHANGED <<edit, tier, writer, agent, reused, moved>>
    BY DEF DeleteConnection, Deleted, Typed, TypeOK, Owners
  <1>2. \A x \in Writers : BumpedDevice(x)' = BumpedDevice(x) \/ BumpedDevice(x) = owner[c]
    BY <1>1 DEF BumpedDevice, Typed, TypeOK, Counts
  <1>3. \A d \in Devices \ {owner[c]} : Held(d)' = Held(d)
    BY <1>1, HeldFrame DEF Typed, TypeOK
  <1>4. \A d \in Devices : SyncAgrees(d)'
    BY <1>1, <1>3, WriteTears DEF DeleteConnection
  <1>5. ASSUME NEW d \in Behaved' PROVE Told(d)'
    <2>0. d \in Behaved /\ d \in Devices
      BY <1>1 DEF Behaved
    <2>1. CASE d = owner[c]
      BY <1>1, <2>0, <2>1, ToldPast DEF Typed, TypeOK
    <2>2. CASE d # owner[c]
      <3>1. Signalled(d)' => Signalled(d)
        BY <1>1, <1>2, <2>2 DEF Signalled
      <3>2. version'[d] = version[d]
        BY <1>1, <2>2 DEF Typed, TypeOK
      <3> QED  BY <1>1, <1>3, <2>0, <2>2, <3>1, <3>2, ToldFrame
    <2> QED  BY <2>1, <2>2
  <1> QED  BY <1>4, <1>5 DEF Telling

LEMMA BumpTelling ==
  ASSUME Typed, Telling, NEW w \in Writers, Bump(w)
  PROVE  Telling'
  <1>1. /\ version' = [d \in Devices |-> IF d = BumpedDevice(w) THEN version[d] + 1
                                                               ELSE version[d]]
        /\ writer' = [writer EXCEPT ![w] = NoWrite]
        /\ UNCHANGED <<owner, edit, tier, sync, agent, reused, moved>>
    BY DEF Bump
  <1>2. \A d \in Devices : Held(d)' = Held(d)
    BY <1>1 DEF Held
  <1>3. \A d \in Devices : SyncAgrees(d)'
    BY <1>1, <1>2 DEF Telling, SyncAgrees
  <1>4. ASSUME NEW d \in Behaved' PROVE Told(d)'
    <2>0. d \in Behaved /\ d \in Devices
      BY <1>1 DEF Behaved
    <2>1. CASE d = BumpedDevice(w)
      BY <1>1, <2>0, <2>1, ToldPast
    <2>2. CASE d # BumpedDevice(w)
      <3>1. \A x \in Writers : x # w =>
              writer'[x] = writer[x] /\ BumpedDevice(x)' = BumpedDevice(x)
        BY <1>1 DEF BumpedDevice, Typed, TypeOK
      <3>2. Signalled(d)' => Signalled(d)
        BY <2>2, <3>1 DEF Signalled
      <3> QED  BY <1>1, <1>2, <2>0, <2>2, <3>2, ToldFrame
    <2> QED  BY <2>1, <2>2
  <1> QED  BY <1>3, <1>4 DEF Telling

LEMMA FormTelling ==
  ASSUME Typed, Telling, NEW f \in Devices, OpenForm(f) \/ SaveForm(f)
  PROVE  Telling'
  <1>1. CASE OpenForm(f)
    BY <1>1 DEF OpenForm, Telling, SyncAgrees, Told, UpToDate, Signalled, BumpedDevice,
                Held, Behaved
  <1>2. CASE SaveForm(f)
    <2> DEFINE T == (sync[f].pc # "idle")
    <2>1. /\ tier' = [tier EXCEPT ![f] = tier[f] + 1]
          /\ version' = [version EXCEPT ![f] = form[f] + 1]
          /\ sync' = [sync EXCEPT ![f] = [sync[f] EXCEPT !.torn = T]]
          /\ reused' = (IF form[f] # version[f] THEN reused \cup {f} ELSE reused)
          /\ UNCHANGED <<owner, edit, writer, agent, moved>>
      BY <1>2 DEF SaveForm, Typed, TypeOK
    <2>2. \A d \in Devices : Held(d)' = Held(d) /\ (Signalled(d)' <=> Signalled(d))
      BY <2>1 DEF Held, Signalled, BumpedDevice
    <2>3. ASSUME NEW d \in Devices PROVE SyncAgrees(d)'
      <3>0. SyncAgrees(d)
        BY DEF Telling
      <3>1. CASE d = f
        <4>1. sync'[d].torn = T /\ sync'[d].pc = sync[d].pc
          BY <2>1, <3>1 DEF Typed, TypeOK
        <4>2. CASE sync[f].pc = "idle"
          BY <3>1, <4>1, <4>2 DEF SyncAgrees
        <4>3. CASE sync[f].pc # "idle"
          <5>1. T = TRUE
            BY <4>3
          <5> HIDE DEF T
          <5> QED  BY <4>1, <5>1 DEF SyncAgrees
        <4> QED  BY <4>2, <4>3
      <3>2. CASE d # f
        <4>1. sync'[d] = sync[d] /\ tier'[d] = tier[d]
          BY <2>1, <3>2 DEF Typed, TypeOK
        <4> QED  BY <2>2, <3>0, <4>1 DEF SyncAgrees
      <3> QED  BY <3>1, <3>2
    <2>4. ASSUME NEW d \in Behaved' PROVE Told(d)'
      <3>0. d \in Behaved /\ d \in Devices
        BY <2>1 DEF Behaved
      <3>1. CASE d = f
        <4>1. form[f] = version[f]
          BY <2>1, <3>1 DEF Behaved
        <4>2. version'[d] = version[d] + 1
          BY <2>1, <3>1, <4>1 DEF Typed, TypeOK
        <4> QED  BY <2>1, <3>0, <4>2, ToldPast
      <3>2. CASE d # f
        <4>1. tier'[d] = tier[d] /\ version'[d] = version[d] /\ Told(d)
          BY <2>1, <3>0, <3>2 DEF Telling, Typed, TypeOK
        <4> QED  BY <2>1, <2>2, <3>0, <4>1 DEF Told, UpToDate
      <3> QED  BY <3>1, <3>2
    <2> QED  BY <2>3, <2>4 DEF Telling
  <1> QED  BY <1>1, <1>2

LEMMA SyncTelling ==
  ASSUME Typed, Telling, NEW e \in Devices, SyncStep(e)
  PROVE  Telling'
  <1>0. /\ UNCHANGED <<owner, edit, tier, version, writer, reused, moved>>
        /\ \A d \in Devices : d # e => sync'[d] = sync[d] /\ agent'[d] = agent[d]
    BY DEF SyncStep, SyncBegin, SyncRead, SyncAnswer, Typed, TypeOK
  <1>1. \A d \in Devices : Held(d)' = Held(d) /\ (Signalled(d)' <=> Signalled(d))
    BY <1>0 DEF Held, Signalled, BumpedDevice
  <1>2. SyncAgrees(e)'
    <2>0. SyncAgrees(e)
      BY DEF Telling
    <2>1. CASE SyncBegin(e)
      <3>1. sync'[e] = [NoSync EXCEPT !.pc = "begun", !.tier = tier[e]]
        BY <2>1 DEF SyncBegin, Typed, TypeOK
      <3> QED  BY <1>0, <3>1 DEF NoSync, SyncAgrees
    <2>2. CASE SyncRead(e)
      <3>1. /\ sync'[e] = [sync[e] EXCEPT !.pc = "read", !.held = Held(e)]
            /\ sync[e].pc = "begun"
        BY <2>2 DEF SyncRead, Typed, TypeOK
      <3>2. /\ sync'[e].torn = sync[e].torn /\ sync'[e].tier = sync[e].tier
            /\ sync'[e].held = Held(e)
        BY <3>1 DEF Typed, TypeOK
      <3> QED  BY <1>0, <1>1, <2>0, <3>1, <3>2 DEF SyncAgrees
    <2>3. CASE SyncAnswer(e)
      <3>1. sync'[e] = NoSync
        BY <2>3 DEF SyncAnswer, Typed, TypeOK
      <3> QED  BY <3>1 DEF NoSync, SyncAgrees
    <2> QED  BY <2>1, <2>2, <2>3 DEF SyncStep
  <1>3. ASSUME NEW d \in Devices PROVE SyncAgrees(d)'
    <2>1. CASE d # e
      BY <1>0, <1>1, <2>1 DEF Telling, SyncAgrees
    <2> QED  BY <1>2, <2>1
  <1>4. ASSUME NEW d \in Behaved' PROVE Told(d)'
    <2>0. d \in Behaved /\ d \in Devices /\ Told(d)
      BY <1>0 DEF Behaved, Telling
    <2>1. CASE agent'[d] = agent[d]
      BY <1>0, <1>1, <2>0, <2>1 DEF Told, UpToDate
    <2>2. CASE agent'[d] # agent[d]
      <3>1. d = e /\ SyncAnswer(e)
        BY <1>0, <2>0, <2>2 DEF SyncStep, SyncBegin, SyncRead
      <3>2. /\ agent'[e] = Answer(e) /\ sync[e].pc = "read"
        BY <3>1 DEF SyncAnswer, Typed, TypeOK
      <3>3. /\ agent'[e].num = version[e] /\ agent'[e].torn = sync[e].torn
            /\ agent'[e].tier = sync[e].tier /\ agent'[e].held = sync[e].held
        BY <3>2 DEF Answer
      <3>4. ~sync[e].torn => sync[e].tier = tier[e] /\ sync[e].held = Held(e)
        BY <3>2 DEF Telling, SyncAgrees
      <3>5. version[e] \in Nat
        BY DEF Typed, TypeOK
      <3> QED  BY <1>0, <1>1, <3>1, <3>3, <3>4, <3>5 DEF Told, UpToDate
    <2> QED  BY <2>1, <2>2
  <1> QED  BY <1>3, <1>4 DEF Telling

LEMMA TellingKept == Typed /\ Telling /\ [Next]_vars => Telling'
  <1> SUFFICES ASSUME Typed, Telling, [Next]_vars PROVE Telling'
    OBVIOUS
  <1>1. CASE UNCHANGED vars
    BY <1>1 DEF vars, Telling, SyncAgrees, Told, UpToDate, Signalled, BumpedDevice, Held,
                Behaved
  <1> QED
    BY <1>1, SaveLinkTelling, SaveConnectionTelling, DeleteTelling, BumpTelling,
       FormTelling, SyncTelling DEF Next

-----------------------------------------------------------------------------------

\* Every reachable state of the configuration and its syncs is well typed.
THEOREM ConfigTypeCorrect == Spec => []TypeOK
  <1>1. Typed => TypeOK
    BY DEF Typed
  <1> QED  BY <1>1, InitTyped, TypesKept, PTL DEF Spec

\* A machine that stands at the current config_version holds the current configuration,
\* for as long as neither a stale edit form has written its number over nor one of its
\* connections has been given to another machine: every other way a configuration can
\* change moves the number, and moves it after the change.
THEOREM NumberIsSafe == Spec => []NumberTellsAll
  <1>1. Init => Typed /\ Telling
    BY InitTyped, InitTelling
  <1>2. Typed /\ Telling /\ [Next]_vars => (Typed /\ Telling)'
    BY TypesKept, TellingKept
  <1>3. Telling => NumberTellsAll
    BY DEF Telling, Told, Behaved, NumberTellsAll
  <1> QED  BY <1>1, <1>2, <1>3, PTL DEF Spec

\* A sync that no write cut in two leaves the machine with what ADL says at that moment,
\* and what a machine has been told stays true until somebody writes. Devices whose number
\* was written over and devices that lost a connection are no exception: this is what
\* EveryMachineCatchesUp comes down to once nobody is editing.
SyncsCatchUp ==
    [][\A d \in Devices :
          ~sync[d].torn /\ tier'[d] = tier[d] /\ Held(d)' = Held(d) =>
              (UpToDate(d) \/ SyncAnswer(d) => UpToDate(d)')]_vars

\* A machine that syncs undisturbed is up to date, whatever became of its number: the
\* answer is the whole configuration and never a difference.
THEOREM SyncsAreWhole == Spec => SyncsCatchUp
  <1> DEFINE CatchesUp == \A d \in Devices :
                  ~sync[d].torn /\ tier'[d] = tier[d] /\ Held(d)' = Held(d) =>
                      (UpToDate(d) \/ SyncAnswer(d) => UpToDate(d)')
  <1>1. Init => Typed /\ Telling
    BY InitTyped, InitTelling
  <1>2. Typed /\ Telling /\ [Next]_vars => (Typed /\ Telling)'
    BY TypesKept, TellingKept
  <1>3. ASSUME Typed, Telling, [Next]_vars PROVE CatchesUp
    <2>. SUFFICES ASSUME NEW d \in Devices, ~sync[d].torn, tier'[d] = tier[d],
                         Held(d)' = Held(d), UpToDate(d) \/ SyncAnswer(d)
         PROVE  UpToDate(d)'
      OBVIOUS
    <2>1. CASE SyncAnswer(d)
      <3>1. SyncAgrees(d) /\ sync[d].pc = "read"
        BY <1>3, <2>1 DEF Telling, SyncAnswer
      <3>2. agent'[d].tier = sync[d].tier /\ agent'[d].held = sync[d].held
        BY <1>3, <2>1 DEF SyncAnswer, Answer, Typed, TypeOK
      <3>. QED BY <3>1, <3>2 DEF SyncAgrees, UpToDate
    <2>2. CASE UpToDate(d) /\ ~SyncAnswer(d)
      <3>1. agent'[d] = agent[d]
        <4>1. \/ agent' = agent
              \/ \E e \in Devices : e # d /\ SyncAnswer(e)
          BY <1>3, <2>2 DEF Next, Bump, SaveLink, SaveConnection, DeleteConnection, OpenForm,
             SaveForm, SyncStep, SyncBegin, SyncRead, vars
        <4>. QED BY <1>3, <4>1 DEF SyncAnswer, Typed, TypeOK
      <3>. QED BY <2>2, <3>1 DEF UpToDate
    <2>. QED BY <2>1, <2>2
  <1> QED  BY <1>1, <1>2, <1>3, PTL DEF Spec, SyncsCatchUp
====
