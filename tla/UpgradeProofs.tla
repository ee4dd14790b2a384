---------------------------- MODULE UpgradeProofs ----------------------------
(***************************************************************************)
(* Proofs about Upgrade for every number of versions, commands, crashes,   *)
(* reconnects and failed writes: a saved marker is announced at most once, *)
(* an upgrade is called complete only by newer code, and a version is      *)
(* reminded of once but for reminders that something cut or undid.         *)
(***************************************************************************)
EXTENDS Upgrade, TLAPS

\* Versions and files: what runs is on disk, what is on disk was released.
Trees ==
  /\ main \in Versions /\ disk \in Versions /\ running \in Versions
  /\ disk <= main /\ running <= disk
  /\ gw \in {"down", "started", "on", "draining"}

\* A command at work is in a live process, and one that has pulled holds newer
\* code than that process runs.
Commands ==
  /\ ask \in [Asks -> {"new", "pulling", "pulled", "done"}]
  /\ target \in [Asks -> Versions \cup {None}]
  /\ \A a \in Asks : ask[a] \in {"pulling", "pulled"} => Alive
  /\ \A a \in Asks : ask[a] = "pulled" => target[a] > running

\* A marker is newer than the code that saved it, and is announced only once.
Markers ==
  /\ marker \in Versions \cup {None} /\ oldCode \in Versions \cup {None}
  /\ saved \in Nat /\ announced \in Nat
  /\ AnnouncedOnce
  /\ marker # None => marker > oldCode

\* The rest of the types.
Told ==
  /\ owed \in BOOLEAN /\ restarted \in BOOLEAN
  /\ verdict \in {"none", "complete", "still", "failed"}

\* The update check: it reminds of the newest version it knows, never of one it
\* has recorded.
Checks ==
  /\ check \in {"idle", "posting", "posted"}
  /\ noticed \in 0 .. latest /\ latest \in 0 .. main
  /\ cut \in Nat /\ badWrites \in Nat
  /\ check # "idle" => latest # None
  /\ check = "posting" => noticed # latest

\* A reminder of v may still be posted: v is the newest version, or at hand.
MayRemind(v) == v = main \/ (check = "posting" /\ latest = v)

\* A reminder of v is on record, or about to be.
OnRecord(v) == noticed = v \/ (check = "posted" /\ latest = v)

\* How often each version was reminded of: one more than what was cut or undone,
\* and not that one more while another reminder may come and none is on record.
Reminders ==
  /\ reminded \in [Versions -> Nat]
  /\ RemindedOnce
  /\ \A v \in Versions : v > main => reminded[v] = 0
  /\ \A v \in Versions :
       MayRemind(v) /\ ~OnRecord(v) => reminded[v] <= cut + badWrites

\* The inductive invariant.
IInv == Trees /\ Commands /\ Markers /\ Told /\ Checks /\ Reminders

-----------------------------------------------------------------------------
(* The initial state.                                                      *)

\* The invariant holds when the first process has started.
LEMMA InitInv == Init => IInv
<1> SUFFICES ASSUME Init PROVE IInv
  OBVIOUS
<1>1. 1 \in Versions /\ None \notin Versions
  BY UpgradeAssumption DEF Versions, None
<1>2. Trees /\ Told
  <2>1. main = 1 /\ disk = 1 /\ running = 1 /\ gw = "started"
    BY DEF Init
  <2>2. Trees
    BY <1>1, <2>1 DEF Trees
  <2>3. Told
    BY DEF Init, Told
  <2>4. QED
    BY <2>2, <2>3
<1>3. Commands
  BY <1>1 DEF Init, Commands
<1>4. Markers
  BY <1>1 DEF Init, Markers, AnnouncedOnce, None
<1>5. Checks /\ Reminders
  BY <1>1 DEF Init, Checks, Reminders, RemindedOnce, MayRemind, OnRecord, None, Versions
<1>6. QED
  BY <1>2, <1>3, <1>4, <1>5 DEF IInv

-----------------------------------------------------------------------------
(* Versions, commands and markers.                                         *)

\* Whatever a post does, it changes nothing but what the principal was told.
LEMMA TellTypes ==
  ASSUME Told, NEW r \in {"none", "complete", "still", "failed"}
  PROVE  /\ Tell(r) => owed' \in BOOLEAN
                       /\ verdict' \in {"none", "complete", "still", "failed"}
         /\ TellStart => owed' \in BOOLEAN
         /\ Announce => owed' \in BOOLEAN
                       /\ verdict' \in {"none", "complete", "still", "failed"}
  BY DEF Told, Tell, TellStart, Announce

\* A command's steps keep its process alive and what it pulled newer.
LEMMA CommandStep ==
  ASSUME Trees, Commands, Told, NEW a \in Asks, Preconditions(a) \/ Command(a)
  PROVE  Trees' /\ Commands' /\ Told'
<1> USE DEF Trees, Commands, tree, files, checks, ghosts, Alive
<1>1. Versions \subseteq Nat
  BY DEF Versions
<1>2. CASE Preconditions(a)
  BY <1>2, TellTypes DEF Preconditions, Told
<1>3. CASE Pulled(a)
  <2>1. /\ disk' = main /\ UNCHANGED <<main, running, gw, restarted>>
        /\ ask[a] = "pulling" /\ gw \in {"on", "draining"}
    BY <1>3 DEF Pulled
  <2>2. Trees'
    BY <1>1, <2>1
  <2>3. Commands'
    BY <1>1, <1>3, <2>1 DEF Pulled, WorthARestart
  <2>4. Told'
    BY <1>3, TellTypes DEF Pulled, Told
  <2>5. QED
    BY <2>2, <2>3, <2>4
<1>4. CASE PullFails(a)
  BY <1>4, TellTypes DEF PullFails, Told
<1>5. CASE Stage(a)
  BY <1>5 DEF Stage, Told
<1>6. CASE MarkerNotSaved(a)
  BY <1>6, TellTypes DEF MarkerNotSaved, Told
<1>7. CASE RestartRefused(a)
  BY <1>7, TellTypes DEF RestartRefused, Told
<1>8. QED
  BY <1>2, <1>3, <1>4, <1>5, <1>6, <1>7 DEF Command

\* The steps of the process, and all others: no command outlives its process.
LEMMA ProcessStep ==
  ASSUME Trees, Commands, Told,
         \/ Release \/ CheckForUpdate \/ ReminderPosted \/ MarkNotified
         \/ Process \/ Crash \/ Reconnect \/ UNCHANGED vars
  PROVE  Trees' /\ Commands' /\ Told'
<1> USE DEF Trees, Commands, Told, tree, files, jobs, checks, ghosts, Alive
<1>1. Versions \subseteq Nat /\ MaxVersion \in Nat
  BY UpgradeAssumption DEF Versions
<1>2. CASE Release
  <2>1. main' \in Versions /\ main' >= main
    BY <1>1, <1>2 DEF Release, Versions
  <2>2. QED
    BY <1>1, <1>2, <2>1 DEF Release
<1>3. CASE CheckForUpdate \/ ReminderPosted \/ MarkNotified \/ UNCHANGED vars
  BY <1>3 DEF CheckForUpdate, ReminderPosted, MarkNotified, vars
<1>4. CASE DrainEnds \/ Crash
  <2>1. Ends
    BY <1>4 DEF DrainEnds, Crash
  <2>2. QED
    BY <2>1 DEF Ends
<1>5. CASE Start
  BY <1>1, <1>5 DEF Start
<1>6. CASE Connect \/ Reconnect
  BY <1>6, TellTypes DEF Connect, Reconnect
<1>7. QED
  BY <1>2, <1>3, <1>4, <1>5, <1>6 DEF Process

\* A marker is saved by a process whose code is older, and announcing it takes
\* it away.
LEMMA MarkerStep ==
  ASSUME Trees, Commands, Markers, [Next]_vars
  PROVE  /\ Markers'
         /\ announced' > announced => marker > oldCode
<1> USE DEF Markers, AnnouncedOnce, files, ghosts, None
<1>1. Versions \subseteq Nat \ {0}
  BY DEF Versions
<1>2. CASE UNCHANGED <<marker, oldCode, saved, announced>>
  BY <1>2
<1>3. ASSUME NEW a \in Asks, Stage(a)
      PROVE  Markers' /\ announced' = announced
  <2>1. target[a] > running /\ target[a] \in Versions /\ running \in Versions
    BY <1>1, <1>3 DEF Stage, Commands, Trees
  <2>2. QED
    BY <1>1, <1>3, <2>1 DEF Stage
<1>4. ASSUME UNCHANGED <<oldCode, saved, announced>>, marker' = None
      PROVE  Markers'
  BY <1>4
<1>5. CASE Connect \/ Reconnect
  <2>1. UNCHANGED <<oldCode, saved>> /\ Announce
    BY <1>5 DEF Connect, Reconnect
  <2>2. QED
    BY <1>1, <2>1 DEF Announce, MarkerAfterAnnounce
<1>6. ASSUME NEW a \in Asks, MarkerNotSaved(a) \/ RestartRefused(a)
      PROVE  Markers' /\ announced' = announced
  BY <1>4, <1>6 DEF MarkerNotSaved, RestartRefused
<1>7. CASE \/ Release \/ CheckForUpdate \/ ReminderPosted \/ MarkNotified
           \/ DrainEnds \/ Start \/ Crash \/ UNCHANGED vars
  BY <1>2, <1>7 DEF Release, CheckForUpdate, ReminderPosted, MarkNotified, DrainEnds,
     Start, Crash, Ends, vars
<1>8. ASSUME NEW a \in Asks, Preconditions(a) \/ Pulled(a) \/ PullFails(a)
      PROVE  UNCHANGED <<marker, oldCode, saved, announced>>
  BY <1>8 DEF Preconditions, Pulled, PullFails
<1>9. QED
  BY <1>2, <1>3, <1>5, <1>6, <1>7, <1>8 DEF Next, Process, Command

-----------------------------------------------------------------------------
(* The reminder.                                                           *)

\* A step that leaves the reminders alone, but may lose a write, does no harm.
LEMMA ReminderQuiet ==
  ASSUME Trees, Checks, Reminders,
         UNCHANGED <<main, check, latest, noticed, reminded, cut>>,
         badWrites' \in {badWrites, badWrites + 1}
  PROVE  Checks' /\ Reminders'
<1>1. Checks'
  BY DEF Checks
<1>2. Reminders'
  BY DEF Checks, Reminders, RemindedOnce, MayRemind, OnRecord
<1>3. QED
  BY <1>1, <1>2

\* A reminder that is cut after it landed counts as such.
LEMMA ReminderCancelled ==
  ASSUME Trees, Checks, Reminders, CancelCheck,
         UNCHANGED <<main, noticed, badWrites>>
  PROVE  Checks' /\ Reminders'
<1>1. /\ check' = "idle" /\ latest' = latest /\ reminded' = reminded
      /\ cut' = cut + (IF check = "posted" THEN 1 ELSE 0)
      /\ cut \in Nat /\ badWrites \in Nat
  BY DEF CancelCheck, Checks
<1>2. Checks'
  BY <1>1 DEF Checks
<1>3. reminded \in [Versions -> Nat]
  BY DEF Reminders
<1>4. RemindedOnce'
  BY <1>1, <1>3 DEF Reminders, RemindedOnce
<1>5. ASSUME NEW v \in Versions, MayRemind(v)', ~OnRecord(v)'
      PROVE  reminded'[v] <= cut' + badWrites'
  <2>1. v = main /\ noticed # v /\ reminded[v] \in Nat
    BY <1>1, <1>3, <1>5 DEF MayRemind, OnRecord
  <2>2. CASE check = "posted" /\ latest = v
    <3>1. reminded[v] <= 1 + cut + badWrites
      BY DEF Reminders, RemindedOnce
    <3>2. QED
      BY <1>1, <2>1, <2>2, <3>1
  <2>3. CASE ~(check = "posted" /\ latest = v)
    <3>1. reminded[v] <= cut + badWrites
      BY <2>1, <2>3 DEF Reminders, MayRemind, OnRecord
    <3>2. QED
      BY <1>1, <2>1, <3>1
  <2>4. QED
    BY <2>2, <2>3
<1>6. QED
  BY <1>1, <1>2, <1>4, <1>5 DEF Reminders

\* The steps of the check itself.
LEMMA ReminderStep ==
  ASSUME Trees, Checks, Reminders,
         Release \/ CheckForUpdate \/ ReminderPosted \/ MarkNotified
  PROVE  Checks' /\ Reminders'
<1> USE DEF Checks, files, checks, tree
<1>1. /\ Versions \subseteq Nat \ {0} /\ reminded \in [Versions -> Nat] /\ main \in Versions
      /\ latest \in Nat /\ noticed \in Nat /\ cut \in Nat /\ badWrites \in Nat
      /\ noticed <= latest /\ latest <= main
      /\ \A v \in Versions : reminded[v] \in Nat /\ reminded[v] <= 1 + cut + badWrites
  BY DEF Trees, Reminders, RemindedOnce, Versions
<1>2. CASE Release
  <2>1. main' = main + 1 /\ UNCHANGED <<check, latest, noticed, reminded, cut, badWrites>>
    BY <1>2 DEF Release, bounds
  <2>2. Checks'
    BY <1>1, <2>1
  <2>3. Reminders'
    BY <1>1, <2>1 DEF Reminders, RemindedOnce, MayRemind, OnRecord
  <2>4. QED
    BY <2>2, <2>3
<1>3. CASE CheckForUpdate
  <2>1. /\ check = "idle" /\ check' = "posting" /\ latest' = main /\ noticed # main
        /\ UNCHANGED <<main, noticed, reminded, cut, badWrites>>
    BY <1>3 DEF CheckForUpdate, ReminderDue, bounds
  <2>2. Checks'
    BY <1>1, <2>1 DEF None
  <2>3. Reminders'
    BY <1>1, <2>1 DEF Reminders, RemindedOnce, MayRemind, OnRecord
  <2>4. QED
    BY <2>2, <2>3
<1>4. CASE ReminderPosted
  <2>1. PICK landed \in {0, 1}, missed \in {0, 1} :
          /\ reminded' = [reminded EXCEPT ![latest] = @ + landed]
          /\ cut' = cut + missed
          /\ check' = IF landed = 1 /\ missed = 0 THEN "posted" ELSE "idle"
          /\ missed <= landed
    <3>1. \/ /\ check' = "posted" /\ reminded' = [reminded EXCEPT ![latest] = @ + 1]
             /\ cut' = cut + 0
          \/ /\ check' = "idle"
             /\ \E landed \in {0, 1} :
                  /\ reminded' = [reminded EXCEPT ![latest] = @ + landed]
                  /\ cut' = cut + landed
      BY <1>1, <1>4 DEF ReminderPosted
    <3>2. QED
      BY <3>1
  <2>2. /\ check = "posting" /\ latest \in Versions /\ noticed # latest
        /\ UNCHANGED <<main, latest, noticed, badWrites>>
    <3>1. check = "posting" /\ UNCHANGED <<main, latest, noticed, badWrites>>
      BY <1>4 DEF ReminderPosted
    <3>2. latest # 0 /\ latest <= main /\ latest \in Nat /\ main \in 1 .. MaxVersion
      BY <1>1, <3>1 DEF None, Versions
    <3>3. latest \in Versions
      BY <3>2, UpgradeAssumption DEF Versions
    <3>4. QED
      BY <3>1, <3>3
  <2>3. Checks'
    BY <1>1, <2>1, <2>2
  <2>4. /\ reminded' \in [Versions -> Nat]
        /\ \A v \in Versions :
             reminded'[v] = IF v = latest THEN reminded[v] + landed ELSE reminded[v]
    BY <1>1, <2>1, <2>2
  <2>5. reminded[latest] <= cut + badWrites
    BY <2>2 DEF Reminders, MayRemind, OnRecord
  <2>6. \A v \in Versions : reminded'[v] <= 1 + cut' + badWrites'
    BY <1>1, <2>1, <2>2, <2>4, <2>5
  <2>7. \A v \in Versions : v > main' => reminded'[v] = 0
    BY <1>1, <2>2, <2>4 DEF Reminders
  <2>8. ASSUME NEW v \in Versions, MayRemind(v)', ~OnRecord(v)'
        PROVE  reminded'[v] <= cut' + badWrites'
    <3>1. v = main /\ noticed # v
      BY <2>1, <2>2, <2>8 DEF MayRemind, OnRecord
    <3>2. CASE v = latest
      BY <1>1, <2>1, <2>2, <2>4, <2>5, <2>8, <3>2 DEF OnRecord
    <3>3. CASE v # latest
      <4>1. reminded[v] <= cut + badWrites
        BY <3>1, <3>3 DEF Reminders, MayRemind, OnRecord
      <4>2. QED
        BY <1>1, <2>1, <2>2, <2>4, <3>3, <4>1
    <3>4. QED
      BY <3>2, <3>3
  <2>9. QED
    BY <2>3, <2>4, <2>6, <2>7, <2>8 DEF Reminders, RemindedOnce
<1>5. CASE MarkNotified
  <2>1. /\ check = "posted" /\ check' = "idle" /\ UNCHANGED <<main, latest, reminded, cut>>
        /\ \/ noticed' = latest /\ badWrites' = badWrites
           \/ noticed' = 0 /\ badWrites' = badWrites + 1
    BY <1>5 DEF MarkNotified, None
  <2>2. Checks'
    BY <1>1, <2>1
  <2>3. ASSUME NEW v \in Versions, MayRemind(v)', ~OnRecord(v)'
        PROVE  reminded'[v] <= cut' + badWrites'
    <3>1. v = main /\ noticed' # v
      BY <2>1, <2>3 DEF MayRemind, OnRecord
    <3>2. CASE badWrites' = badWrites + 1
      BY <1>1, <2>1, <3>2
    <3>3. CASE badWrites' = badWrites
      <4>1. latest # v /\ noticed # v
        BY <1>1, <2>1, <3>1, <3>3
      <4>2. reminded[v] <= cut + badWrites
        BY <2>1, <3>1, <4>1 DEF Reminders, MayRemind, OnRecord
      <4>3. QED
        BY <2>1, <3>3, <4>2
    <3>4. QED
      BY <2>1, <3>2, <3>3
  <2>4. Reminders'
    BY <1>1, <2>1, <2>3 DEF Reminders, RemindedOnce
  <2>5. QED
    BY <2>2, <2>4
<1>6. QED
  BY <1>2, <1>3, <1>4, <1>5

\* Every step keeps the check and the count of its reminders.
LEMMA CheckStep ==
  ASSUME Trees, Checks, Reminders, [Next]_vars
  PROVE  Checks' /\ Reminders'
<1> USE DEF tree, files, checks, bounds
<1>1. CASE Release \/ CheckForUpdate \/ ReminderPosted \/ MarkNotified
  BY <1>1, ReminderStep
<1>2. ASSUME NEW a \in Asks, Preconditions(a) \/ Command(a)
      PROVE  /\ UNCHANGED <<main, check, latest, noticed, reminded, cut>>
             /\ badWrites' \in {badWrites, badWrites + 1}
  BY <1>2 DEF Preconditions, Command, Pulled, PullFails, Stage, MarkerNotSaved,
     RestartRefused
<1>3. CASE DrainEnds \/ Crash \/ Reconnect
  BY <1>3, ReminderCancelled DEF DrainEnds, Crash, Reconnect, Ends
<1>4. CASE Start \/ Connect \/ UNCHANGED vars
  BY <1>4, ReminderQuiet DEF Start, Connect, vars
<1>5. QED
  BY <1>1, <1>2, <1>3, <1>4, ReminderQuiet DEF Next, Process

-----------------------------------------------------------------------------
(* The theorems.                                                           *)

\* Every reachable state satisfies the invariant.
THEOREM UpgradeInductive == Spec => []IInv
<1>1. IInv /\ [Next]_vars => IInv'
  <2> SUFFICES ASSUME IInv, [Next]_vars PROVE IInv'
    OBVIOUS
  <2>1. Trees' /\ Commands' /\ Told'
    BY CommandStep, ProcessStep DEF IInv, Next
  <2>2. QED
    BY <2>1, MarkerStep, CheckStep DEF IInv
<1>2. QED
  BY InitInv, <1>1, PTL DEF Spec

\* The types of the upgrade, and with them what they say of versions: what runs
\* is on disk, what is on disk was released, and a command that has pulled is at
\* work in a live process that runs older code (_run_upgrade).
THEOREM UpgradeTypes == Spec => []TypeOK
<1>1. IInv => TypeOK
  <2> SUFFICES ASSUME IInv PROVE TypeOK
    OBVIOUS
  <2>1. latest \in Versions \cup {None} /\ noticed \in Versions \cup {None}
    BY UpgradeAssumption DEF IInv, Trees, Checks, Versions, None
  <2>2. reminded \in [Versions -> Nat] /\ cut \in Nat
    BY DEF IInv, Checks, Reminders
  <2>3. QED
    BY <2>1, <2>2 DEF TypeOK, IInv, Trees, Commands, Markers, Told, Checks
<1>2. QED
  BY UpgradeInductive, <1>1, PTL

\* A marker is announced at most once, whatever reconnects, restarts and crashes
\* follow the upgrade that saved it (_announce_completed_upgrade).
THEOREM MarkersAnnouncedOnce == Spec => []AnnouncedOnce
<1>1. IInv => AnnouncedOnce
  BY DEF IInv, Markers
<1>2. QED
  BY UpgradeInductive, <1>1, PTL

\* "Complete" comes only from a process that runs newer code than the one that
\* staged the upgrade (_announce_completed_upgrade, self_update).
THEOREM CompleteIsNewCode == Spec => CompleteMeansNewCode
<1>1. IInv /\ [Next]_vars => (announced' > announced /\ marker <= running => running > oldCode)
  <2> SUFFICES ASSUME IInv, [Next]_vars, announced' > announced, marker <= running
               PROVE  running > oldCode
    OBVIOUS
  <2>1. marker > oldCode
    BY MarkerStep DEF IInv
  <2>2. {marker, oldCode, running} \subseteq Nat
    BY DEF IInv, Markers, Trees, Versions, None
  <2>3. QED
    BY <2>1, <2>2
<1>2. IInv /\ [Next]_vars
      => [announced' > announced /\ marker <= running => running > oldCode]_vars
  BY <1>1
<1>3. QED
  BY UpgradeInductive, <1>2, PTL DEF Spec, CompleteMeansNewCode

\* A version is reminded of once, and again only when a cancelled or lost post
\* or a failed write undid the record (_update_check_loop, mark_notified).
THEOREM RemindersOnce == Spec => []RemindedOnce
<1>1. IInv => RemindedOnce
  BY DEF IInv, Reminders
<1>2. QED
  BY UpgradeInductive, <1>1, PTL
=============================================================================
