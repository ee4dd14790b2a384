-------------------------------- MODULE Upgrade --------------------------------
(***************************************************************************)
(* The plugin upgrading itself: the daily update check with its reminder   *)
(* (update_check, FCMFilamentAdapter._update_check_loop), and /fil-upgrade *)
(* (FCMFilamentAdapter._run_upgrade, self_update): pull, start notice, a   *)
(* marker on disk, a restart of the gateway, and the result, announced on  *)
(* the next connect by whoever finds the marker.                           *)
(***************************************************************************)
EXTENDS Naturals, FiniteSets

CONSTANTS
  MaxVersion,     \* versions released to main, from 1
  Asks,           \* /fil-upgrade commands of the principal
  StaleLoads,     \* may a restart come up in the old code?
  MaxReconnects,  \* bound on connects of one process after its first
  MaxCrashes,     \* bound on crashes of the gateway
  MaxBadWrites,   \* bound on failed writes of the two files
  MaxLost         \* bound on backchannel posts that do not land

Versions == 1 .. MaxVersion
None     == 0

ASSUME UpgradeAssumption ==
  /\ MaxVersion \in Nat \ {0} /\ StaleLoads \in BOOLEAN
  /\ {MaxReconnects, MaxCrashes, MaxBadWrites, MaxLost} \subseteq Nat

VARIABLES
  main,       \* the version on main
  disk,       \* version_on_disk: the plugin tree
  running,    \* PLUGIN_VERSION
  gw,         \* "down", "started" (before its connect), "on" or "draining"
  marker,     \* pending_upgrade.json: its target version
  noticed,    \* update_notice.json: notified_version
  ask,        \* command -> "new", "pulling", "pulled" or "done"
  target,     \* command -> the version it pulled
  check,      \* update check: "idle", or a reminder is "posting" or "posted"
  latest,     \* the version that reminder names
  \* What the principal has been told, and what it is about:
  owed,       \* a start notice has no result after it yet
  saved, announced,  \* markers saved, and markers acted upon
  oldCode,    \* the version that ran when the marker was saved
  restarted,  \* has a process started since the marker was saved?
  verdict,    \* the last result: "none", "complete", "still", "failed"
  reminded,   \* version -> reminders posted
  cut,        \* reminders that landed without the gateway getting to know
  reconnects, crashes, badWrites, lost

tree   == <<main, disk>>
files  == <<marker, noticed>>
jobs   == <<ask, target>>
checks == <<check, latest, reminded, cut>>
ghosts == <<saved, announced, oldCode, restarted>>
bounds == <<reconnects, crashes, badWrites, lost>>
vars   == <<tree, running, gw, files, jobs, checks, owed, verdict, ghosts, bounds>>

Alive == gw \in {"on", "draining"}

-----------------------------------------------------------------------------
(* Notices and files.                                                      *)

\* FCMFilamentAdapter._post_backchannel never raises: a post lands or is lost.
Tell(result) ==
  \/ /\ verdict' = result /\ owed' = FALSE
     /\ UNCHANGED lost
  \/ /\ lost < MaxLost /\ lost' = lost + 1
     /\ UNCHANGED <<owed, verdict>>

TellStart ==
  \/ owed' = TRUE /\ UNCHANGED lost
  \/ lost < MaxLost /\ lost' = lost + 1 /\ UNCHANGED owed

\* Mutant: keep the marker of an upgrade that did not take effect.
ClearCompleted == IF marker > running THEN marker ELSE None
MarkerAfterAnnounce == None

\* FCMFilamentAdapter._announce_completed_upgrade, on every connect.
Announce ==
  IF marker = None
  THEN UNCHANGED <<marker, announced, owed, verdict, lost>>
  ELSE /\ announced' = announced + 1 /\ marker' = MarkerAfterAnnounce
       /\ Tell(IF marker > running THEN "still" ELSE "complete")

\* Mutant: restart into whatever was pulled.
RestartAnyway(v) == TRUE
WorthARestart(v) == v > running

-----------------------------------------------------------------------------
(* The update check.                                                       *)

Release ==
  /\ main < MaxVersion /\ main' = main + 1
  /\ UNCHANGED <<disk, running, gw, files, jobs, checks, owed, verdict, ghosts, bounds>>

\* Mutant: remind of what the tree does not hold yet.
DueByTree == main > disk
ReminderDue == main > running /\ noticed # main

CheckForUpdate ==
  /\ Alive /\ check = "idle" /\ ReminderDue
  /\ check' = "posting" /\ latest' = main
  /\ UNCHANGED <<tree, running, gw, files, jobs, reminded, cut, owed, verdict, ghosts, bounds>>

ReminderPosted ==
  /\ check = "posting"
  /\ \/ /\ check' = "posted" /\ reminded' = [reminded EXCEPT ![latest] = @ + 1]
        /\ UNCHANGED <<cut, lost>>
     \/ /\ lost < MaxLost /\ lost' = lost + 1 /\ check' = "idle"
        /\ \E landed \in {0, 1} :
             /\ reminded' = [reminded EXCEPT ![latest] = @ + landed]
             /\ cut' = cut + landed
  /\ UNCHANGED <<tree, running, gw, files, jobs, latest, owed, verdict, ghosts,
                 reconnects, crashes, badWrites>>

MarkNotified ==
  /\ check = "posted" /\ check' = "idle"
  /\ \/ noticed' = latest /\ UNCHANGED badWrites
     \/ badWrites < MaxBadWrites /\ badWrites' = badWrites + 1 /\ noticed' = None
  /\ UNCHANGED <<tree, running, gw, marker, jobs, latest, reminded, cut, owed, verdict,
                 ghosts, reconnects, crashes, lost>>

-----------------------------------------------------------------------------
(* /fil-upgrade.                                                           *)

\* No checkout, a detached one or local edits end it with a failure notice.
Preconditions(a) ==
  /\ Alive /\ ask[a] = "new"
  /\ \/ ask' = [ask EXCEPT ![a] = "pulling"] /\ UNCHANGED <<owed, verdict, lost>>
     \/ ask' = [ask EXCEPT ![a] = "done"] /\ Tell("failed")
  /\ UNCHANGED <<tree, running, gw, files, target, checks, ghosts,
                 reconnects, crashes, badWrites>>

PullFails(a) ==
  /\ ask[a] = "pulling" /\ ask' = [ask EXCEPT ![a] = "done"] /\ Tell("failed")
  /\ UNCHANGED <<tree, running, gw, files, target, checks, ghosts,
                 reconnects, crashes, badWrites>>

\* What the tree holds now decides, not what was advertised.
Pulled(a) ==
  /\ ask[a] = "pulling" /\ disk' = main
  /\ IF WorthARestart(main)
     THEN /\ ask' = [ask EXCEPT ![a] = "pulled"]
          /\ target' = [target EXCEPT ![a] = main]
          /\ TellStart /\ UNCHANGED verdict
     ELSE /\ ask' = [ask EXCEPT ![a] = "done"] /\ UNCHANGED target
          /\ Tell("failed")
  /\ UNCHANGED <<main, running, gw, files, checks, ghosts,
                 reconnects, crashes, badWrites>>

\* The marker is written and read back, then the restart is requested, all in
\* one step; the gateway then drains its turns.
Stage(a) ==
  /\ ask[a] = "pulled" /\ ask' = [ask EXCEPT ![a] = "done"]
  /\ marker' = target[a] /\ gw' = "draining"
  /\ saved' = saved + 1 /\ oldCode' = running /\ restarted' = FALSE
  /\ UNCHANGED <<tree, running, noticed, target, checks, owed, verdict, announced, bounds>>

\* Mutant: restart without a marker to read.
RestartUnmarked(a) ==
  /\ ask[a] = "pulled" /\ badWrites < MaxBadWrites /\ badWrites' = badWrites + 1
  /\ ask' = [ask EXCEPT ![a] = "done"] /\ marker' = None /\ gw' = "draining"
  /\ UNCHANGED <<tree, running, noticed, target, checks, owed, verdict, ghosts,
                 reconnects, crashes, lost>>
MarkerNotSaved(a) ==
  /\ ask[a] = "pulled" /\ badWrites < MaxBadWrites /\ badWrites' = badWrites + 1
  /\ ask' = [ask EXCEPT ![a] = "done"] /\ marker' = None /\ Tell("failed")
  /\ UNCHANGED <<tree, running, gw, noticed, target, checks, ghosts, reconnects, crashes>>

RestartRefused(a) ==
  /\ ask[a] = "pulled" /\ gw = "on"
  /\ ask' = [ask EXCEPT ![a] = "done"] /\ marker' = None /\ Tell("failed")
  /\ UNCHANGED <<tree, running, gw, noticed, target, checks, ghosts,
                 reconnects, crashes, badWrites>>

-----------------------------------------------------------------------------
(* The process.                                                            *)

\* The update check is cancelled, between a landed reminder and its record too.
CancelCheck ==
  /\ check' = "idle" /\ cut' = cut + (IF check = "posted" THEN 1 ELSE 0)
  /\ UNCHANGED <<latest, reminded>>

Ends ==
  /\ gw' = "down" /\ CancelCheck
  /\ ask' = [a \in Asks |-> IF ask[a] = "new" THEN "new" ELSE "done"]
  /\ UNCHANGED <<tree, running, files, target, owed, verdict, ghosts>>

\* Draining waits for the turns of the model, not for a command being handled.
DrainEnds == gw = "draining" /\ Ends /\ UNCHANGED bounds

Crash ==
  /\ Alive /\ crashes < MaxCrashes /\ crashes' = crashes + 1
  /\ Ends /\ UNCHANGED <<reconnects, badWrites, lost>>

Start ==
  /\ gw = "down" /\ gw' = "started" /\ restarted' = TRUE
  /\ running' \in {disk} \cup (IF StaleLoads THEN {running} ELSE {})
  /\ UNCHANGED <<tree, files, jobs, checks, owed, verdict, saved, announced, oldCode, bounds>>

Connect ==
  /\ gw = "started" /\ gw' = "on" /\ Announce
  /\ UNCHANGED <<tree, running, noticed, jobs, checks, saved, oldCode, restarted,
                 reconnects, crashes, badWrites>>

\* The receiver died: disconnect cancels the update check, and the platform
\* connects again in the same process, draining or not.
Reconnect ==
  /\ Alive /\ reconnects < MaxReconnects /\ reconnects' = reconnects + 1
  /\ CancelCheck /\ Announce
  /\ UNCHANGED <<tree, running, gw, noticed, jobs, saved, oldCode, restarted,
                 crashes, badWrites>>

-----------------------------------------------------------------------------
Init ==
  /\ main = 1 /\ disk = 1 /\ running = 1 /\ gw = "started"
  /\ marker = None /\ noticed = None
  /\ ask = [a \in Asks |-> "new"] /\ target = [a \in Asks |-> None]
  /\ check = "idle" /\ latest = None /\ reminded = [v \in Versions |-> 0] /\ cut = 0
  /\ owed = FALSE /\ verdict = "none"
  /\ saved = 0 /\ announced = 0 /\ oldCode = None /\ restarted = FALSE
  /\ reconnects = 0 /\ crashes = 0 /\ badWrites = 0 /\ lost = 0

Process == DrainEnds \/ Start \/ Connect
Command(a) == Pulled(a) \/ PullFails(a) \/ Stage(a) \/ MarkerNotSaved(a) \/ RestartRefused(a)

Next ==
  \/ Release \/ CheckForUpdate \/ ReminderPosted \/ MarkNotified
  \/ \E a \in Asks : Preconditions(a) \/ Command(a)
  \/ Process \/ Crash \/ Reconnect

Spec == Init /\ [][Next]_vars

\* A pull ends and a handler runs on; a post returns; Hermes' drain ends and a
\* restart it accepted comes up and connects.
FairSpec ==
  /\ Spec /\ WF_vars(Process) /\ WF_vars(ReminderPosted) /\ WF_vars(MarkNotified)
  /\ \A a \in Asks : WF_vars(Command(a))

-----------------------------------------------------------------------------
\* The variables stay in their types, no process runs code that is not on disk,
\* and a command that has pulled waits in a live process to stage newer code.
TypeOK ==
  /\ {main, disk, running} \subseteq Versions
  /\ gw \in {"down", "started", "on", "draining"}
  /\ {marker, noticed, latest, oldCode} \subseteq Versions \cup {None}
  /\ ask \in [Asks -> {"new", "pulling", "pulled", "done"}]
  /\ target \in [Asks -> Versions \cup {None}]
  /\ check \in {"idle", "posting", "posted"} /\ reminded \in [Versions -> Nat] /\ cut \in Nat
  /\ {owed, restarted} \subseteq BOOLEAN
  /\ verdict \in {"none", "complete", "still", "failed"}
  /\ disk <= main /\ running <= disk
  /\ \A a \in Asks : ask[a] = "pulled" => Alive /\ target[a] > running

\* The marker describes one restart: whatever reconnects and restarts follow,
\* each marker saved is announced at most once.
AnnouncedOnce == announced + (IF marker = None THEN 0 ELSE 1) <= saved

\* "Complete" is said only by a process that runs newer code than the one that
\* staged the upgrade.
CompleteMeansNewCode ==
  [][(announced' > announced /\ marker <= running) => running > oldCode]_vars

\* One reminder per version, across restarts: more only when something cut or
\* undid the record of the one before.
RemindedOnce == \A v \in Versions : reminded[v] <= 1 + cut + badWrites

\* An agent that said it is upgrading says how that ended, unless it crashes, a
\* post is lost or a reconnect has taken the marker.
StartIsAnswered == owed ~> (~owed \/ crashes > 0 \/ lost > 0 \/ reconnects > 0)

\* What self_update's docstring says: it is the next process that posts the
\* result.  A reconnect of the draining process announces the upgrade as
\* failed before the restart happened, and takes the marker with it.
AnnouncedByNextProcess == [][announced' > announced => restarted]_vars
=============================================================================
