----------------------------- MODULE PushReceiver -----------------------------
(***************************************************************************)
(* The FCM push receiver: the listen and monitor tasks of the vendored     *)
(* FcmPushClient, which share one connection, one run_state and one reset  *)
(* lock; FilamentFCMClient, which watches both tasks; and the adapter,     *)
(* which reports a dead receiver so that Hermes builds a new adapter.      *)
(*                                                                         *)
(* Five connection attempts of _connect_with_retry are one step.  Time is  *)
(* the flag fresh: a message came within the client's heartbeat interval.  *)
(***************************************************************************)
EXTENDS Naturals

CONSTANTS
  AbortCount,   \* abort_on_sequential_error_count
  SilentIn,     \* run states in which a peer may go silent without an error
  MaxFaults,    \* bound on what goes wrong
  MaxStops      \* bound on ordinary disconnects of the adapter

Tasks  == {"listen", "monitor"}
Errors == {"connection", "login", "notify"}
Free   == "free"

ASSUME ReceiverAssumption ==
  /\ AbortCount \in Nat \ {0} /\ MaxFaults \in Nat /\ MaxStops \in Nat
  /\ SilentIn \subseteq {"login", "started"}

VARIABLES
  life,       \* the adapter: "off", "on", or "fatal" (a fatal error is set)
  run,        \* FcmPushClient.run_state
  listening,  \* do_listen
  at,         \* where each task is
  lock,       \* the holder of reset_lock
  conn,       \* self.reader and writer: "none", "open", "broken" or "silent"
  asked,      \* a login request was sent on conn and is not answered
  fresh,      \* last_message_time is recent
  errors,     \* sequential_error_counters
  watched,    \* done-callbacks that did not run yet
  stopped,    \* FilamentFCMClient._stopped
  reported,   \* FilamentFCMClient._death_reported
  judged,     \* history: the monitor's last heartbeat went out on this connection
  faults, stops

client == <<run, listening, at, lock, conn, asked, fresh, errors>>
watch  == <<watched, stopped, reported>>
receiverVars == <<life, client, watch, judged, faults, stops>>

Fault == faults < MaxFaults /\ faults' = faults + 1

Starting == {"resetting", "connecting"}

-----------------------------------------------------------------------------
(* What both tasks do.                                                     *)

\* Cancelled tasks end: the listen task once it closed its connection, unless
\* it never left its first connection attempts.
Cancelled(S) ==
  [t \in Tasks |-> IF t \notin S \/ at[t] = "done" THEN at[t]
                   ELSE IF t = "listen" /\ at[t] # "connect" THEN "closing"
                   ELSE "done"]

\* _terminate, called by a task: the other is cancelled, and the caller leaves
\* its loop (the monitor's ends with do_listen, at once as seen from outside).
Terminate ==
  /\ run' = "stopping" /\ listening' = FALSE
  /\ at' = Cancelled(Tasks) /\ lock' = Free

\* Where a task goes on after a reset.
Home(t) == IF t = "listen" THEN "read" ELSE "sleep"

\* _reset, called by a task: nothing while another reset runs.
Reset(t) ==
  IF lock # Free \/ ~listening
  THEN at' = [at EXCEPT ![t] = Home(t)] /\ UNCHANGED <<run, lock>>
  ELSE /\ lock' = t /\ run' = "resetting"
       /\ at' = [at EXCEPT ![t] = "close"]

\* _try_increment_error_count: the receiver gives up at the AbortCount-th error
\* in a row; otherwise then(t) follows.
Counted(e) == errors' = [errors EXCEPT ![e] = @ + 1]
CountAndReset(t, e) ==
  /\ Counted(e)
  /\ IF errors'[e] >= AbortCount THEN Terminate
     ELSE Reset(t) /\ UNCHANGED listening

\* A reset closes the connection; a read pending on it ends with an error that
\* is expected in this state.
ResetCloses(t) ==
  /\ at[t] = "close"
  /\ conn' = "none" /\ asked' = FALSE
  /\ run' = "connecting" /\ at' = [at EXCEPT ![t] = "reconnect"]
  /\ UNCHANGED <<life, listening, lock, fresh, errors, judged, watch, faults, stops>>

\* It connects again, or gives up.
ResetConnects(t) ==
  /\ at[t] = "reconnect"
  /\ \/ /\ conn' = "open" /\ run' = "login"
        /\ at' = [at EXCEPT ![t] = "relogin"] /\ judged' = FALSE
        /\ UNCHANGED <<listening, lock, faults>>
     \/ Fault /\ Terminate /\ UNCHANGED <<conn, judged>>
  /\ UNCHANGED <<life, asked, fresh, errors, watch, stops>>

\* And logs in.  If the request cannot be sent, the nested _reset finds the
\* lock held and does nothing.
ResetLogsIn(t) ==
  /\ at[t] = "relogin"
  /\ \/ /\ conn # "broken"
        /\ asked' = TRUE /\ lock' = Free
        /\ at' = [at EXCEPT ![t] = Home(t)]
        /\ UNCHANGED <<run, listening, errors>>
     \/ /\ conn = "broken" /\ Counted("login")
        /\ IF errors'["login"] >= AbortCount THEN Terminate
           ELSE /\ at' = [at EXCEPT ![t] = Home(t)] /\ lock' = Free
                /\ UNCHANGED <<run, listening>>
        /\ UNCHANGED asked
  /\ UNCHANGED <<life, conn, fresh, judged, watch, faults, stops>>

-----------------------------------------------------------------------------
(* The listen task.                                                        *)

\* The first connection.  When it fails the task just returns.
Connects ==
  /\ at["listen"] = "connect"
  /\ \/ /\ conn' = "open" /\ run' = "login"
        /\ at' = [at EXCEPT !["listen"] = "login"]
        /\ judged' = FALSE /\ UNCHANGED faults
     \/ /\ Fault
        /\ at' = [at EXCEPT !["listen"] = "done"] /\ UNCHANGED <<conn, run, judged>>
  /\ UNCHANGED <<life, listening, lock, asked, fresh, errors, watch, stops>>

LogsIn ==
  /\ at["listen"] = "login"
  /\ \/ /\ conn # "broken" /\ asked' = TRUE
        /\ at' = [at EXCEPT !["listen"] = "read"]
        /\ UNCHANGED <<run, listening, lock, errors>>
     \/ conn = "broken" /\ CountAndReset("listen", "login") /\ UNCHANGED asked
  /\ UNCHANGED <<life, conn, fresh, judged, watch, faults, stops>>

\* The task reads, unless it waits for the other task's reset to get through.
Reading == at["listen"] = "read" /\ listening /\ run \notin Starting

\* MCS answers the login.
LoginAnswered ==
  /\ Reading /\ conn = "open" /\ asked
  /\ asked' = FALSE /\ fresh' = TRUE
  /\ \/ /\ run' = "started" /\ errors' = [errors EXCEPT !["login"] = 0]
        /\ UNCHANGED <<listening, at, lock, faults>>
     \/ Fault /\ CountAndReset("listen", "login")
  /\ UNCHANGED <<life, conn, judged, watch, stops>>

\* A ping or an ack of our heartbeat arrives, or a push, which the callback
\* takes.  (The read that succeeded ends a row of connection errors.)
MessageArrives ==
  /\ Reading /\ conn = "open" /\ run = "started"
  /\ fresh' = TRUE
  /\ \E S \in {{"connection"}, {"connection", "notify"}} :
       errors' = [e \in Errors |-> IF e \in S THEN 0 ELSE errors[e]]
  /\ UNCHANGED <<life, run, listening, at, lock, conn, asked, judged, watch, faults,
                 stops>>

\* A push arrives and the callback raises.
CallbackFails ==
  /\ Reading /\ conn = "open" /\ run = "started" /\ Fault
  /\ fresh' = TRUE
  /\ errors' = [errors EXCEPT !["notify"] = @ + 1, !["connection"] = 0]
  /\ IF errors'["notify"] >= AbortCount THEN Terminate
     ELSE UNCHANGED <<run, listening, at, lock>>
  /\ UNCHANGED <<life, conn, asked, judged, watch, stops>>

\* MCS asks to close the connection, or it breaks under the read.
CloseArrives ==
  /\ Reading /\ conn = "open" /\ Fault
  /\ fresh' = TRUE /\ CountAndReset("listen", "connection")
  /\ UNCHANGED <<life, conn, asked, judged, watch, stops>>

ReadFails ==
  /\ Reading /\ conn \in {"broken", "none"}
  /\ CountAndReset("listen", "connection")
  /\ UNCHANGED <<life, conn, asked, fresh, judged, watch, faults, stops>>

\* The monitor's reset closes the connection under the read.  That error is
\* expected, and ends only this read, unless it is of another kind.
OldReadFails ==
  /\ at["listen"] = "read" /\ lock = "monitor" /\ run = "resetting"
  /\ conn # "none" /\ conn' = "none" /\ Fault
  /\ CountAndReset("listen", "connection")
  /\ UNCHANGED <<life, asked, fresh, judged, watch, stops>>

ListenEnds ==
  /\ at["listen"] = "closing"
  /\ at' = [at EXCEPT !["listen"] = "done"]
  /\ conn' = "none" /\ asked' = FALSE
  /\ UNCHANGED <<life, run, listening, lock, fresh, errors, judged, watch, faults, stops>>

-----------------------------------------------------------------------------
(* The monitor task.                                                       *)

\* When nothing came for a while it sends a heartbeat.  On a connection that
\* broke, this may raise, which ends the task.
Heartbeat ==
  /\ at["monitor"] = "sleep" /\ listening /\ run = "started" /\ ~fresh
  /\ \E next \in {"beat"} \cup (IF conn = "broken" THEN {"done"} ELSE {}) :
       at' = [at EXCEPT !["monitor"] = next]
  /\ judged' = TRUE
  /\ UNCHANGED <<life, run, listening, lock, conn, asked, fresh, errors, watch,
                 faults, stops>>

\* Five seconds later it resets the connection, if that is still called for.
AlwaysDue == TRUE
StillDue == ~fresh /\ listening /\ run = "started"
BeatOver ==
  /\ at["monitor"] = "beat"
  /\ IF StillDue THEN Reset("monitor")
     ELSE at' = [at EXCEPT !["monitor"] = "sleep"] /\ UNCHANGED <<run, lock>>
  /\ UNCHANGED <<life, listening, conn, asked, fresh, errors, judged, watch, faults,
                 stops>>

-----------------------------------------------------------------------------
(* The network, and time.                                                  *)

ConnectionBreaks ==
  /\ conn \in {"open", "silent"} /\ Fault /\ conn' = "broken"
  /\ UNCHANGED <<life, run, listening, at, lock, asked, fresh, errors, judged, watch,
                 stops>>

\* (A login request still under way would time out, so the peer has that.)
PeerGoesSilent ==
  /\ conn = "open" /\ run \in SilentIn /\ (run = "login" => asked)
  /\ Fault /\ conn' = "silent"
  /\ UNCHANGED <<life, run, listening, at, lock, asked, fresh, errors, judged, watch,
                 stops>>

\* Nothing arrives for client_heartbeat_interval seconds.  That is longer than
\* heartbeat_ack_timeout: what arrived while the monitor waits for its ack is
\* still recent when it looks again.
Quiet ==
  /\ fresh /\ at["monitor"] # "beat" /\ fresh' = FALSE
  /\ UNCHANGED <<life, run, listening, at, lock, conn, asked, errors, judged, watch,
                 faults, stops>>

-----------------------------------------------------------------------------
(* The owners.                                                             *)

\* FilamentFCMClient.start: a new client, its two tasks, and their watch.
StartTasks ==
  /\ run' = "connecting" /\ listening' = TRUE
  /\ at' = [t \in Tasks |-> IF t = "listen" THEN "connect" ELSE "sleep"]
  /\ lock' = Free /\ conn' = "none" /\ asked' = FALSE /\ fresh' = FALSE /\ judged' = FALSE
  /\ errors' = [e \in Errors |-> 0]
  /\ watched' = Tasks /\ stopped' = FALSE /\ reported' = FALSE

\* The adapter connects, for the first time or because Hermes reconnects it.
Connect ==
  /\ life = "off" /\ life' = "on"
  /\ StartTasks /\ UNCHANGED <<faults, stops>>

\* A watched task ended: the first such end outside stop() is a death.
AllEnded(t) == \A u \in Tasks : at[u] = "done"
Ended(t) == at[t] = "done"
TaskDone(t) ==
  /\ t \in watched /\ Ended(t) /\ watched' = watched \ {t}
  /\ IF stopped \/ reported THEN UNCHANGED <<reported, life>>
     ELSE reported' = TRUE /\ life' = "fatal"
  /\ UNCHANGED <<client, stopped, judged, faults, stops>>

\* disconnect: after a fatal error, or because the gateway stops.
Silence == stopped' = TRUE
Disconnect ==
  /\ \/ life = "fatal" /\ UNCHANGED stops
     \/ life = "on" /\ stops < MaxStops /\ stops' = stops + 1
  /\ life' = "off" /\ Silence
  /\ at' = Cancelled(Tasks) /\ lock' = Free
  /\ UNCHANGED <<run, listening, conn, asked, fresh, errors, watched, reported,
                 judged, faults>>

-----------------------------------------------------------------------------
ReceiverInit ==
  /\ life = "off" /\ run = "created" /\ listening = FALSE
  /\ at = [t \in Tasks |-> "done"] /\ lock = Free
  /\ conn = "none" /\ asked = FALSE /\ fresh = FALSE
  /\ errors = [e \in Errors |-> 0]
  /\ watched = {} /\ stopped = FALSE /\ reported = FALSE /\ judged = FALSE
  /\ faults = 0 /\ stops = 0

Resetting(t) == ResetCloses(t) \/ ResetConnects(t) \/ ResetLogsIn(t)
Listen ==
  \/ Connects \/ LogsIn \/ LoginAnswered \/ CloseArrives \/ ReadFails
  \/ OldReadFails \/ ListenEnds
Monitor == Heartbeat \/ BeatOver

ReceiverNext ==
  \/ Listen \/ MessageArrives \/ CallbackFails \/ Monitor
  \/ \E t \in Tasks : Resetting(t) \/ TaskDone(t)
  \/ ConnectionBreaks \/ PeerGoesSilent \/ Quiet \/ Connect \/ Disconnect

ReceiverSpec == ReceiverInit /\ [][ReceiverNext]_receiverVars

\* Tasks run, MCS answers logins and heartbeats, a silent peer is noticed as
\* time passes, done-callbacks run, and Hermes' reconnect watcher reconnects.
ReceiverFairness ==
  /\ WF_receiverVars(Listen) /\ WF_receiverVars(MessageArrives)
  /\ WF_receiverVars(Monitor)
  /\ \A t \in Tasks :
       WF_receiverVars(Resetting(t)) /\ WF_receiverVars(TaskDone(t))
  /\ WF_receiverVars(conn = "silent" /\ Quiet)
  /\ WF_receiverVars(Connect) /\ WF_receiverVars(life = "fatal" /\ Disconnect)

ReceiverFairSpec == ReceiverSpec /\ ReceiverFairness

-----------------------------------------------------------------------------
(* Properties.                                                             *)

\* Every variable stays in its type; whoever is inside a reset holds the lock,
\* so that the tasks never reset one connection both.
ReceiverTypeOK ==
  /\ life \in {"off", "on", "fatal"}
  /\ run \in {"created", "resetting", "connecting", "login", "started", "stopping"}
  /\ listening \in BOOLEAN /\ asked \in BOOLEAN /\ fresh \in BOOLEAN
  /\ at["listen"] \in {"connect", "login", "read", "close", "reconnect", "relogin",
                       "closing", "done"}
  /\ at["monitor"] \in {"sleep", "beat", "close", "reconnect", "relogin", "done"}
  /\ lock \in Tasks \cup {Free}
  /\ \A t \in Tasks : lock = t <=> at[t] \in {"close", "reconnect", "relogin"}
  /\ conn \in {"none", "open", "broken", "silent"}
  /\ errors \in [Errors -> 0 .. AbortCount]
  /\ watched \subseteq Tasks /\ stopped \in BOOLEAN /\ reported \in BOOLEAN
  /\ judged \in BOOLEAN
  /\ faults \in 0 .. MaxFaults /\ stops \in 0 .. MaxStops

\* Pushes are heard.
Hearing == life = "on" /\ run = "started" /\ conn = "open"

\* The monitor resets only the connection that left its heartbeat unanswered:
\* when the listen task sets up another while it waits for the ack, however
\* that ends, the monitor leaves it alone ("Check state hasn't changed during
\* sleep" in _do_monitor).
NewConnectionKept ==
  [][lock # "monitor" /\ lock' = "monitor" => judged]_receiverVars

\* After a finite number of faults the agent hears pushes again, however the
\* receiver got stuck or gave up: it recovers, or its death is noticed and a
\* new one takes its place (_on_fcm_receiver_dead, and the comment on death
\* detection in fcm_client.py).
HearsAgain == []<>Hearing

\* What FcmPushClientConfig says of the monitor task, that it checks for stale
\* connections: one that went silent does not stay in use for ever.
StaleConnectionNoticed ==
  (life = "on" /\ conn = "silent") ~> (life # "on" \/ conn # "silent")
=============================================================================
