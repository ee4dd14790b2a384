------------------------------ MODULE PollWork ------------------------------
(***************************************************************************)
(* Inbound work by long poll (poll_transport.PollLoop and its place in the *)
(* adapter): one poll_work loop per gateway process, the cursor that       *)
(* acknowledges deliveries, drains of the gateway, the cursor a draining   *)
(* gateway saves for the next one (saving and dropping it may fail), lost  *)
(* answers, stops and crashes.                                             *)
(*                                                                         *)
(* Work items are numbered in the order they arrive at the server; a       *)
(* cursor is the number of the last item a delivery covered.               *)
(***************************************************************************)
EXTENDS Naturals, FiniteSets

CONSTANTS
  NItems,       \* work items that arrive in this history
  NoCursor,     \* the loop, or the disk, holds no cursor
  MaxFaults,    \* bound on failed polls
  MaxDrains,    \* bound on drains of a gateway
  MaxCrashes,   \* bound on crashes of a gateway
  MaxBadWrites  \* bound on failed saves and drops of the cursor's file

Items   == 1 .. NItems
Cursors == 0 .. NItems \cup {NoCursor}

ASSUME PollAssumption ==
  /\ NItems \in Nat /\ MaxFaults \in Nat /\ MaxDrains \in Nat /\ MaxCrashes \in Nat
  /\ MaxBadWrites \in Nat
  /\ NoCursor \notin Nat

VARIABLES
  arrived,      \* server: items that arrived so far
  handed,       \* server: its saved position, the last item handed over
  finished,     \* server: items a reply or a cursor finished
  saved,        \* disk: poll_cursor.json; absent and torn read alike
  stale,        \* the file still holds a cursor that was to be dropped
  up,           \* does a gateway process run?
  admitting,    \* _gateway_admitting: the gateway starts turns
  pc,           \* the loop: "off", "idle", or its poll is "sent", "held", "answered"
  first,        \* the loop has not polled yet (polls = 0)
  cursor,       \* PollLoop.cursor
  toDrop,       \* PollLoop._saved_cursor
  work,         \* the work of the answer on its way to the loop
  answerCursor, \* and its cursor
  scheduled,    \* items dispatched whose turn was not started yet
  running,      \* items whose turn runs
  deliveries,   \* how often each item was dispatched
  forsaken,     \* items handed over, not dispatched, and behind no cursor
  forgotten,    \* items dispatched when a loop started from a stale cursor
  faults, drains, crashes, badWrites

server == <<arrived, handed, finished>>
disk   == <<saved, stale>>
loop   == <<pc, first, cursor, toDrop, work, answerCursor>>
turns  == <<scheduled, running>>
ghosts == <<deliveries, forsaken, forgotten>>
bounds == <<faults, drains, crashes, badWrites>>
vars   == <<server, disk, up, admitting, loop, turns, ghosts, bounds>>

-----------------------------------------------------------------------------
(* The server's contract, as poll_transport.py states it.                  *)

\* The items a poll finishes: those its cursor covers or, if it passes none,
\* those the server handed over so far.
Acknowledged(c) == 1 .. (IF c = NoCursor THEN handed ELSE c)

\* Unfinished work, delivered before or not.
Unfinished(done) == (1 .. arrived) \ done

\* The answer to a poll hands over all unfinished work.
AnswerWith(done) ==
  /\ pc' = "answered"
  /\ work' = Unfinished(done) /\ answerCursor' = arrived
  /\ handed' = arrived

\* A poll reaches the server.  A loop's first poll without a cursor asks not
\* to wait, so its answer is made at once.
PollArrives ==
  /\ pc = "sent"
  /\ finished' = finished \cup Acknowledged(cursor)
  /\ IF first /\ cursor = NoCursor
     THEN AnswerWith(finished')
     ELSE pc' = "held" /\ UNCHANGED <<work, answerCursor, handed>>
  /\ UNCHANGED <<arrived, disk, up, admitting, first, cursor, toDrop, turns,
                 ghosts, bounds>>

\* The server answers a held poll, when there is work or the wait is over.
PollAnswers ==
  /\ pc = "held" /\ AnswerWith(finished)
  /\ UNCHANGED <<arrived, finished, disk, up, admitting, first, cursor, toDrop,
                 turns, ghosts, bounds>>

WorkArrives ==
  /\ arrived < NItems /\ arrived' = arrived + 1
  /\ UNCHANGED <<handed, finished, disk, up, admitting, loop, turns, ghosts,
                 bounds>>

-----------------------------------------------------------------------------
(* The loop.                                                               *)

\* Once the answer of the poll in flight is lost, the next poll passes next.
\* Handed over but undispatched items are out of reach when that is no cursor.
\* (A poll cut off while held may have been answered at that moment.)
Forsaking(next) ==
  /\ handed' \in IF pc = "held" THEN {handed, arrived} ELSE {handed}
  /\ forsaken' = IF next = NoCursor
                 THEN forsaken \cup {i \in 1 .. handed' : deliveries[i] = 0}
                 ELSE forsaken

\* poll_once sends a poll; while the gateway drains it sends none.
SendPoll ==
  /\ up /\ pc = "idle" /\ admitting
  /\ pc' = "sent"
  /\ UNCHANGED <<server, disk, up, admitting, first, cursor, toDrop, work,
                 answerCursor, turns, ghosts, bounds>>

\* A poll fails, or its answer is lost; the loop backs off and will pass the
\* same cursor.
PollFails ==
  /\ pc \in {"sent", "held", "answered"} /\ faults < MaxFaults
  /\ faults' = faults + 1
  /\ pc' = "idle" /\ first' = FALSE
  /\ work' = {} /\ answerCursor' = 0
  /\ Forsaking(cursor)
  /\ UNCHANGED <<arrived, finished, disk, up, admitting, cursor, toDrop, turns,
                 deliveries, forgotten, drains, crashes, badWrites>>

\* Saving the cursor c: the file holds it, or the write fails (_write_json and
\* _keep swallow that) before the file was opened or after that truncated it.
Save(c) ==
  \/ saved' = c /\ stale' = FALSE /\ UNCHANGED badWrites
  \/ /\ badWrites < MaxBadWrites /\ badWrites' = badWrites + 1
     /\ saved' \in {saved, NoCursor} /\ stale' = (stale /\ saved' # NoCursor)

\* The cursor to go back to, and the one saved, when a drain catches an answer.
LeaveAdvancing ==
  cursor' = answerCursor /\ saved' = answerCursor /\ stale' = FALSE /\ UNCHANGED badWrites
Leave ==
  /\ UNCHANGED cursor
  /\ IF cursor = NoCursor THEN UNCHANGED <<disk, badWrites>> ELSE Save(cursor)

\* A poll was held when the drain began and comes back with work: _leave hands
\* none of it over and saves the cursor the poll passed.
ReceiveDraining ==
  /\ pc = "answered" /\ work # {} /\ ~admitting
  /\ Leave /\ toDrop' = cursor
  /\ Forsaking(cursor)
  /\ pc' = "idle" /\ first' = FALSE
  /\ work' = {} /\ answerCursor' = 0
  /\ UNCHANGED <<arrived, finished, up, admitting, turns, deliveries, forgotten,
                 faults, drains, crashes>>

\* A poll that used a saved cursor drops it; if the file cannot be removed
\* (clear_poll_cursor swallows that), the cursor stays on disk.
KeepSaved == UNCHANGED <<disk, toDrop, badWrites>>
DropSaved ==
  /\ toDrop' = NoCursor
  /\ \/ toDrop = NoCursor /\ UNCHANGED <<disk, badWrites>>
     \/ toDrop # NoCursor /\ saved' = NoCursor /\ stale' = FALSE /\ UNCHANGED badWrites
     \/ /\ toDrop # NoCursor /\ badWrites < MaxBadWrites
        /\ badWrites' = badWrites + 1
        /\ UNCHANGED saved /\ stale' = (saved # NoCursor)

\* Any other good answer: advance the cursor and dispatch every item, each to
\* a task of its own.
Receive ==
  /\ pc = "answered" /\ (work = {} \/ admitting)
  /\ cursor' = answerCursor
  /\ DropSaved
  /\ scheduled' = scheduled \cup work
  /\ deliveries' = [i \in Items |->
                      IF i \in work THEN (IF deliveries[i] = 0 THEN 1 ELSE 2)
                      ELSE deliveries[i]]
  /\ pc' = "idle" /\ first' = FALSE
  /\ work' = {} /\ answerCursor' = 0
  /\ UNCHANGED <<server, up, admitting, running, forsaken, forgotten, faults, drains,
                 crashes>>

\* The server refuses a poll for good (PollFatal): the loop ends, and the
\* reconnect starts another.
PollRefused ==
  /\ pc = "sent" /\ faults < MaxFaults
  /\ faults' = faults + 1
  /\ pc' = "off" /\ cursor' = NoCursor /\ toDrop' = NoCursor
  /\ Forsaking(saved)
  /\ UNCHANGED <<arrived, finished, disk, up, admitting, first, work,
                 answerCursor, turns, deliveries, forgotten, drains, crashes, badWrites>>

-----------------------------------------------------------------------------
(* Turns and the gateway process.                                          *)

\* A scheduled item's turn starts, or the draining gateway refuses it.
StartTurn(i) ==
  /\ i \in scheduled
  /\ scheduled' = scheduled \ {i}
  /\ running' = IF admitting THEN running \cup {i} ELSE running
  /\ UNCHANGED <<server, disk, up, admitting, loop, ghosts, bounds>>

\* A turn ends, with a reply that finishes its item or without one.
EndTurn(i) ==
  /\ i \in running /\ running' = running \ {i}
  /\ finished' \in {finished, finished \cup {i}}
  /\ UNCHANGED <<arrived, handed, disk, up, admitting, loop, scheduled, ghosts,
                 bounds>>

\* The gateway drains before it stops or restarts, or takes turns again.
Drain ==
  /\ up /\ admitting /\ drains < MaxDrains
  /\ admitting' = FALSE /\ drains' = drains + 1
  /\ UNCHANGED <<server, disk, up, loop, turns, ghosts, faults, crashes, badWrites>>

Resume ==
  /\ up /\ ~admitting /\ admitting' = TRUE
  /\ UNCHANGED <<server, disk, up, loop, turns, ghosts, bounds>>

\* The process ends, and with it the poll in flight, the loop's cursor and the
\* turns; the next gateway starts from the cursor on disk.
ProcessEnds ==
  /\ up' = FALSE /\ admitting' = FALSE
  /\ cursor' = NoCursor /\ toDrop' = NoCursor
  /\ first' = TRUE /\ work' = {} /\ answerCursor' = 0
  /\ scheduled' = {} /\ running' = {}
  /\ Forsaking(saved)
  /\ UNCHANGED <<arrived, finished, disk, deliveries, forgotten>>

\* disconnect cancels the poll task, a poll it holds included.
CancelPoll == pc' = "off"

\* A drained gateway disconnects once its active turns are done.
Stop ==
  /\ up /\ ~admitting /\ running = {}
  /\ CancelPoll /\ ProcessEnds /\ UNCHANGED bounds

Crash ==
  /\ up /\ crashes < MaxCrashes
  /\ crashes' = crashes + 1
  /\ pc' = "off" /\ ProcessEnds /\ UNCHANGED <<faults, drains, badWrites>>

\* Work that was dispatched and is not finished: a poll from before it hands it
\* over again.
Repeated == {i \in 1 .. handed : deliveries[i] > 0 /\ i \notin finished}

\* A gateway connects, or reconnects: _run_poll_loop loads the saved cursor.
StartLoop ==
  /\ pc = "off"
  /\ pc' = "idle" /\ first' = TRUE
  /\ cursor' = saved /\ toDrop' = saved
  /\ forgotten' = IF stale THEN forgotten \cup Repeated ELSE forgotten
  /\ stale' = FALSE
  /\ up' = TRUE /\ admitting' = (IF up THEN admitting ELSE TRUE)
  /\ UNCHANGED <<server, saved, work, answerCursor, turns, deliveries, forsaken, bounds>>

-----------------------------------------------------------------------------
Init ==
  /\ arrived = 0 /\ handed = 0 /\ finished = {}
  /\ saved = NoCursor /\ stale = FALSE /\ up = FALSE /\ admitting = FALSE
  /\ pc = "off" /\ first = TRUE /\ cursor = NoCursor /\ toDrop = NoCursor
  /\ work = {} /\ answerCursor = 0
  /\ scheduled = {} /\ running = {}
  /\ deliveries = [i \in Items |-> 0] /\ forsaken = {} /\ forgotten = {}
  /\ faults = 0 /\ drains = 0 /\ crashes = 0 /\ badWrites = 0

Poll == SendPoll \/ PollArrives \/ PollAnswers \/ ReceiveDraining \/ Receive

Next ==
  \/ Poll \/ PollFails \/ PollRefused \/ WorkArrives
  \/ \E i \in Items : StartTurn(i) \/ EndTurn(i)
  \/ Drain \/ Resume \/ Stop \/ Crash \/ StartLoop

Spec == Init /\ [][Next]_vars

\* The loop runs, the server answers, turns run and end, a drain ends in a
\* stop or a resume, and a stopped gateway is started again.
Fairness ==
  /\ WF_vars(Poll) /\ WF_vars(StartLoop) /\ WF_vars(Resume \/ Stop)
  /\ \A i \in Items : WF_vars(StartTurn(i)) /\ WF_vars(EndTurn(i))

FairSpec == Spec /\ Fairness

-----------------------------------------------------------------------------
(* Properties.                                                             *)

\* Every variable stays in its type; a poll is in flight only while up.
TypeOK ==
  /\ arrived \in 0 .. NItems /\ handed \in 0 .. arrived
  /\ finished \in SUBSET (1 .. arrived)
  /\ saved \in Cursors /\ cursor \in Cursors /\ toDrop \in Cursors
  /\ stale \in BOOLEAN /\ (stale => saved # NoCursor)
  /\ up \in BOOLEAN /\ admitting \in BOOLEAN /\ first \in BOOLEAN
  /\ pc \in {"off", "idle", "sent", "held", "answered"}
  /\ pc # "off" => up
  /\ work \in SUBSET (1 .. handed) /\ answerCursor \in 0 .. handed
  /\ scheduled \in SUBSET Items /\ running \in SUBSET Items
  /\ deliveries \in [Items -> 0 .. 2]
  /\ forsaken \in SUBSET Items /\ forgotten \in SUBSET Items
  /\ faults \in 0 .. MaxFaults /\ drains \in 0 .. MaxDrains
  /\ crashes \in 0 .. MaxCrashes /\ badWrites \in 0 .. MaxBadWrites

\* The promise, of this module's items and history.
Delivery == INSTANCE InboundDelivery
  WITH Items <- Items, deliveries <- deliveries, forsaken <- forsaken,
       forgotten <- forgotten, finished <- finished

\* The loop implements InboundDelivery: across drains, restarts, failed polls,
\* crashes and failed saves no item is dispatched after it was finished, none is
\* dispatched twice unless a loop started from a cursor whose drop had failed
\* when the item was out, and none is finished undispatched unless the loop had
\* no cursor when its answer was lost, left or cut off (the contract in the
\* module docstring of poll_transport.py, the PollLoop docstring, and "an old
\* cursor would hand back work long since run" in clear_poll_cursor).
ImplementsDelivery == Delivery!Spec

\* A saved cursor brings back work that was left, and none that ran: behind it
\* everything was dispatched, finished or forsaken, and beyond it whatever was
\* dispatched is not handed over again by the poll that uses it, unless the
\* file is one that could not be removed (then, or before this gateway).
SavedCursorIsExact ==
  pc = "off" /\ saved # NoCursor =>
    \A i \in 1 .. handed :
      IF i <= saved THEN deliveries[i] > 0 \/ i \in forsaken
      ELSE deliveries[i] = 0 \/ i \in finished \/ i \in forgotten \/ stale

\* Every item that arrives is dispatched, unless it is forsaken: a drain, a
\* restart or a run of failures only delays it.
EventuallyDispatched ==
  \A i \in Items : (arrived >= i) ~> (deliveries[i] > 0 \/ i \in forsaken)

\* What the comment in _back_off says: after a failed poll the retry passes
\* the same cursor, so that nothing is lost; what is finished was dispatched.
RetryLosesNothing == \A i \in finished : deliveries[i] > 0
=============================================================================
