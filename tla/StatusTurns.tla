----------------------------- MODULE StatusTurns -----------------------------
(***************************************************************************)
(* The status line of a turn (status.StatusPublisher): begun at dispatch   *)
(* on the gateway's loop thread, claimed by a session's first tool call on *)
(* an engine thread, refreshed, and cleared at completion, with a grace    *)
(* window for the completion the gateway reports for a queued message.     *)
(*                                                                         *)
(* Each begun turn gets an entry, numbered in order.  A phrase's text is   *)
(* left out: what matters is whose line a room shows, and when.            *)
(***************************************************************************)
EXTENDS Naturals, FiniteSets

CONSTANTS
  Triggers,     \* trigger event ids
  Sessions,     \* Hermes session ids
  Rooms,
  RoomOf,       \* the room of each trigger
  HomeRoom,     \* the room each session really belongs to
  None,
  MaxEntries,   \* bound on turns begun
  MaxSpurious,  \* bound on completions reported for queued messages
  MaxResets     \* bound on disconnects and adapter rebuilds

Ids == 1 .. MaxEntries

\* A tool call on an engine thread: its session, its entry and its next step.
Calls == [session : Sessions, id : Ids, step : {"bind", "map", "publish"}]

ASSUME StatusAssumption ==
  /\ RoomOf \in [Triggers -> Rooms] /\ HomeRoom \in [Sessions -> Rooms]
  /\ None \notin Triggers \cup Sessions \cup Rooms
  /\ None \notin Calls
  /\ MaxEntries \in Nat /\ MaxSpurious \in Nat /\ MaxResets \in Nat

VARIABLES
  phase,        \* adapter: how far each trigger's turn got
  ensuring,     \* the ensure_turn under way on the loop thread, and its next step
  trigger,      \* the trigger of each entry begun
  ended, early, \* _Pending.ended, _Pending.completed_early
  inGrace,      \* is the entry younger than COMPLETION_GRACE_SECONDS?
  stale,        \* is it older than STALE_SECONDS?
  finalizing,   \* its finalize_task sleeps
  held,         \* a phrase the floor suppressed waits in queued_phrase
  pending,      \* _pending: trigger -> entry, 0 for none
  bound,        \* _bound: session -> entry, 0 for none
  session,      \* _trigger_session
  room,         \* _session_room
  engine,       \* the tool call that holds the lock on an engine thread
  queued,       \* entries with a publish task not yet on the wire
  wire,         \* entries with a publish on the wire
  clears,       \* entries with a clear on the wire
  shown,        \* server: whose line each room shows, 0 for none
  spurious, resets

entry  == <<trigger, ended, early, inGrace, stale, finalizing, held>>
dicts  == <<pending, bound, session, room>>
net    == <<queued, wire, clears, shown>>
bounds == <<spurious, resets>>
vars   == <<phase, ensuring, entry, dicts, engine, net, bounds>>

-----------------------------------------------------------------------------
Free   == engine = None                  \* nobody else holds _lock
Begun  == {i \in Ids : trigger[i] # None}
Live   == {i \in Begun : ~ended[i]}
Scope(i) == RoomOf[trigger[i]]

\* The loop thread is not in the middle of ensure_turn.
LoopIdle == ensuring = None

\* _halt: entries S end, and their tasks with them: refresh, finalize (tasks),
\* flush, and the publishes not yet on the wire.
Halt(S, tasks, cleared) ==
  /\ ended' = [i \in Ids |-> ended[i] \/ i \in S]
  /\ finalizing' = finalizing \ tasks /\ held' = held \ S
  /\ queued' = queued \ S
  /\ clears' = clears \cup cleared
  /\ UNCHANGED <<wire, shown>>

-----------------------------------------------------------------------------
(* Dispatch and completion, on the loop thread.                            *)

Finished(i) == early[i] /\ ~inGrace[i]
PendingIds  == {pending[t] : t \in Triggers} \ {0}
BoundIds    == {bound[s] : s \in Sessions} \ {0}

\* begin_turn: prune, park a new entry, publish "processing".
BeginTurn(t) ==
  LET i    == Cardinality(Begun) + 1
      gone == {j \in PendingIds : stale[j] \/ Finished(j)}
      lost == {j \in BoundIds : stale[j]}
  IN /\ Free /\ i \in Ids
     /\ trigger' = [trigger EXCEPT ![i] = t]
     /\ inGrace' = [inGrace EXCEPT ![i] = TRUE]
     /\ ended' = [j \in Ids |-> ended[j] \/ j \in gone \cup lost]
     /\ finalizing' = finalizing \ (gone \cup lost)
     /\ held' = held \ (gone \cup lost)
     /\ queued' = (queued \ (gone \cup lost)) \cup {i}
     /\ clears' = clears \cup {j \in gone : Finished(j)}
     /\ pending' = [u \in Triggers |-> IF u = t THEN i
                                       ELSE IF pending[u] \in gone THEN 0
                                       ELSE pending[u]]
     /\ bound' = [s \in Sessions |-> IF bound[s] \in lost THEN 0 ELSE bound[s]]
     /\ session' = [u \in Triggers |->
                      IF session[u] # None /\ bound[session[u]] \in lost
                      THEN None ELSE session[u]]
     /\ UNCHANGED <<early, stale, room, engine, wire, shown>>

\* A wake dispatches a turn.
Dispatch(t) ==
  /\ LoopIdle /\ phase[t] = "new"
  /\ phase' = [phase EXCEPT ![t] = "dispatched"]
  /\ BeginTurn(t)
  /\ UNCHANGED <<ensuring, bounds>>

\* on_processing_start calls ensure_turn; a wake path need not have dispatched.
\* It reads _pending, then _trigger_session and _bound, without the lock.
EnsureReadsPending(t) ==
  /\ LoopIdle /\ phase[t] \in {"new", "dispatched"}
  /\ \/ /\ pending[t] # 0
        /\ phase' = [phase EXCEPT ![t] = "started"] /\ UNCHANGED ensuring
     \/ /\ pending[t] = 0 /\ Cardinality(Begun) < MaxEntries
        /\ ensuring' = [trigger |-> t, step |-> "bound"] /\ UNCHANGED phase
  /\ UNCHANGED <<entry, dicts, engine, net, bounds>>

HasBoundTurn(t) == \E s \in Sessions : session[t] = s /\ bound[s] # 0

EnsureReadsBound ==
  /\ ensuring # None /\ ensuring.step = "bound"
  /\ \/ /\ HasBoundTurn(ensuring.trigger)
        /\ ensuring' = None
        /\ phase' = [phase EXCEPT ![ensuring.trigger] = "started"]
     \/ /\ ~HasBoundTurn(ensuring.trigger)
        /\ ensuring' = [ensuring EXCEPT !.step = "begin"] /\ UNCHANGED phase
  /\ UNCHANGED <<entry, dicts, engine, net, bounds>>

\* Only begin_turn waits for the lock.
EnsureBegins ==
  /\ ensuring # None /\ ensuring.step = "begin"
  /\ BeginTurn(ensuring.trigger)
  /\ ensuring' = None
  /\ phase' = [phase EXCEPT ![ensuring.trigger] = "started"]
  /\ UNCHANGED bounds

\* end_turn: a claimed turn ends; an unclaimed one ends too, unless it is so
\* young that the completion may be that of a queued message.
Unlocked == TRUE
EndTurnLock == Free

EndTurn(t) ==
  /\ EndTurnLock
  /\ \/ /\ session[t] # None
        /\ LET done == {bound[session[t]]} \ {0} IN Halt(done, done, done)
        /\ bound' = [bound EXCEPT ![session[t]] = 0]
        /\ session' = [session EXCEPT ![t] = None]
        /\ UNCHANGED <<early, pending>>
     \/ /\ session[t] = None /\ pending[t] # 0 /\ inGrace[pending[t]]
        /\ early' = [early EXCEPT ![pending[t]] = TRUE]
        /\ finalizing' = finalizing \cup {pending[t]}
        /\ UNCHANGED <<ended, held, pending, bound, session, net>>
     \/ /\ session[t] = None /\ pending[t] # 0 /\ ~inGrace[pending[t]]
        /\ Halt({pending[t]}, {pending[t]}, {pending[t]})
        /\ pending' = [pending EXCEPT ![t] = 0]
        /\ UNCHANGED <<early, bound, session>>
     \/ /\ session[t] = None /\ pending[t] = 0
        /\ UNCHANGED <<ended, early, finalizing, held, pending, bound, session, net>>
  /\ UNCHANGED <<ensuring, trigger, inGrace, stale, room, engine, resets>>

\* on_processing_complete for a turn that ran ...
Complete(t) ==
  /\ LoopIdle /\ phase[t] = "started"
  /\ phase' = [phase EXCEPT ![t] = "completed"]
  /\ EndTurn(t) /\ UNCHANGED spurious

\* ... and the one the gateway reports for a message it only queued.
CompleteQueued(t) ==
  /\ LoopIdle /\ phase[t] = "dispatched" /\ spurious < MaxSpurious
  /\ spurious' = spurious + 1
  /\ EndTurn(t) /\ UNCHANGED phase

\* _finalize_after_grace: the window closed and nobody claimed the turn.
EarlyIds == {i \in Begun : early[i]}

Finalize(i) ==
  LET t == trigger[i]
      j == pending[t]
  IN /\ LoopIdle /\ Free
     /\ i \in finalizing /\ ~inGrace[i]
     /\ \/ /\ j \in EarlyIds
           /\ Halt({j}, {i}, {j})   \* j's own task, forgotten, is not cancelled
           /\ pending' = [pending EXCEPT ![t] = 0]
        \/ /\ j \notin EarlyIds
           /\ finalizing' = finalizing \ {i}
           /\ UNCHANGED <<ended, held, net, pending>>
     /\ UNCHANGED <<phase, ensuring, trigger, early, inGrace, stale, bound,
                    session, room, engine, bounds>>

\* reset, on disconnect or when a rebuilt adapter brings another API.
HaltForgotten == {}
HaltAtReset == PendingIds \cup BoundIds

Reset ==
  /\ LoopIdle /\ Free /\ resets < MaxResets /\ resets' = resets + 1
  /\ Halt(HaltAtReset, HaltAtReset, {})
  /\ pending' = [t \in Triggers |-> 0] /\ bound' = [s \in Sessions |-> 0]
  /\ session' = [t \in Triggers |-> None] /\ room' = [s \in Sessions |-> None]
  /\ UNCHANGED <<phase, ensuring, trigger, early, inGrace, stale, engine, spurious>>

-----------------------------------------------------------------------------
(* Tool calls, on an engine thread, which holds the lock from the lookup   *)
(* to the publish.                                                         *)

Claimable(i) == ~early[i] \/ inGrace[i]

\* The pending turn _claim_locked gives a session, if any: the oldest of its
\* known room, or the only one there is.
Candidates(s) == {i \in PendingIds : Claimable(i)}

ClaimTheOldest(s) ==
  {i \in Candidates(s) : \A j \in Candidates(s) : i <= j}

ClaimFor(s) ==
  LET open == Candidates(s)
      mine == {i \in open : Scope(i) = room[s]}
  IN IF room[s] # None THEN {i \in mine : \A j \in mine : i <= j}
     ELSE IF Cardinality(open) = 1 THEN open ELSE {}

\* A session calls tools while a turn of its room runs.
ToolCall(s) ==
  /\ Free
  /\ \E t \in Triggers : phase[t] = "started" /\ RoomOf[t] = HomeRoom[s]
  /\ \/ /\ bound[s] # 0 /\ ~ended[bound[s]]
        /\ engine' = [session |-> s, id |-> bound[s], step |-> "publish"]
        /\ UNCHANGED pending
     \/ \E i \in ClaimFor(s) :
          /\ bound[s] = 0
          /\ engine' = [session |-> s, id |-> i, step |-> "bind"]
          /\ pending' = [pending EXCEPT ![trigger[i]] = 0]
  /\ UNCHANGED <<phase, ensuring, entry, bound, session, room, net, bounds>>

\* The rest of _claim_locked, statement by statement: the loop thread reads
\* these dicts without the lock.
BindClaim ==
  /\ engine # None /\ engine.step = "bind"
  /\ engine' = [engine EXCEPT !.step = "map"]
  /\ early' = [early EXCEPT ![engine.id] = FALSE]
  /\ bound' = [bound EXCEPT ![engine.session] = engine.id]
  /\ UNCHANGED <<phase, ensuring, trigger, ended, inGrace, stale, finalizing,
                 held, pending, session, room, net, bounds>>

RoomAtClaim(i) == Scope(i)

MapClaim ==
  /\ engine # None /\ engine.step = "map"
  /\ engine' = [engine EXCEPT !.step = "publish"]
  /\ session' = [session EXCEPT ![trigger[engine.id]] = engine.session]
  /\ room' = [room EXCEPT ![engine.session] = RoomAtClaim(engine.id)]
  /\ UNCHANGED <<phase, ensuring, entry, pending, bound, net, bounds>>

\* The phrase is published, or held until the floor expires, or is no news.
PublishCall ==
  /\ engine # None /\ engine.step = "publish"
  /\ engine' = None
  /\ \/ queued' = queued \cup {engine.id} /\ held' = held \ {engine.id}
     \/ held' = held \cup {engine.id} /\ UNCHANGED queued
     \/ UNCHANGED <<held, queued>>
  /\ UNCHANGED <<phase, ensuring, trigger, ended, early, inGrace, stale,
                 finalizing, dicts, wire, clears, shown, bounds>>

-----------------------------------------------------------------------------
(* Tasks of the loop, time, and the server.                                *)

\* _flush_after_floor and _refresh publish again for a turn not ended.
Flush(i) ==
  /\ LoopIdle /\ Free /\ i \in held
  /\ held' = held \ {i} /\ queued' = IF ended[i] THEN queued ELSE queued \cup {i}
  /\ UNCHANGED <<phase, ensuring, trigger, ended, early, inGrace, stale,
                 finalizing, dicts, engine, wire, clears, shown, bounds>>

RefreshesUntilCleared(i) == ~ended[i]
Refreshes(i) == ~ended[i] /\ ~stale[i]
Refresh(i) ==
  /\ LoopIdle /\ Free /\ i \in Begun /\ Refreshes(i)
  /\ queued' = queued \cup {i}
  /\ UNCHANGED <<phase, ensuring, entry, dicts, engine, wire, clears, shown,
                 bounds>>

Send(i) ==
  /\ LoopIdle /\ i \in queued
  /\ queued' = queued \ {i} /\ wire' = wire \cup {i}
  /\ UNCHANGED <<phase, ensuring, entry, dicts, engine, clears, shown, bounds>>

\* The server takes the requests on the wire in any order.
ShowLands(i) ==
  /\ i \in wire /\ wire' = wire \ {i}
  /\ shown' \in {shown, [shown EXCEPT ![Scope(i)] = i]}
  /\ UNCHANGED <<phase, ensuring, entry, dicts, engine, queued, clears, bounds>>

ClearLands(i) ==
  /\ i \in clears /\ clears' = clears \ {i}
  /\ shown' \in {shown, [shown EXCEPT ![Scope(i)] = 0]}
  /\ UNCHANGED <<phase, ensuring, entry, dicts, engine, queued, wire, bounds>>

\* A line not refreshed within TIMEOUT_MS disappears.
TimesOut(r) ==
  /\ shown[r] # 0 /\ shown[r] \notin queued \cup wire /\ ~Refreshes(shown[r])
  /\ shown' = [shown EXCEPT ![r] = 0]
  /\ UNCHANGED <<phase, ensuring, entry, dicts, engine, queued, wire, clears,
                 bounds>>

Ages(i) ==
  /\ i \in Begun
  /\ \/ inGrace[i] /\ inGrace' = [inGrace EXCEPT ![i] = FALSE] /\ UNCHANGED stale
     \/ /\ ~inGrace[i] /\ ~stale[i]
        /\ stale' = [stale EXCEPT ![i] = TRUE] /\ UNCHANGED inGrace
  /\ UNCHANGED <<phase, ensuring, trigger, ended, early, finalizing, held, dicts,
                 engine, net, bounds>>

-----------------------------------------------------------------------------
Init ==
  /\ phase = [t \in Triggers |-> "new"] /\ ensuring = None
  /\ trigger = [i \in Ids |-> None]
  /\ ended = [i \in Ids |-> FALSE] /\ early = [i \in Ids |-> FALSE]
  /\ inGrace = [i \in Ids |-> FALSE] /\ stale = [i \in Ids |-> FALSE]
  /\ finalizing = {} /\ held = {}
  /\ pending = [t \in Triggers |-> 0] /\ bound = [s \in Sessions |-> 0]
  /\ session = [t \in Triggers |-> None] /\ room = [s \in Sessions |-> None]
  /\ engine = None
  /\ queued = {} /\ wire = {} /\ clears = {} /\ shown = [r \in Rooms |-> 0]
  /\ spurious = 0 /\ resets = 0

TurnStep == \E t \in Triggers :
  Dispatch(t) \/ EnsureReadsPending(t) \/ Complete(t) \/ CompleteQueued(t)
ToolStep == (\E s \in Sessions : ToolCall(s)) \/ BindClaim \/ MapClaim \/ PublishCall
TaskStep == \E i \in Ids : Flush(i) \/ Refresh(i) \/ Finalize(i)
NetStep  == (\E i \in Ids : Send(i) \/ ShowLands(i) \/ ClearLands(i))
              \/ \E r \in Rooms : TimesOut(r)

Next ==
  \/ TurnStep \/ EnsureReadsBound \/ EnsureBegins \/ Reset \/ ToolStep \/ TaskStep \/ NetStep
  \/ \E i \in Ids : Ages(i)

Spec == Init /\ [][Next]_vars

\* Threads run, tasks are scheduled, requests are answered, time passes; turns
\* and tool calls need not happen.
Fairness ==
  /\ WF_vars(EnsureReadsBound) /\ SF_vars(EnsureBegins)
  /\ WF_vars(BindClaim \/ MapClaim \/ PublishCall)
  /\ \A i \in Ids :
       /\ SF_vars(Flush(i)) /\ SF_vars(Finalize(i)) /\ WF_vars(Ages(i))
       /\ SF_vars(Send(i)) /\ WF_vars(ShowLands(i)) /\ WF_vars(ClearLands(i))
  /\ \A r \in Rooms : SF_vars(TimesOut(r))

FairSpec == Spec /\ Fairness

-----------------------------------------------------------------------------
(* Properties.                                                             *)

\* Every variable stays in its type, and the dicts name entries begun.
TypeOK ==
  /\ phase \in [Triggers -> {"new", "dispatched", "started", "completed"}]
  /\ ensuring = None \/ ensuring \in [trigger : Triggers, step : {"bound", "begin"}]
  /\ trigger \in [Ids -> Triggers \cup {None}]
  /\ ended \in [Ids -> BOOLEAN] /\ early \in [Ids -> BOOLEAN]
  /\ inGrace \in [Ids -> BOOLEAN] /\ stale \in [Ids -> BOOLEAN]
  /\ finalizing \in SUBSET Begun /\ held \in SUBSET Begun
  /\ pending \in [Triggers -> Begun \cup {0}]
  /\ bound \in [Sessions -> Begun \cup {0}]
  /\ session \in [Triggers -> Sessions \cup {None}]
  /\ room \in [Sessions -> Rooms \cup {None}]
  /\ engine = None \/ engine \in [session : Sessions, id : Begun,
                                  step : {"bind", "map", "publish"}]
  /\ queued \in SUBSET Begun /\ wire \in SUBSET Begun /\ clears \in SUBSET Begun
  /\ shown \in [Rooms -> Begun \cup {0}]
  /\ spurious \in 0 .. MaxSpurious /\ resets \in 0 .. MaxResets

\* A turn whose line may still be refreshed can be found: it is pending, bound
\* or being claimed, so that its completion, a prune or a reset ends it (the
\* docstrings of reset and end_turn: a stale entry publishes forever).
NoOrphanLine ==
  \A i \in Live :
    i \in PendingIds \cup BoundIds \/ (engine # None /\ engine.id = i)

\* The first claim of a session fixes the room of its later ones: until a reset
\* a session narrates one room (the comment on _session_room).
SessionKeepsRoom ==
  [][\A s \in Sessions : room[s] # None => room'[s] \in {room[s], None}]_vars

\* Nothing is published for a turn after it ended: a tool call cannot publish
\* into the gap between the end of a turn and its clear (on_tool_call, _halt).
NoPublishAfterEnd ==
  [][\A i \in Ids : i \in queued' \ queued => ~ended[i]]_vars

\* Once tool calls stop, whatever happened to the turns (a completion that never
\* came, a lost clear), every room goes dark and stays so: STALE_SECONDS ends the
\* refreshes, and TIMEOUT_MS the line.
EventuallyDark == <>[](engine = None) => <>[](\A r \in Rooms : shown[r] = 0)

\* What the ensure_turn docstring says: a turn already pending or bound keeps
\* its line, so that a trigger never has two live lines.
OneLinePerTurn ==
  \A i, j \in Live : trigger[i] = trigger[j] => i = j

\* What the _claim docstring says: a session never claims a turn of the wrong
\* room.
NeverTheWrongRoom ==
  \A s \in Sessions : bound[s] # 0 => Scope(bound[s]) = HomeRoom[s]
=============================================================================
