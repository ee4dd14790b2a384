-------------------------- MODULE StatusTurnsProofs --------------------------
(***************************************************************************)
(* Proofs about StatusTurns for every number of triggers, sessions, rooms  *)
(* and entries: a live line can always be found and ended, and nothing is  *)
(* published for a turn after its end.                                     *)
(***************************************************************************)
EXTENDS StatusTurns, FiniteSetTheorems, TLAPS

\* Entries are numbered in the order they were begun, and only these end.
Numbered ==
  /\ \E n \in 0 .. MaxEntries : Begun = 1 .. n
  /\ \A i \in Ids : ended[i] => i \in Begun

\* A pending entry is its trigger's, has not ended and is bound to no session.
PendingOwn ==
  \A t \in Triggers :
    pending[t] # 0 => /\ trigger[pending[t]] = t /\ ~ended[pending[t]]
                      /\ \A s \in Sessions : bound[s] # pending[t]

\* No entry waits for a trigger whose turn was not begun, nor for the one that
\* ensure_turn is about to begin: beginning it overwrites no entry.
NothingOverwritten ==
  /\ \A t \in Triggers : phase[t] = "new" => pending[t] = 0
  /\ ensuring # None => pending[ensuring.trigger] = 0

\* A tool call holds the lock over an entry that has not ended: taken from the
\* pending ones for a session that has none, or bound to its session.
CallHolds ==
  engine # None =>
    /\ ~ended[engine.id]
    /\ engine.step = "bind" => /\ bound[engine.session] = 0
                               /\ \A t \in Triggers : pending[t] # engine.id
    /\ engine.step # "bind" => bound[engine.session] = engine.id

\* The inductive invariant.
IInv == TypeOK /\ Numbered /\ PendingOwn /\ NothingOverwritten /\ CallHolds /\ NoOrphanLine

-----------------------------------------------------------------------------
(* The entries begun.                                                      *)

\* The next entry is a new one, and after it the entries are still numbered.
LEMMA NextEntry ==
  ASSUME Numbered
  PROVE  /\ Begun \subseteq Ids /\ 0 \notin Begun /\ None \notin Triggers
         /\ Cardinality(Begun) + 1 \in Nat \ {0}
         /\ Cardinality(Begun) + 1 \notin Begun
         /\ Cardinality(Begun) + 1 \in Ids =>
              \E n \in 0 .. MaxEntries :
                Begun \cup {Cardinality(Begun) + 1} = 1 .. n
<1>1. PICK n \in 0 .. MaxEntries : Begun = 1 .. n
  BY DEF Numbered
<1>2. n \in Nat /\ MaxEntries \in Nat
  BY StatusAssumption
<1>3. Cardinality(Begun) = n
  BY <1>1, <1>2, FS_Interval
<1>4. 0 \notin Begun /\ n + 1 \notin Begun /\ Begun \subseteq Ids
  BY <1>1, <1>2 DEF Ids
<1>5. n + 1 \in Ids => n + 1 \in 0 .. MaxEntries /\ Begun \cup {n + 1} = 1 .. (n + 1)
  BY <1>1, <1>2 DEF Ids
<1>6. QED
  BY <1>2, <1>3, <1>4, <1>5, StatusAssumption

\* What beginning a turn does to the entries.
LEMMA BeginEntry ==
  ASSUME TypeOK, Numbered, NEW t \in Triggers, BeginTurn(t)
  PROVE  LET i == Cardinality(Begun) + 1
         IN  /\ i \in Ids /\ i \notin Begun /\ i # 0 /\ engine = None
             /\ Begun' = Begun \cup {i}
             /\ trigger' = [trigger EXCEPT ![i] = t]
             /\ pending'[t] = i /\ ~ended'[i]
<1> DEFINE i == Cardinality(Begun) + 1
<1>1. /\ i \in Ids /\ i \notin Begun /\ i # 0 /\ engine = None
      /\ trigger' = [trigger EXCEPT ![i] = t]
      /\ pending'[t] = i
  BY NextEntry DEF BeginTurn, Free
<1>2. Begun' = Begun \cup {i}
  BY <1>1, NextEntry DEF Begun, TypeOK
<1>3. ~ended[i] /\ i \notin PendingIds /\ i \notin BoundIds
  BY <1>1 DEF Numbered, TypeOK, PendingIds, BoundIds
<1>4. ~ended'[i]
  BY <1>1, <1>3 DEF BeginTurn
<1>5. QED
  BY <1>1, <1>2, <1>4

-----------------------------------------------------------------------------
(* Types.                                                                  *)

\* Entries that end are among those begun, and so are their tasks and clears.
LEMMA HaltTypes ==
  ASSUME TypeOK, NEW S \in SUBSET Begun, NEW tasks, NEW cleared \in SUBSET Begun,
         Halt(S, tasks, cleared), UNCHANGED trigger
  PROVE  /\ ended' \in [Ids -> BOOLEAN] /\ finalizing' \in SUBSET Begun /\ held' \in SUBSET Begun
         /\ queued' \in SUBSET Begun /\ wire' \in SUBSET Begun /\ clears' \in SUBSET Begun
         /\ shown' \in [Rooms -> Begun \cup {0}]
  BY DEF Halt, TypeOK

\* Beginning a turn keeps the types.
LEMMA BeginTypes ==
  ASSUME TypeOK, Numbered, NEW t \in Triggers, BeginTurn(t), UNCHANGED bounds,
         phase' \in [Triggers -> {"new", "dispatched", "started", "completed"}],
         ensuring' = None
  PROVE  TypeOK'
<1> DEFINE i == Cardinality(Begun) + 1
           B == Begun'
<1>1. i \in Ids /\ B = Begun \cup {i} /\ engine = None /\ i \in B /\ Begun \subseteq B
  BY BeginEntry
<1>2. /\ trigger' \in [Ids -> Triggers \cup {None}] /\ inGrace' \in [Ids -> BOOLEAN]
      /\ ended' \in [Ids -> BOOLEAN] /\ early' \in [Ids -> BOOLEAN] /\ stale' \in [Ids -> BOOLEAN]
  BY <1>1 DEF BeginTurn, TypeOK
<1>3. finalizing' \in SUBSET B /\ held' \in SUBSET B /\ queued' \in SUBSET B /\ wire' \in SUBSET B
  BY <1>1 DEF BeginTurn, TypeOK
<1>4. clears' \in SUBSET B
  BY <1>1 DEF BeginTurn, TypeOK, PendingIds
<1>5. /\ pending' \in [Triggers -> B \cup {0}] /\ bound' \in [Sessions -> B \cup {0}]
      /\ session' \in [Triggers -> Sessions \cup {None}]
  BY <1>1 DEF BeginTurn, TypeOK
<1>6. room' \in [Sessions -> Rooms \cup {None}] /\ engine' = None /\ shown' \in [Rooms -> B \cup {0}]
  BY <1>1 DEF BeginTurn, TypeOK
<1>7. spurious' \in 0 .. MaxSpurious /\ resets' \in 0 .. MaxResets
  BY DEF bounds, TypeOK
<1>8. QED
  BY <1>2, <1>3, <1>4, <1>5, <1>6, <1>7 DEF TypeOK

\* A completion keeps the types.
LEMMA EndTypes ==
  ASSUME TypeOK, Numbered, NEW t \in Triggers, EndTurn(t),
         phase' \in [Triggers -> {"new", "dispatched", "started", "completed"}],
         spurious' \in 0 .. MaxSpurious
  PROVE  TypeOK'
<1>1. UNCHANGED <<ensuring, trigger, inGrace, stale, room, engine, resets>> /\ Begun' = Begun
  BY DEF EndTurn, Begun
<1>2. CASE session[t] # None
  <2>1. session[t] \in Sessions
    BY <1>2 DEF TypeOK
  <2>2. /\ {bound[session[t]]} \ {0} \in SUBSET Begun
        /\ LET done == {bound[session[t]]} \ {0} IN Halt(done, done, done)
        /\ bound' = [bound EXCEPT ![session[t]] = 0]
        /\ session' = [session EXCEPT ![t] = None] /\ UNCHANGED <<early, pending>>
    BY <1>2, <2>1 DEF EndTurn, TypeOK
  <2>3. /\ ended' \in [Ids -> BOOLEAN] /\ finalizing' \in SUBSET Begun /\ held' \in SUBSET Begun
        /\ queued' \in SUBSET Begun /\ wire' \in SUBSET Begun /\ clears' \in SUBSET Begun
        /\ shown' \in [Rooms -> Begun \cup {0}]
    BY <1>1, <2>2, HaltTypes
  <2>4. QED
    BY <1>1, <2>2, <2>3 DEF TypeOK
<1>3. CASE session[t] = None /\ pending[t] # 0 /\ inGrace[pending[t]]
  <2>1. pending[t] \in Begun /\ Begun \subseteq Ids
    BY <1>3, NextEntry DEF TypeOK
  <2>2. early' \in [Ids -> BOOLEAN] /\ finalizing' \in SUBSET Begun
    BY <1>3, <2>1 DEF EndTurn, TypeOK
  <2>3. UNCHANGED <<ended, held, pending, bound, session, net>>
    BY <1>3 DEF EndTurn
  <2>4. QED
    BY <1>1, <2>2, <2>3 DEF TypeOK, net
<1>4. CASE session[t] = None /\ pending[t] # 0 /\ ~inGrace[pending[t]]
  <2>1. /\ pending[t] \in Begun
        /\ Halt({pending[t]}, {pending[t]}, {pending[t]})
        /\ pending' = [pending EXCEPT ![t] = 0] /\ UNCHANGED <<early, bound, session>>
    BY <1>4 DEF EndTurn, TypeOK
  <2>2. /\ ended' \in [Ids -> BOOLEAN] /\ finalizing' \in SUBSET Begun /\ held' \in SUBSET Begun
        /\ queued' \in SUBSET Begun /\ wire' \in SUBSET Begun /\ clears' \in SUBSET Begun
        /\ shown' \in [Rooms -> Begun \cup {0}]
    BY <1>1, <2>1, HaltTypes
  <2>3. QED
    BY <1>1, <2>1, <2>2 DEF TypeOK
<1>5. CASE session[t] = None /\ pending[t] = 0
  <2>1. UNCHANGED <<ended, early, finalizing, held, pending, bound, session, net>>
    BY <1>5 DEF EndTurn
  <2>2. QED
    BY <1>1, <2>1 DEF TypeOK, net
<1>6. QED
  BY <1>2, <1>3, <1>4, <1>5

\* Every step keeps the types.
LEMMA TypeStep ==
  ASSUME IInv, [Next]_vars
  PROVE  TypeOK'
<1> USE DEF IInv, entry, dicts, net, bounds
<1>b. Begun \subseteq Ids
  BY NextEntry
<1>1. ASSUME NEW t \in Triggers,
             Dispatch(t) \/ EnsureReadsPending(t) \/ Complete(t) \/ CompleteQueued(t)
      PROVE  TypeOK'
  <2>1. CASE Dispatch(t)
    <3>1. /\ phase' \in [Triggers -> {"new", "dispatched", "started", "completed"}]
          /\ ensuring' = None
      BY <2>1 DEF Dispatch, LoopIdle, TypeOK
    <3>2. QED
      BY <2>1, <3>1, BeginTypes DEF Dispatch
  <2>2. CASE EnsureReadsPending(t)
    <3>1. /\ phase' \in [Triggers -> {"new", "dispatched", "started", "completed"}]
          /\ ensuring' = None \/ ensuring' \in [trigger : Triggers, step : {"bound", "begin"}]
      BY <2>2 DEF EnsureReadsPending, TypeOK
    <3>2. Begun' = Begun
      BY <2>2 DEF EnsureReadsPending, Begun
    <3>3. QED
      BY <2>2, <3>1, <3>2 DEF EnsureReadsPending, TypeOK
  <2>3. CASE Complete(t)
    <3>1. /\ phase' \in [Triggers -> {"new", "dispatched", "started", "completed"}]
          /\ spurious' \in 0 .. MaxSpurious
      BY <2>3 DEF Complete, TypeOK
    <3>2. QED
      BY <2>3, <3>1, EndTypes DEF Complete
  <2>4. CASE CompleteQueued(t)
    <3>1. /\ phase' \in [Triggers -> {"new", "dispatched", "started", "completed"}]
          /\ spurious' \in 0 .. MaxSpurious
      BY <2>4, StatusAssumption DEF CompleteQueued, TypeOK
    <3>2. QED
      BY <2>4, <3>1, EndTypes DEF CompleteQueued
  <2>5. QED
    BY <1>1, <2>1, <2>2, <2>3, <2>4
<1>2. CASE EnsureReadsBound
  <2>1. /\ ensuring \in [trigger : Triggers, step : {"bound", "begin"}]
        /\ phase' \in [Triggers -> {"new", "dispatched", "started", "completed"}]
        /\ ensuring' = None \/ ensuring' \in [trigger : Triggers, step : {"bound", "begin"}]
    BY <1>2 DEF EnsureReadsBound, TypeOK
  <2>2. Begun' = Begun
    BY <1>2 DEF EnsureReadsBound, Begun
  <2>3. QED
    BY <1>2, <2>1, <2>2 DEF EnsureReadsBound, TypeOK
<1>3. CASE EnsureBegins
  <2>1. /\ ensuring.trigger \in Triggers
        /\ phase' \in [Triggers -> {"new", "dispatched", "started", "completed"}]
    BY <1>3 DEF EnsureBegins, TypeOK
  <2>2. QED
    BY <1>3, <2>1, BeginTypes DEF EnsureBegins
<1>4. CASE Reset
  <2>1. Begun' = Begun /\ PendingIds \cup BoundIds \in SUBSET Begun
    BY <1>4 DEF Reset, Begun, PendingIds, BoundIds, TypeOK
  <2>2. /\ ended' \in [Ids -> BOOLEAN] /\ finalizing' \in SUBSET Begun /\ held' \in SUBSET Begun
        /\ queued' \in SUBSET Begun /\ wire' \in SUBSET Begun /\ clears' \in SUBSET Begun
        /\ shown' \in [Rooms -> Begun \cup {0}]
    <3>1. /\ Halt(PendingIds \cup BoundIds, PendingIds \cup BoundIds, {})
          /\ UNCHANGED trigger /\ {} \in SUBSET Begun
      BY <1>4 DEF Reset, HaltAtReset
    <3>2. QED
      BY <2>1, <3>1, HaltTypes
  <2>3. resets' \in 0 .. MaxResets
    BY <1>4, StatusAssumption DEF Reset, TypeOK
  <2>4. QED
    BY <1>4, <2>1, <2>2, <2>3 DEF Reset, TypeOK
<1>5. ASSUME NEW s \in Sessions, ToolCall(s)
      PROVE  TypeOK'
  <2>1. Begun' = Begun
    BY <1>5 DEF ToolCall, Begun
  <2>2. engine' \in [session : Sessions, id : Begun, step : {"bind", "map", "publish"}]
        /\ pending' \in [Triggers -> Begun \cup {0}]
    <3>1. bound[s] # 0 => bound[s] \in Begun
      BY DEF TypeOK
    <3>2. \A i \in ClaimFor(s) : i \in Begun
      BY DEF ClaimFor, Candidates, PendingIds, TypeOK
    <3>3. QED
      BY <1>5, <3>1, <3>2 DEF ToolCall, TypeOK
  <2>3. QED
    BY <1>5, <2>1, <2>2 DEF ToolCall, TypeOK
<1>6. CASE BindClaim \/ MapClaim \/ PublishCall
  <2>1. /\ engine \in [session : Sessions, id : Begun, step : {"bind", "map", "publish"}]
        /\ engine.session \in Sessions /\ engine.id \in Begun /\ engine.id \in Ids
    BY <1>b, <1>6 DEF BindClaim, MapClaim, PublishCall, TypeOK
  <2>2. Begun' = Begun
    BY <1>6 DEF BindClaim, MapClaim, PublishCall, Begun
  <2>3. engine' = None \/ engine' \in [session : Sessions, id : Begun, step : {"bind", "map", "publish"}]
    BY <1>6, <2>1 DEF BindClaim, MapClaim, PublishCall
  <2>4. trigger[engine.id] \in Triggers
    BY <2>1 DEF Begun, TypeOK
  <2>5. CASE BindClaim
    BY <2>1, <2>2, <2>3, <2>5 DEF BindClaim, TypeOK
  <2>6. CASE MapClaim
    <3>1. RoomAtClaim(engine.id) \in Rooms
      BY <2>4, StatusAssumption DEF RoomAtClaim, Scope
    <3>2. QED
      BY <2>1, <2>2, <2>3, <2>4, <2>6, <3>1 DEF MapClaim, TypeOK
  <2>7. CASE PublishCall
    BY <2>1, <2>2, <2>3, <2>7 DEF PublishCall, TypeOK
  <2>8. QED
    BY <1>6, <2>5, <2>6, <2>7
<1>7. ASSUME NEW i \in Ids, Flush(i) \/ Refresh(i) \/ Send(i) \/ ShowLands(i) \/ ClearLands(i)
      PROVE  TypeOK'
  <2>1. Begun' = Begun
    BY <1>7 DEF Flush, Refresh, Send, ShowLands, ClearLands, Begun
  <2>2. i \in Begun
    BY <1>7 DEF Flush, Refresh, Send, ShowLands, ClearLands, TypeOK
  <2>3. CASE Flush(i) \/ Refresh(i) \/ Send(i)
    BY <2>1, <2>2, <2>3 DEF Flush, Refresh, Send, TypeOK
  <2>4. CASE ShowLands(i) \/ ClearLands(i)
    <3>1. shown' \in [Rooms -> Begun \cup {0}] /\ wire' \in SUBSET Begun /\ clears' \in SUBSET Begun
      BY <2>2, <2>4 DEF ShowLands, ClearLands, TypeOK
    <3>2. QED
      BY <2>1, <2>4, <3>1 DEF ShowLands, ClearLands, TypeOK
  <2>5. QED
    BY <1>7, <2>3, <2>4
<1>8. ASSUME NEW i \in Ids, Finalize(i)
      PROVE  TypeOK'
  <2>1. /\ Begun' = Begun /\ trigger[i] \in Triggers
        /\ UNCHANGED <<phase, ensuring, trigger, early, inGrace, stale, bound, session,
                       room, engine, bounds>>
    BY <1>8 DEF Finalize, Begun, TypeOK
  <2>2. CASE pending[trigger[i]] \in EarlyIds
    <3>1. /\ Halt({pending[trigger[i]]}, {i}, {pending[trigger[i]]})
          /\ pending[trigger[i]] \in Begun
          /\ pending' = [pending EXCEPT ![trigger[i]] = 0]
      BY <1>8, <2>2 DEF Finalize, EarlyIds
    <3>2. /\ ended' \in [Ids -> BOOLEAN] /\ finalizing' \in SUBSET Begun /\ held' \in SUBSET Begun
          /\ queued' \in SUBSET Begun /\ wire' \in SUBSET Begun /\ clears' \in SUBSET Begun
          /\ shown' \in [Rooms -> Begun \cup {0}]
      BY <2>1, <3>1, HaltTypes
    <3>3. QED
      BY <2>1, <3>1, <3>2 DEF TypeOK
  <2>3. CASE pending[trigger[i]] \notin EarlyIds
    <3>1. UNCHANGED <<ended, held, net, pending>> /\ finalizing' = finalizing \ {i}
      BY <1>8, <2>3 DEF Finalize
    <3>2. QED
      BY <2>1, <3>1 DEF TypeOK
  <2>4. QED
    BY <2>2, <2>3
<1>9. ASSUME NEW r \in Rooms, TimesOut(r)
      PROVE  TypeOK'
  <2>1. Begun' = Begun /\ shown' \in [Rooms -> Begun \cup {0}]
    BY <1>9 DEF TimesOut, Begun, TypeOK
  <2>2. QED
    BY <1>9, <2>1 DEF TimesOut, TypeOK
<1>10. ASSUME NEW i \in Ids, Ages(i)
       PROVE  TypeOK'
  <2>1. Begun' = Begun /\ inGrace' \in [Ids -> BOOLEAN] /\ stale' \in [Ids -> BOOLEAN]
    BY <1>10 DEF Ages, Begun, TypeOK
  <2>2. QED
    BY <1>10, <2>1 DEF Ages, TypeOK
<1>11. CASE UNCHANGED vars
  <2>1. Begun' = Begun
    BY <1>11 DEF vars, Begun
  <2>2. QED
    BY <1>11, <2>1 DEF vars, TypeOK
<1>12. QED
  BY <1>1, <1>2, <1>3, <1>4, <1>5, <1>6, <1>7, <1>8, <1>9, <1>10, <1>11
     DEF Next, TurnStep, ToolStep, TaskStep, NetStep

-----------------------------------------------------------------------------
(* The rest of the invariant, one lemma per kind of step.                  *)

Rest == Numbered /\ PendingOwn /\ NothingOverwritten /\ CallHolds /\ NoOrphanLine

\* A step that leaves the entries, the dicts and the tool call alone: of the
\* turns it begins none, and ensure_turn goes on only with one that has no entry.
LEMMA QuietStep ==
  ASSUME IInv, UNCHANGED <<trigger, ended, pending, bound, engine>>,
         \A t \in Triggers : phase'[t] = "new" => phase[t] = "new",
         ensuring' # None => pending[ensuring'.trigger] = 0
  PROVE  Rest'
<1> USE DEF IInv
<1>1. Numbered'
  BY DEF Numbered, Begun
<1>2. PendingOwn' /\ NothingOverwritten' /\ CallHolds'
  BY DEF PendingOwn, NothingOverwritten, CallHolds
<1>3. NoOrphanLine'
  BY DEF NoOrphanLine, Live, Begun, PendingIds, BoundIds
<1>4. QED
  BY <1>1, <1>2, <1>3 DEF Rest

\* A turn begun gets an entry of its own, and overwrites none.
LEMMA BeginStep ==
  ASSUME IInv, NEW t \in Triggers, BeginTurn(t), pending[t] = 0, ensuring' = None,
         phase'[t] # "new", \A u \in Triggers : phase'[u] = "new" => phase[u] = "new"
  PROVE  Rest'
<1> DEFINE i == Cardinality(Begun) + 1
           gone == {j \in PendingIds : stale[j] \/ Finished(j)}
           lost == {j \in BoundIds : stale[j]}
<1> USE DEF IInv
<1>1. /\ i \in Ids /\ i \notin Begun /\ i # 0 /\ engine = None
      /\ Begun' = Begun \cup {i} /\ trigger' = [trigger EXCEPT ![i] = t]
      /\ pending'[t] = i /\ ~ended'[i]
  BY BeginEntry
<1>2. /\ UNCHANGED engine
      /\ ended' = [j \in Ids |-> ended[j] \/ j \in gone \cup lost]
      /\ pending' = [u \in Triggers |-> IF u = t THEN i
                       ELSE IF pending[u] \in gone THEN 0 ELSE pending[u]]
      /\ bound' = [s \in Sessions |-> IF bound[s] \in lost THEN 0 ELSE bound[s]]
  BY DEF BeginTurn
<1>3. /\ pending \in [Triggers -> Begun \cup {0}] /\ bound \in [Sessions -> Begun \cup {0}]
      /\ Begun \subseteq Ids /\ 0 \notin Begun
      /\ trigger \in [Ids -> Triggers \cup {None}] /\ ended \in [Ids -> BOOLEAN]
      /\ gone \subseteq Begun /\ lost \subseteq Begun
  BY NextEntry DEF TypeOK, PendingIds, BoundIds
<1> HIDE DEF i, gone, lost
<1>4. Numbered'
  <2>1. \E n \in 0 .. MaxEntries : Begun' = 1 .. n
    BY <1>1, NextEntry DEF i
  <2>2. \A j \in Ids : ended'[j] => j \in Begun'
    BY <1>1, <1>2, <1>3 DEF Numbered
  <2>3. QED
    BY <2>1, <2>2 DEF Numbered
<1>5. PendingOwn'
  <2>1. ASSUME NEW u \in Triggers, pending'[u] # 0
        PROVE  /\ trigger'[pending'[u]] = u /\ ~ended'[pending'[u]]
               /\ \A s \in Sessions : bound'[s] # pending'[u]
    <3>1. CASE u = t
      BY <1>1, <1>2, <1>3, <3>1
    <3>2. CASE u # t
      <4>1. pending'[u] = pending[u] /\ pending[u] # 0 /\ pending[u] \notin gone
        BY <1>2, <2>1, <3>2
      <4>2. /\ pending[u] \in Begun /\ pending[u] # i
            /\ trigger[pending[u]] = u /\ ~ended[pending[u]]
            /\ \A s \in Sessions : bound[s] # pending[u]
        BY <1>1, <1>3, <4>1 DEF PendingOwn
      <4>3. pending[u] \notin lost
        BY <4>2 DEF lost, BoundIds
      <4>4. QED
        BY <1>1, <1>2, <1>3, <4>1, <4>2, <4>3
    <3>3. QED
      BY <3>1, <3>2
  <2>2. QED
    BY <2>1 DEF PendingOwn
<1>6. NothingOverwritten' /\ CallHolds'
  BY <1>1, <1>2 DEF NothingOverwritten, CallHolds
<1>7. NoOrphanLine'
  <2>1. ASSUME NEW j \in Begun', ~ended'[j]
        PROVE  (\E u \in Triggers : pending'[u] = j) \/ (\E s \in Sessions : bound'[s] = j)
    <3>1. CASE j = i
      BY <1>1, <3>1
    <3>2. CASE j # i
      <4>1. j \in Begun /\ j \in Ids /\ ~ended[j] /\ j \notin gone /\ j \notin lost
        BY <1>1, <1>2, <1>3, <2>1, <3>2
      <4>2. j \in PendingIds \cup BoundIds
        BY <1>1, <4>1 DEF NoOrphanLine, Live
      <4>3. QED
        BY <1>2, <4>1, <4>2 DEF PendingIds, BoundIds
    <3>3. QED
      BY <3>1, <3>2
  <2>2. QED
    BY <1>1, <1>3, <2>1 DEF NoOrphanLine, Live, PendingIds, BoundIds
<1>8. QED
  BY <1>4, <1>5, <1>6, <1>7 DEF Rest

\* Entries that end leave the dicts, and nothing else does.
LEMMA EndStep ==
  ASSUME IInv, NEW S \in SUBSET Begun, engine = None, UNCHANGED <<trigger, engine>>,
         ended' = [i \in Ids |-> ended[i] \/ i \in S],
         pending' \in [Triggers -> Begun \cup {0}], bound' \in [Sessions -> Begun \cup {0}],
         \A t \in Triggers : pending'[t] = IF pending[t] \in S THEN 0 ELSE pending[t],
         \A s \in Sessions : bound'[s] = bound[s] \/ (bound'[s] = 0 /\ bound[s] \in S \cup {0}),
         ensuring' = None, \A t \in Triggers : phase'[t] = "new" => phase[t] = "new"
  PROVE  Rest'
<1> USE DEF IInv
<1>1. /\ Begun' = Begun /\ Begun \subseteq Ids /\ 0 \notin Begun
      /\ pending \in [Triggers -> Begun \cup {0}] /\ ended \in [Ids -> BOOLEAN]
  BY NextEntry DEF Begun, TypeOK
<1>2. Numbered'
  BY <1>1 DEF Numbered
<1>3. PendingOwn'
  BY <1>1 DEF PendingOwn
<1>4. NothingOverwritten' /\ CallHolds'
  BY <1>1 DEF NothingOverwritten, CallHolds
<1>5. NoOrphanLine'
  <2>1. ASSUME NEW j \in Begun, ~ended'[j]
        PROVE  (\E u \in Triggers : pending'[u] = j) \/ (\E s \in Sessions : bound'[s] = j)
    <3>1. ~ended[j] /\ j \notin S /\ j # 0
      BY <1>1, <2>1
    <3>2. j \in PendingIds \cup BoundIds
      BY <2>1, <3>1 DEF NoOrphanLine, Live
    <3>3. QED
      BY <3>1, <3>2 DEF PendingIds, BoundIds
  <2>2. QED
    BY <1>1, <2>1 DEF NoOrphanLine, Live, PendingIds, BoundIds
<1>6. QED
  BY <1>2, <1>3, <1>4, <1>5 DEF Rest

\* A completion ends the entry of its turn wherever it is, or leaves it to the
\* grace window.
LEMMA CompletionStep ==
  ASSUME IInv, NEW t \in Triggers, EndTurn(t), LoopIdle,
         \A u \in Triggers : phase'[u] = "new" => phase[u] = "new"
  PROVE  Rest'
<1> USE DEF IInv
<1>1. /\ UNCHANGED <<ensuring, trigger, engine>> /\ engine = None /\ ensuring' = None
      /\ pending \in [Triggers -> Begun \cup {0}] /\ bound \in [Sessions -> Begun \cup {0}]
      /\ 0 \notin Begun
  BY NextEntry DEF EndTurn, EndTurnLock, Free, LoopIdle, TypeOK
<1>2. CASE session[t] # None
  <2>1. session[t] \in Sessions
    BY <1>2 DEF TypeOK
  <2> DEFINE done == {bound[session[t]]} \ {0}
  <2>2. /\ done \in SUBSET Begun
        /\ ended' = [i \in Ids |-> ended[i] \/ i \in done]
        /\ bound' = [bound EXCEPT ![session[t]] = 0] /\ pending' = pending
    BY <1>1, <1>2, <2>1 DEF EndTurn, Halt
  <2>3. \A u \in Triggers : pending[u] \notin done
    BY <2>1 DEF PendingOwn
  <2>4. \A s \in Sessions : bound'[s] = bound[s] \/ (bound'[s] = 0 /\ bound[s] \in done \cup {0})
    BY <1>1, <2>2
  <2>5. bound' \in [Sessions -> Begun \cup {0}]
    BY <1>1, <2>2
  <2> HIDE DEF done
  <2>6. \A u \in Triggers : pending'[u] = IF pending[u] \in done THEN 0 ELSE pending[u]
    BY <2>2, <2>3
  <2>7. QED
    BY <1>1, <2>2, <2>4, <2>5, <2>6, EndStep
<1>3. CASE session[t] = None /\ pending[t] # 0 /\ ~inGrace[pending[t]]
  <2>1. /\ {pending[t]} \in SUBSET Begun
        /\ ended' = [i \in Ids |-> ended[i] \/ i \in {pending[t]}]
        /\ pending' = [pending EXCEPT ![t] = 0] /\ bound' = bound
    BY <1>1, <1>3 DEF EndTurn, Halt
  <2>2. \A u \in Triggers : pending'[u] = IF pending[u] \in {pending[t]} THEN 0 ELSE pending[u]
    BY <1>1, <1>3, <2>1 DEF PendingOwn
  <2>3. pending' \in [Triggers -> Begun \cup {0}]
    BY <1>1, <2>1
  <2>4. \A s \in Sessions : bound'[s] = bound[s]
    BY <2>1
  <2>5. QED
    BY <1>1, <2>1, <2>2, <2>3, <2>4, EndStep
<1>4. CASE session[t] = None /\ (pending[t] = 0 \/ inGrace[pending[t]])
  <2>1. UNCHANGED <<ended, pending, bound>>
    BY <1>4 DEF EndTurn
  <2>2. QED
    BY <1>1, <2>1, QuietStep
<1>5. QED
  BY <1>2, <1>3, <1>4

\* The window closed: whatever waits for the trigger ends, if it completed early.
LEMMA FinalizeStep ==
  ASSUME IInv, NEW i \in Ids, Finalize(i)
  PROVE  Rest'
<1> USE DEF IInv
<1> DEFINE t == trigger[i]
           j == pending[t]
<1>1. /\ UNCHANGED <<phase, ensuring, trigger, bound, engine>> /\ engine = None /\ ensuring = None
      /\ t \in Triggers /\ 0 \notin Begun
      /\ pending \in [Triggers -> Begun \cup {0}] /\ bound \in [Sessions -> Begun \cup {0}]
  BY NextEntry DEF Finalize, LoopIdle, Free, TypeOK, Begun
<1>2. CASE j \in EarlyIds
  <2>1. /\ {j} \in SUBSET Begun
        /\ ended' = [k \in Ids |-> ended[k] \/ k \in {j}]
        /\ pending' = [pending EXCEPT ![t] = 0]
    BY <1>2 DEF Finalize, Halt, EarlyIds
  <2>2. \A u \in Triggers : pending'[u] = IF pending[u] \in {j} THEN 0 ELSE pending[u]
    BY <1>1, <2>1 DEF PendingOwn
  <2>3. pending' \in [Triggers -> Begun \cup {0}]
    BY <1>1, <2>1
  <2>4. QED
    BY <1>1, <2>1, <2>2, <2>3, EndStep
<1>3. CASE j \notin EarlyIds
  <2>1. UNCHANGED <<ended, pending>>
    BY <1>3 DEF Finalize
  <2>2. QED
    BY <1>1, <2>1, QuietStep
<1>4. QED
  BY <1>2, <1>3

\* A reset ends all there is.
LEMMA ResetStep ==
  ASSUME IInv, Reset
  PROVE  Rest'
<1> USE DEF IInv
<1>1. /\ UNCHANGED <<phase, ensuring, trigger, engine>> /\ engine = None /\ ensuring = None
      /\ ended' = [i \in Ids |-> ended[i] \/ i \in PendingIds \cup BoundIds]
      /\ pending' = [t \in Triggers |-> 0] /\ bound' = [s \in Sessions |-> 0]
      /\ PendingIds \cup BoundIds \in SUBSET Begun
  BY DEF Reset, Halt, HaltAtReset, LoopIdle, Free, TypeOK, PendingIds, BoundIds
<1>2. \A t \in Triggers : pending'[t] = IF pending[t] \in PendingIds \cup BoundIds THEN 0
                                        ELSE pending[t]
  BY <1>1 DEF PendingIds
<1>3. \A s \in Sessions : bound'[s] = 0 /\ bound[s] \in PendingIds \cup BoundIds \cup {0}
  BY <1>1 DEF BoundIds
<1>4. pending' \in [Triggers -> Begun \cup {0}] /\ bound' \in [Sessions -> Begun \cup {0}]
  BY <1>1
<1>5. QED
  BY <1>1, <1>2, <1>3, <1>4, EndStep

-----------------------------------------------------------------------------
(* Tool calls.                                                             *)

\* A tool call takes the lock with an entry that has not ended.
LEMMA CallStep ==
  ASSUME IInv, NEW s \in Sessions, ToolCall(s)
  PROVE  Rest'
<1> USE DEF IInv
<1>1. /\ UNCHANGED <<phase, ensuring, trigger, ended, bound>> /\ engine = None
      /\ pending \in [Triggers -> Begun \cup {0}] /\ bound \in [Sessions -> Begun \cup {0}]
      /\ 0 \notin Begun /\ Begun \subseteq Ids /\ Begun' = Begun
  BY NextEntry DEF ToolCall, Free, entry, TypeOK, Begun
<1>2. CASE bound[s] # 0 /\ ~ended[bound[s]] /\ UNCHANGED pending
           /\ engine' = [session |-> s, id |-> bound[s], step |-> "publish"]
  <2>1. Numbered' /\ PendingOwn' /\ NothingOverwritten'
    BY <1>1, <1>2 DEF Numbered, PendingOwn, NothingOverwritten
  <2>2. CallHolds'
    BY <1>1, <1>2 DEF CallHolds
  <2>3. NoOrphanLine'
    BY <1>1, <1>2 DEF NoOrphanLine, Live, PendingIds, BoundIds
  <2>4. QED
    BY <2>1, <2>2, <2>3 DEF Rest
<1>3. ASSUME NEW i \in ClaimFor(s), bound[s] = 0,
             engine' = [session |-> s, id |-> i, step |-> "bind"],
             pending' = [pending EXCEPT ![trigger[i]] = 0]
      PROVE  Rest'
  <2>1. PICK t \in Triggers : pending[t] = i
    BY DEF ClaimFor, Candidates, PendingIds
  <2>2. i # 0 /\ i \in Begun
    BY <1>1, <2>1 DEF ClaimFor, Candidates, PendingIds
  <2>3. trigger[i] = t /\ ~ended[i] /\ \A r \in Sessions : bound[r] # i
    BY <2>1, <2>2 DEF PendingOwn
  <2>4. \A u \in Triggers : pending'[u] = IF u = t THEN 0 ELSE pending[u]
    BY <1>1, <1>3, <2>3
  <2>5. \A u \in Triggers : pending'[u] # i
    BY <2>2, <2>3, <2>4 DEF PendingOwn
  <2>6. Numbered'
    BY <1>1 DEF Numbered
  <2>7. PendingOwn'
    BY <1>1, <2>4 DEF PendingOwn
  <2>8. NothingOverwritten'
    <3>1. ensuring # None => ensuring.trigger \in Triggers
      BY DEF TypeOK
    <3>2. QED
      BY <1>1, <2>4, <3>1 DEF NothingOverwritten
  <2>9. CallHolds'
    BY <1>1, <1>3, <2>3, <2>5 DEF CallHolds
  <2>10. NoOrphanLine'
    <3>1. engine' # None /\ engine'.id = i
      <4>1. engine' \in Calls
        BY <1>1, <1>3, <2>2 DEF Calls
      <4>2. QED
        BY <1>3, <4>1, StatusAssumption
    <3>2. ASSUME NEW j \in Begun, ~ended[j], j # i
          PROVE  (\E u \in Triggers : pending'[u] = j) \/ (\E r \in Sessions : bound[r] = j)
      <4>1. j \in PendingIds \cup BoundIds /\ j # 0
        BY <1>1, <3>2 DEF NoOrphanLine, Live
      <4>2. QED
        BY <2>1, <2>4, <3>2, <4>1 DEF PendingIds, BoundIds
    <3>3. QED
      BY <1>1, <3>1, <3>2 DEF NoOrphanLine, Live, PendingIds, BoundIds
  <2>11. QED
    BY <2>6, <2>7, <2>8, <2>9, <2>10 DEF Rest
<1>4. QED
  BY <1>2, <1>3 DEF ToolCall

\* It goes on holding it: the entry it took is bound before anyone can look for
\* it, and it lets go of an entry that can be found.
LEMMA EngineStep ==
  ASSUME IInv, BindClaim \/ MapClaim \/ PublishCall
  PROVE  Rest'
<1> USE DEF IInv
<1>1. /\ UNCHANGED <<phase, ensuring, trigger, ended, pending>> /\ engine # None
      /\ Begun' = Begun /\ 0 \notin Begun /\ Begun \subseteq Ids
      /\ engine \in [session : Sessions, id : Begun, step : {"bind", "map", "publish"}]
      /\ engine.session \in Sessions /\ engine.id \in Begun
      /\ bound \in [Sessions -> Begun \cup {0}]
  <2>1. /\ UNCHANGED <<phase, ensuring, trigger, ended, pending>> /\ engine # None
    BY DEF BindClaim, MapClaim, PublishCall, entry, dicts
  <2>2. engine \in [session : Sessions, id : Begun, step : {"bind", "map", "publish"}]
    BY <2>1 DEF TypeOK
  <2>3. Begun' = Begun
    BY <2>1 DEF Begun
  <2>4. QED
    BY <2>1, <2>2, <2>3, NextEntry DEF TypeOK
<1>2. Numbered' /\ NothingOverwritten'
  BY <1>1 DEF Numbered, NothingOverwritten
<1>3. CASE BindClaim
  <2>1. /\ engine' = [engine EXCEPT !.step = "map"] /\ engine.step = "bind"
        /\ engine'.id = engine.id /\ engine'.session = engine.session /\ engine'.step = "map"
        /\ bound' = [bound EXCEPT ![engine.session] = engine.id]
    BY <1>1, <1>3 DEF BindClaim
  <2>2. /\ ~ended[engine.id] /\ bound[engine.session] = 0
        /\ \A t \in Triggers : pending[t] # engine.id
    BY <1>1, <2>1 DEF CallHolds
  <2>3. PendingOwn'
    BY <1>1, <2>1, <2>2 DEF PendingOwn
  <2>4. CallHolds'
    BY <1>1, <2>1, <2>2 DEF CallHolds
  <2>5. ASSUME NEW j \in Begun, ~ended[j]
        PROVE  (\E u \in Triggers : pending[u] = j) \/ (\E r \in Sessions : bound'[r] = j)
    BY <1>1, <2>1, <2>2, <2>5 DEF NoOrphanLine, Live, PendingIds, BoundIds
  <2>6. NoOrphanLine'
    BY <1>1, <2>5 DEF NoOrphanLine, Live, PendingIds, BoundIds
  <2>7. QED
    BY <1>2, <2>3, <2>4, <2>6 DEF Rest
<1>4. CASE MapClaim \/ PublishCall
  <2>1. /\ bound' = bound /\ engine.step # "bind"
        /\ engine' # None => /\ engine'.id = engine.id /\ engine'.session = engine.session
                             /\ engine'.step = "publish"
    BY <1>1, <1>4 DEF MapClaim, PublishCall, dicts
  <2>2. bound[engine.session] = engine.id /\ ~ended[engine.id]
    BY <1>1, <2>1 DEF CallHolds
  <2>3. PendingOwn' /\ CallHolds'
    BY <1>1, <2>1, <2>2 DEF PendingOwn, CallHolds
  <2>4. NoOrphanLine'
    BY <1>1, <2>1, <2>2 DEF NoOrphanLine, Live, PendingIds, BoundIds
  <2>5. QED
    BY <1>2, <2>3, <2>4 DEF Rest
<1>5. QED
  BY <1>3, <1>4

-----------------------------------------------------------------------------
(* The theorems.                                                           *)

\* It holds before the first turn.
LEMMA InitInv == Init => IInv
<1> SUFFICES ASSUME Init PROVE IInv
  OBVIOUS
<1>1. Begun = {} /\ MaxEntries \in Nat /\ MaxSpurious \in Nat /\ MaxResets \in Nat
  BY StatusAssumption DEF Init, Begun
<1>2. TypeOK
  BY <1>1 DEF Init, TypeOK
<1>3. Numbered
  <2>1. 0 \in 0 .. MaxEntries /\ 1 .. 0 = {}
    BY <1>1
  <2>2. QED
    BY <1>1, <2>1 DEF Init, Numbered
<1>4. PendingOwn /\ NothingOverwritten /\ CallHolds /\ NoOrphanLine
  BY <1>1 DEF Init, PendingOwn, NothingOverwritten, CallHolds, NoOrphanLine, Live
<1>5. QED
  BY <1>2, <1>3, <1>4 DEF IInv

\* Every step keeps the invariant.
LEMMA InvStep == IInv /\ [Next]_vars => IInv'
<1> SUFFICES ASSUME IInv, [Next]_vars PROVE Rest'
  BY TypeStep DEF Rest, IInv
<1>1. ASSUME NEW t \in Triggers, Dispatch(t)
      PROVE  Rest'
  <2>1. /\ pending[t] = 0 /\ BeginTurn(t) /\ ensuring' = None /\ phase'[t] # "new"
        /\ \A u \in Triggers : phase'[u] = "new" => phase[u] = "new"
    BY <1>1 DEF Dispatch, LoopIdle, IInv, NothingOverwritten, TypeOK
  <2>2. QED
    BY <2>1, BeginStep
<1>2. ASSUME NEW t \in Triggers, EnsureReadsPending(t)
      PROVE  Rest'
  <2>1. /\ \A u \in Triggers : phase'[u] = "new" => phase[u] = "new"
        /\ ensuring' # None => pending[ensuring'.trigger] = 0
        /\ UNCHANGED <<trigger, ended, pending, bound, engine>>
    BY <1>2 DEF EnsureReadsPending, LoopIdle, IInv, TypeOK, entry, dicts
  <2>2. QED
    BY <2>1, QuietStep
<1>3. ASSUME NEW t \in Triggers, Complete(t) \/ CompleteQueued(t)
      PROVE  Rest'
  <2>1. /\ EndTurn(t) /\ LoopIdle
        /\ \A u \in Triggers : phase'[u] = "new" => phase[u] = "new"
    BY <1>3 DEF Complete, CompleteQueued, IInv, TypeOK
  <2>2. QED
    BY <2>1, CompletionStep
<1>4. CASE EnsureReadsBound
  <2>1. /\ ensuring.trigger \in Triggers /\ pending[ensuring.trigger] = 0
        /\ UNCHANGED <<trigger, ended, pending, bound, engine>>
        /\ ensuring \in [trigger : Triggers, step : {"bound", "begin"}]
    BY <1>4 DEF EnsureReadsBound, IInv, TypeOK, NothingOverwritten, entry, dicts
  <2>2. /\ \A u \in Triggers : phase'[u] = "new" => phase[u] = "new"
        /\ ensuring' # None => ensuring'.trigger = ensuring.trigger
    BY <1>4, <2>1 DEF EnsureReadsBound, IInv, TypeOK
  <2>3. QED
    BY <2>1, <2>2, QuietStep
<1>5. CASE EnsureBegins
  <2>1. /\ ensuring.trigger \in Triggers /\ pending[ensuring.trigger] = 0
        /\ BeginTurn(ensuring.trigger) /\ ensuring' = None
        /\ phase'[ensuring.trigger] # "new"
        /\ \A u \in Triggers : phase'[u] = "new" => phase[u] = "new"
    BY <1>5 DEF EnsureBegins, IInv, TypeOK, NothingOverwritten
  <2>2. QED
    BY <2>1, BeginStep
<1>6. ASSUME NEW i \in Ids,
             Flush(i) \/ Refresh(i) \/ Send(i) \/ ShowLands(i) \/ ClearLands(i) \/ Ages(i)
      PROVE  UNCHANGED <<phase, ensuring, trigger, ended, pending, bound, engine>>
  BY <1>6 DEF Flush, Refresh, Send, ShowLands, ClearLands, Ages, entry, dicts
<1>7. ASSUME NEW r \in Rooms, TimesOut(r)
      PROVE  UNCHANGED <<phase, ensuring, trigger, ended, pending, bound, engine>>
  BY <1>7 DEF TimesOut, entry, dicts
<1>8. ASSUME UNCHANGED <<phase, ensuring, trigger, ended, pending, bound, engine>>
      PROVE  Rest'
  BY <1>8, QuietStep DEF IInv, NothingOverwritten
<1>9. CASE UNCHANGED vars
  BY <1>8, <1>9 DEF vars, entry, dicts
<1>10. QED
  BY <1>1, <1>2, <1>3, <1>4, <1>5, <1>6, <1>7, <1>8, <1>9, FinalizeStep, ResetStep,
     CallStep, EngineStep DEF Next, TurnStep, ToolStep, TaskStep, NetStep

\* Every reachable state satisfies the invariant.
THEOREM StatusInductive == Spec => []IInv
BY InitInv, InvStep, PTL DEF Spec

\* The types of the turns: whatever is pending, bound, held by a claim or being
\* finalized is an entry that was begun (begin_turn, ensure_turn, _claim_locked).
THEOREM StatusTypes == Spec => []TypeOK
<1>1. IInv => TypeOK
  BY DEF IInv
<1>2. QED
  BY StatusInductive, <1>1, PTL

\* A turn whose line may still be refreshed is pending, bound or being claimed:
\* its completion, a prune or a reset finds and ends it (end_turn, _prune, reset).
THEOREM LiveLinesAreFound == Spec => []NoOrphanLine
<1>1. IInv => NoOrphanLine
  BY DEF IInv
<1>2. QED
  BY StatusInductive, <1>1, PTL

\* Nothing is published for a turn after it ended: a tool call holds the lock
\* from the lookup to the publish (on_tool_call, _halt).
THEOREM EndedStaysQuiet == Spec => NoPublishAfterEnd
<1>1. IInv /\ [Next]_vars => (\A i \in Ids : i \in queued' \ queued => ~ended[i])
  <2> SUFFICES ASSUME IInv, [Next]_vars, NEW i \in Ids, i \in queued', i \notin queued
               PROVE  ~ended[i]
    OBVIOUS
  <2> USE DEF IInv
  <2>1. ASSUME NEW t \in Triggers, BeginTurn(t)
        PROVE  ~ended[i]
    BY <2>1, BeginEntry DEF BeginTurn, Numbered
  <2>2. CASE EnsureBegins
    BY <2>1, <2>2 DEF EnsureBegins, TypeOK
  <2>3. CASE PublishCall
    BY <2>3 DEF PublishCall, CallHolds
  <2>4. ASSUME NEW j \in Ids, Flush(j) \/ Refresh(j)
        PROVE  ~ended[i]
    BY <2>4 DEF Flush, Refresh, Refreshes
  <2>5. ASSUME queued' \subseteq queued
        PROVE  FALSE
    BY <2>5
  <2>6. ASSUME NEW t \in Triggers, EnsureReadsPending(t) \/ EndTurn(t)
        PROVE  queued' \subseteq queued
    BY <2>6 DEF EnsureReadsPending, EndTurn, Halt, net
  <2>7. ASSUME NEW j \in Ids,
               Finalize(j) \/ Send(j) \/ ShowLands(j) \/ ClearLands(j) \/ Ages(j)
        PROVE  queued' \subseteq queued
    BY <2>7 DEF Finalize, Halt, Send, ShowLands, ClearLands, Ages, net
  <2>8. CASE EnsureReadsBound \/ Reset \/ BindClaim \/ MapClaim \/ UNCHANGED vars
    BY <2>5, <2>8 DEF EnsureReadsBound, Reset, Halt, BindClaim, MapClaim, vars, net
  <2>9. ASSUME NEW s \in Sessions, ToolCall(s)
        PROVE  queued' \subseteq queued
    BY <2>9 DEF ToolCall, net
  <2>10. ASSUME NEW r \in Rooms, TimesOut(r)
         PROVE  queued' \subseteq queued
    BY <2>10 DEF TimesOut
  <2>11. QED
    BY <2>1, <2>2, <2>3, <2>4, <2>5, <2>6, <2>7, <2>8, <2>9, <2>10
       DEF Next, TurnStep, ToolStep, TaskStep, NetStep, Dispatch, Complete, CompleteQueued
<1>2. IInv /\ [Next]_vars => [\A i \in Ids : i \in queued' \ queued => ~ended[i]]_vars
  BY <1>1
<1>3. QED
  BY StatusInductive, <1>2, PTL DEF Spec, NoPublishAfterEnd

-----------------------------------------------------------------------------
(* The room of a session.                                                  *)

\* A claim under way is one the session's room allows: what it is about to write
\* over the room is the room itself.
ClaimsItsRoom ==
  engine # None /\ engine.step \in {"bind", "map"} =>
    room[engine.session] \in {None, Scope(engine.id)}

\* The steps that leave the entries, the rooms and the lock alone.
LEMMA RoomQuiet ==
  ASSUME ClaimsItsRoom, UNCHANGED <<trigger, room, engine>>
  PROVE  ClaimsItsRoom'
  BY DEF ClaimsItsRoom, Scope

\* No step but the claim's writes a room, and a reset forgets them all.
LEMMA RoomStep ==
  ASSUME IInv, ClaimsItsRoom, [Next]_vars
  PROVE  /\ ClaimsItsRoom'
         /\ \A s \in Sessions : room[s] # None => room'[s] \in {room[s], None}
<1> DEFINE Kept == \A s \in Sessions : room[s] # None => room'[s] \in {room[s], None}
<1> USE DEF entry, dicts
<1>1. ASSUME NEW t \in Triggers, BeginTurn(t), UNCHANGED engine
      PROVE  ClaimsItsRoom' /\ Kept
  BY <1>1 DEF BeginTurn, Free, ClaimsItsRoom
<1>2. ASSUME UNCHANGED <<trigger, room, engine>>
      PROVE  ClaimsItsRoom' /\ Kept
  BY <1>2, RoomQuiet
<1>3. ASSUME NEW t \in Triggers,
             Dispatch(t) \/ EnsureReadsPending(t) \/ Complete(t) \/ CompleteQueued(t)
      PROVE  ClaimsItsRoom' /\ Kept
  <2>1. CASE Dispatch(t)
    BY <1>1, <2>1 DEF Dispatch, BeginTurn
  <2>2. CASE EnsureReadsPending(t) \/ Complete(t) \/ CompleteQueued(t)
    BY <1>2, <2>2 DEF EnsureReadsPending, Complete, CompleteQueued, EndTurn
  <2>3. QED
    BY <1>3, <2>1, <2>2
<1>4. CASE EnsureReadsBound \/ EnsureBegins
  <2>1. CASE EnsureBegins
    <3>1. ensuring.trigger \in Triggers
      BY <2>1 DEF EnsureBegins, IInv, TypeOK
    <3>2. QED
      BY <1>1, <2>1, <3>1 DEF EnsureBegins, BeginTurn
  <2>2. CASE EnsureReadsBound
    BY <1>2, <2>2 DEF EnsureReadsBound
  <2>3. QED
    BY <1>4, <2>1, <2>2
<1>5. CASE Reset
  BY <1>5 DEF Reset, Free, ClaimsItsRoom
<1>6. ASSUME NEW s \in Sessions, ToolCall(s)
      PROVE  ClaimsItsRoom' /\ Kept
  <2>1. UNCHANGED <<trigger, room>>
    BY <1>6 DEF ToolCall
  <2>2. CASE engine' = [session |-> s, id |-> bound[s], step |-> "publish"]
    BY <2>1, <2>2 DEF ClaimsItsRoom
  <2>3. ASSUME NEW i \in ClaimFor(s), engine' = [session |-> s, id |-> i, step |-> "bind"]
        PROVE  ClaimsItsRoom' /\ Kept
    <3>1. room[s] \in {None, Scope(i)}
      BY DEF ClaimFor
    <3>2. QED
      BY <2>1, <2>3, <3>1 DEF ClaimsItsRoom, Scope
  <2>4. QED
    BY <1>6, <2>2, <2>3 DEF ToolCall
<1>7. CASE BindClaim
  BY <1>7 DEF BindClaim, ClaimsItsRoom, Scope, IInv, TypeOK
<1>8. CASE MapClaim
  <2>1. /\ engine # None /\ engine.step = "map" /\ engine'.step = "publish"
        /\ room' = [room EXCEPT ![engine.session] = Scope(engine.id)]
    BY <1>8 DEF MapClaim, RoomAtClaim, IInv, TypeOK
  <2>2. room[engine.session] \in {None, Scope(engine.id)}
    BY <2>1 DEF ClaimsItsRoom
  <2>3. Kept
    BY <2>1, <2>2 DEF IInv, TypeOK
  <2>4. QED
    BY <2>1, <2>3 DEF ClaimsItsRoom
<1>9. CASE PublishCall
  BY <1>9 DEF PublishCall, ClaimsItsRoom
<1>10. ASSUME NEW i \in Ids, Flush(i) \/ Refresh(i) \/ Finalize(i) \/ Send(i) \/ ShowLands(i)
                             \/ ClearLands(i) \/ Ages(i)
       PROVE  ClaimsItsRoom' /\ Kept
  BY <1>2, <1>10 DEF Flush, Refresh, Finalize, Send, ShowLands, ClearLands, Ages
<1>11. ASSUME NEW r \in Rooms, TimesOut(r)
       PROVE  ClaimsItsRoom' /\ Kept
  BY <1>2, <1>11 DEF TimesOut
<1>12. CASE UNCHANGED vars
  BY <1>2, <1>12 DEF vars
<1>13. QED
  BY <1>3, <1>4, <1>5, <1>6, <1>7, <1>8, <1>9, <1>10, <1>11, <1>12
     DEF Next, TurnStep, ToolStep, TaskStep, NetStep

\* Until a reset a session narrates one room: the claim that writes the room was
\* chosen for it, under the lock, with the room the session already had, and no
\* completion, prune or second claim comes between (_claim_locked, _session_room).
THEOREM SessionsKeepTheirRoom == Spec => SessionKeepsRoom
<1>1. Init => ClaimsItsRoom
  BY DEF Init, ClaimsItsRoom
<1>2. IInv /\ ClaimsItsRoom /\ [Next]_vars => ClaimsItsRoom'
  BY RoomStep
<1>3. IInv /\ ClaimsItsRoom /\ [Next]_vars =>
        [\A s \in Sessions : room[s] # None => room'[s] \in {room[s], None}]_vars
  BY RoomStep
<1>4. QED
  BY StatusInductive, <1>1, <1>2, <1>3, PTL DEF Spec, SessionKeepsRoom
=============================================================================
