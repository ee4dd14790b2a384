--------------------------- MODULE PollWorkProofs ---------------------------
(***************************************************************************)
(* Proofs about PollWork for every number of items and every bound: the    *)
(* loop implements InboundDelivery, and a saved cursor is exact.           *)
(***************************************************************************)
EXTENDS PollWork, TLAPS

\* Was the item handed to a turn, and does the loop count on that?
Dispatched(i) == deliveries[i] > 0
Known(i) == Dispatched(i) /\ i \notin forgotten

\* Items are dispatched after they were handed over; turns are of dispatched
\* items; and what is finished was dispatched or forsaken.
Counts ==
  \A i \in Items :
    /\ Dispatched(i) => i <= handed
    /\ i \in scheduled \cup running => Dispatched(i)
    /\ i \in finished => Dispatched(i) \/ i \in forsaken

\* A cursor covers items that were handed over.
CursorsHanded ==
  (saved # NoCursor => saved <= handed) /\ (cursor # NoCursor => cursor <= handed)

\* The saved cursor of a loop that runs is the one it passes and will drop,
\* unless it could not be dropped.
SavedIsPassed ==
  pc # "off" /\ saved # NoCursor /\ ~stale => toDrop = saved /\ cursor = saved

\* A poll that passes c has the server finish everything the loop knows it
\* dispatched: it is finished, or c covers it.
CoversDispatched(c) ==
  c = NoCursor \/ \A i \in Items : Known(i) => i <= c \/ i \in finished

\* A poll that passes c has the server finish only what was dispatched or
\* forsaken.
CoversOnly(c) ==
  \A i \in Items : i \in Acknowledged(c) => Dispatched(i) \/ i \in forsaken

\* No cursor is exact only when the next poll passes it: a poll that waits may
\* have handed over more.  A stale cursor covers too little.
Exact ==
  /\ ~stale => CoversDispatched(saved)
  /\ saved # NoCursor \/ pc = "off" => CoversOnly(saved)
  /\ pc # "off" => /\ CoversDispatched(cursor)
                   /\ cursor # NoCursor \/ pc \in {"idle", "sent"} => CoversOnly(cursor)

\* Once a poll arrived, everything known to be dispatched is finished; its
\* answer holds the rest of what was handed over, all of it new to the gateway.
Answered ==
  /\ pc \in {"held", "answered"} => \A i \in Items : Known(i) => i \in finished
  /\ pc = "answered" =>
       /\ answerCursor = handed
       /\ \A i \in Items : i <= handed => i \in work \/ i \in finished
       /\ \A i \in Items : i \in work =>
            i <= handed /\ (i \in forgotten \/ (deliveries[i] = 0 /\ i \notin finished))

\* The inductive invariant.
IInv == TypeOK /\ Counts /\ CursorsHanded /\ SavedIsPassed /\ Exact /\ Answered

-----------------------------------------------------------------------------
(* Types.                                                                  *)

\* What a poll acknowledges was handed over.
LEMMA AcknowledgedHanded ==
  ASSUME TypeOK, CursorsHanded
  PROVE  Acknowledged(cursor) \in SUBSET (1 .. handed)
  BY PollAssumption DEF Acknowledged, TypeOK, CursorsHanded, Cursors

\* The types are kept, and with them what the cursors may be.
LEMMA TypeStep ==
  ASSUME TypeOK, CursorsHanded, Counts, [Next]_vars
  PROVE  TypeOK' /\ CursorsHanded'
<1> USE PollAssumption DEF server, disk, loop, turns, ghosts, bounds
<1>0. /\ NoCursor \notin Nat /\ NItems \in Nat /\ arrived \in Nat /\ handed \in Nat
      /\ answerCursor \in Nat /\ 1 .. handed \subseteq 1 .. arrived
  BY DEF TypeOK
<1>w. ASSUME handed' \in handed .. arrived
      PROVE  /\ handed' \in 0 .. arrived /\ work \in SUBSET (1 .. handed')
             /\ answerCursor \in 0 .. handed'
             /\ saved # NoCursor => saved <= handed'
             /\ cursor # NoCursor => cursor <= handed'
  BY <1>0, <1>w DEF TypeOK, CursorsHanded, Cursors
<1>1. CASE SendPoll
  BY <1>1 DEF SendPoll, TypeOK, CursorsHanded
<1>2. CASE PollArrives
  <2>1. finished' \in SUBSET (1 .. arrived)
    BY <1>0, <1>2, AcknowledgedHanded DEF PollArrives, TypeOK
  <2>2. CASE first /\ cursor = NoCursor
    <3>1. handed' = arrived /\ work' \in SUBSET (1 .. handed') /\ answerCursor' \in 0 .. handed'
      BY <1>0, <1>2, <2>2 DEF PollArrives, AnswerWith, Unfinished
    <3>2. handed' \in handed .. arrived
      BY <1>0, <3>1 DEF TypeOK
    <3>3. QED
      BY <1>2, <1>w, <2>1, <2>2, <3>1, <3>2 DEF PollArrives, AnswerWith, TypeOK, CursorsHanded
  <2>3. CASE ~(first /\ cursor = NoCursor)
    BY <1>2, <2>1, <2>3 DEF PollArrives, TypeOK, CursorsHanded
  <2>4. QED
    BY <2>2, <2>3
<1>3. CASE PollAnswers
  <2>1. handed' = arrived /\ work' \in SUBSET (1 .. handed') /\ answerCursor' \in 0 .. handed'
    BY <1>0, <1>3 DEF PollAnswers, AnswerWith, Unfinished
  <2>2. handed' \in handed .. arrived
    BY <1>0, <2>1 DEF TypeOK
  <2>3. QED
    BY <1>3, <1>w, <2>1, <2>2 DEF PollAnswers, AnswerWith, TypeOK, CursorsHanded
<1>4. ASSUME NEW next, Forsaking(next)
      PROVE  /\ handed' \in handed .. arrived /\ forsaken' \in SUBSET Items
  <2>1. handed' \in handed .. arrived
    BY <1>4 DEF Forsaking, TypeOK
  <2>2. 1 .. handed' \subseteq Items
    BY <2>1 DEF TypeOK, Items
  <2>3. QED
    BY <1>4, <2>1, <2>2 DEF Forsaking, TypeOK
<1>5. CASE ReceiveDraining
  <2>1. /\ handed' \in handed .. arrived /\ forsaken' \in SUBSET Items
        /\ 0 \in 0 .. handed'
    BY <1>0, <1>4, <1>5 DEF ReceiveDraining
  <2>2. /\ saved' \in {saved, cursor, NoCursor} /\ cursor' = cursor
        /\ stale' \in BOOLEAN /\ (stale' => saved' # NoCursor)
        /\ badWrites' \in 0 .. MaxBadWrites
    <3>1. cursor' = cursor
      BY <1>5 DEF ReceiveDraining, Leave
    <3>2. CASE cursor = NoCursor
      BY <1>5, <3>1, <3>2 DEF ReceiveDraining, Leave, TypeOK
    <3>3. CASE saved' = cursor /\ stale' = FALSE /\ UNCHANGED badWrites /\ cursor # NoCursor
      BY <3>1, <3>3 DEF TypeOK
    <3>4. ASSUME badWrites < MaxBadWrites, badWrites' = badWrites + 1,
                 saved' \in {saved, NoCursor}, stale' = (stale /\ saved' # NoCursor)
          PROVE  /\ saved' \in {saved, cursor, NoCursor} /\ cursor' = cursor
                 /\ stale' \in BOOLEAN /\ (stale' => saved' # NoCursor)
                 /\ badWrites' \in 0 .. MaxBadWrites
      <4>1. badWrites' \in 0 .. MaxBadWrites
        BY <3>4 DEF TypeOK
      <4>2. stale' \in BOOLEAN /\ (stale' => saved' # NoCursor)
        BY <3>4
      <4>3. QED
        BY <3>1, <3>4, <4>1, <4>2
    <3>5. QED
      BY <1>5, <3>1, <3>2, <3>3, <3>4 DEF ReceiveDraining, Leave, Save
  <2>3. QED
    <3>1. /\ saved' \in Cursors /\ cursor' \in Cursors /\ toDrop' \in Cursors
          /\ CursorsHanded'
      BY <1>5, <1>w, <2>1, <2>2 DEF ReceiveDraining, Cursors, TypeOK, CursorsHanded
    <3>2. QED
      BY <1>5, <1>w, <2>1, <2>2, <3>1 DEF ReceiveDraining, TypeOK
<1>6. CASE Receive
  <2>1. scheduled' \in SUBSET Items
    <3>1. 1 .. handed \subseteq Items
      BY DEF TypeOK, Items
    <3>2. QED
      BY <1>6, <3>1 DEF Receive, TypeOK
  <2>2. deliveries' \in [Items -> 0 .. 2]
    BY <1>6 DEF Receive, TypeOK
  <2>3. /\ saved' \in {saved, NoCursor} /\ toDrop' = NoCursor /\ cursor' = answerCursor
        /\ stale' \in BOOLEAN /\ (stale' => saved' # NoCursor)
        /\ badWrites' \in 0 .. MaxBadWrites
    <3>1. toDrop' = NoCursor /\ cursor' = answerCursor
      BY <1>6 DEF Receive, DropSaved
    <3>2. CASE UNCHANGED <<disk, badWrites>>
      BY <3>1, <3>2 DEF TypeOK
    <3>3. CASE saved' = NoCursor /\ stale' = FALSE /\ UNCHANGED badWrites
      BY <3>1, <3>3 DEF TypeOK
    <3>4. CASE /\ badWrites < MaxBadWrites /\ badWrites' = badWrites + 1
               /\ UNCHANGED saved /\ stale' = (saved # NoCursor)
      BY <3>1, <3>4 DEF TypeOK
    <3>5. QED
      BY <1>6, <3>2, <3>3, <3>4 DEF Receive, DropSaved
  <2>4. answerCursor \in Cursors /\ NoCursor \in Cursors
    BY DEF Cursors, TypeOK, Items
  <2>5. 0 \in 0 .. handed
    BY <1>0
  <2>6. saved' \in Cursors /\ toDrop' \in Cursors /\ cursor' \in Cursors
    BY <2>3, <2>4 DEF TypeOK
  <2>7. CursorsHanded'
    BY <1>6, <2>3 DEF Receive, server, TypeOK, CursorsHanded
  <2>8. QED
    BY <1>6, <2>1, <2>2, <2>3, <2>5, <2>6, <2>7 DEF Receive, TypeOK
<1>7. CASE PollFails
  <2>1. /\ handed' \in handed .. arrived /\ forsaken' \in SUBSET Items
        /\ 0 \in 0 .. handed' /\ faults' \in 0 .. MaxFaults
    BY <1>0, <1>4, <1>7 DEF PollFails, TypeOK
  <2>2. QED
    BY <1>7, <1>w, <2>1 DEF PollFails, TypeOK, CursorsHanded
<1>8. CASE PollRefused
  BY <1>4, <1>8, <1>w DEF PollRefused, TypeOK, CursorsHanded, Cursors
<1>9. CASE WorkArrives
  <2>1. arrived' \in 0 .. NItems /\ 1 .. arrived \subseteq 1 .. arrived' /\ handed \in 0 .. arrived'
    BY <1>0, <1>9 DEF WorkArrives, TypeOK
  <2>2. QED
    BY <1>9, <2>1 DEF WorkArrives, TypeOK, CursorsHanded
<1>10. ASSUME NEW i \in Items, StartTurn(i) \/ EndTurn(i)
       PROVE  TypeOK' /\ CursorsHanded'
  <2>1. CASE StartTurn(i)
    BY <2>1 DEF StartTurn, TypeOK, CursorsHanded
  <2>2. CASE EndTurn(i)
    <3>1. i \in 1 .. arrived
      BY <2>2 DEF EndTurn, Counts, TypeOK, Items
    <3>2. QED
      BY <2>2, <3>1 DEF EndTurn, TypeOK, CursorsHanded
  <2>3. QED
    BY <1>10, <2>1, <2>2
<1>11. CASE Drain \/ Resume
  <2>1. CASE Drain
    <3>1. drains' \in 0 .. MaxDrains
      BY <2>1 DEF Drain, TypeOK
    <3>2. QED
      BY <2>1, <3>1 DEF Drain, TypeOK, CursorsHanded
  <2>2. CASE Resume
    BY <2>2 DEF Resume, TypeOK, CursorsHanded
  <2>3. QED
    BY <1>11, <2>1, <2>2
<1>12. CASE Stop \/ Crash
  <2>1. /\ handed' \in handed .. arrived /\ forsaken' \in SUBSET Items
        /\ NoCursor \in Cursors /\ 0 \in 0 .. handed'
    BY <1>0, <1>4, <1>12 DEF Stop, Crash, ProcessEnds, Cursors
  <2>2. CASE Stop
    BY <1>w, <2>1, <2>2 DEF Stop, CancelPoll, ProcessEnds, TypeOK, CursorsHanded
  <2>3. CASE Crash
    <3>1. crashes' \in 0 .. MaxCrashes
      BY <2>3 DEF Crash, TypeOK
    <3>2. QED
      BY <1>w, <2>1, <2>3, <3>1 DEF Crash, ProcessEnds, TypeOK, CursorsHanded
  <2>4. QED
    BY <1>12, <2>2, <2>3
<1>13. CASE StartLoop
  <2>1. forgotten' \in SUBSET Items
    <3>1. Repeated \subseteq Items
      BY <1>0 DEF Repeated, TypeOK, Items
    <3>2. QED
      BY <1>13, <3>1 DEF StartLoop, TypeOK
  <2>2. QED
    BY <1>13, <2>1 DEF StartLoop, TypeOK, CursorsHanded
<1>14. CASE UNCHANGED vars
  BY <1>14 DEF vars, TypeOK, CursorsHanded
<1>15. QED
  BY <1>1, <1>2, <1>3, <1>5, <1>6, <1>7, <1>8, <1>9, <1>10, <1>11, <1>12, <1>13,
     <1>14 DEF Next, Poll

-----------------------------------------------------------------------------
(* The rest of the invariant, one lemma per kind of step.                  *)

Rest == Counts /\ SavedIsPassed /\ Exact /\ Answered

\* The steps that leave the cursors, the counts and what was handed over alone.
LEMMA QuietStep ==
  ASSUME TypeOK, Rest,
         UNCHANGED <<handed, finished, deliveries, forsaken, forgotten, saved, stale,
                     cursor, toDrop, work, answerCursor>>,
         pc' = pc \/ (pc = "idle" /\ pc' = "sent"),
         scheduled' \subseteq scheduled, running' \subseteq scheduled \cup running
  PROVE  Rest'
<1> USE DEF Rest
<1>1. Counts'
  BY DEF Counts, Dispatched
<1>2. SavedIsPassed'
  BY DEF SavedIsPassed
<1>3. Exact'
  BY DEF Exact, CoversDispatched, CoversOnly, Acknowledged, Known, Dispatched
<1>4. Answered'
  BY DEF Answered, Known, Dispatched
<1>5. QED
  BY <1>1, <1>2, <1>3, <1>4

\* Once the answer of a poll is lost or left, what the next poll passes is
\* exact: with no cursor, everything handed over was dispatched or is forsaken.
LEMMA ForsakeStep ==
  ASSUME TypeOK, CursorsHanded, Rest,
         NEW next, next = IF pc' = "off" THEN saved' ELSE cursor', Forsaking(next),
         pc' \in {"idle", "off"}, UNCHANGED <<finished, deliveries, forgotten>>,
         scheduled' \subseteq scheduled, running' \subseteq running,
         \/ UNCHANGED <<saved, stale>>
         \/ saved' = NoCursor
         \/ saved' = cursor /\ pc # "off",
         pc' = "idle" =>
           /\ cursor' = cursor /\ pc # "off"
           /\ saved' # NoCursor /\ ~stale' => toDrop' = saved' /\ saved' = cursor
  PROVE  Rest'
<1> USE PollAssumption DEF Rest
<1>1. /\ handed' \in handed .. arrived /\ forsaken \subseteq forsaken'
      /\ handed \in Nat /\ arrived \in Nat
      /\ next = NoCursor => \A i \in Items : i <= handed' => Dispatched(i) \/ i \in forsaken'
  <2>1. handed' \in handed .. arrived /\ handed \in Nat /\ arrived \in Nat
    BY DEF Forsaking, TypeOK
  <2>2. \A i \in Items : deliveries[i] = 0 \/ deliveries[i] > 0
    BY DEF TypeOK
  <2>3. \A i \in Items : i <= handed' => i \in 1 .. handed'
    BY <2>1 DEF Items
  <2>4. QED
    BY <2>1, <2>2, <2>3 DEF Forsaking, Dispatched
<1>2. Counts'
  BY <1>1 DEF Counts, Dispatched, Items
<1>3. SavedIsPassed'
  BY DEF SavedIsPassed
<1>4. ASSUME NEW c, CoversDispatched(c) PROVE CoversDispatched(c)'
  BY <1>4 DEF CoversDispatched, Known, Dispatched
<1>5. ASSUME NEW c \in Cursors, c # NoCursor => CoversOnly(c), c # NoCursor \/ c = next
      PROVE  CoversOnly(c)'
  <2>1. CASE c = NoCursor
    BY <1>1, <1>5, <2>1 DEF CoversOnly, Acknowledged, Dispatched
  <2>2. CASE c # NoCursor
    BY <1>1, <1>5, <2>2 DEF CoversOnly, Acknowledged, Dispatched
  <2>3. QED
    BY <2>1, <2>2
<1>6. /\ ~stale' => CoversDispatched(saved)'
      /\ saved' # NoCursor => CoversOnly(saved)'
      /\ pc' = "off" => CoversOnly(saved)'
  <2>1. NoCursor \in Cursors /\ saved \in Cursors /\ cursor \in Cursors
    BY DEF Cursors, TypeOK
  <2>2. CASE UNCHANGED <<saved, stale>>
    BY <1>4, <1>5, <2>1, <2>2 DEF Exact
  <2>3. CASE saved' = NoCursor
    <3>1. CoversDispatched(saved)'
      BY <2>3 DEF CoversDispatched
    <3>2. QED
      BY <1>5, <2>1, <2>3, <3>1
  <2>4. CASE saved' = cursor /\ pc # "off"
    BY <1>4, <1>5, <2>1, <2>4 DEF Exact
  <2>5. QED
    BY <2>2, <2>3, <2>4
<1>7. pc' = "idle" => CoversDispatched(cursor)' /\ CoversOnly(cursor)'
  BY <1>4, <1>5 DEF Exact, TypeOK
<1>8. Exact'
  BY <1>6, <1>7 DEF Exact
<1>9. Answered'
  BY DEF Answered
<1>10. QED
  BY <1>2, <1>3, <1>8, <1>9

\* A poll that arrives finishes what was dispatched or forsaken, and all that
\* is known to be dispatched.
LEMMA ArrivesFinishes ==
  ASSUME TypeOK, CursorsHanded, Rest, PollArrives
  PROVE  /\ \A i \in Items : Known(i) => i \in finished'
         /\ \A i \in Items : i \in finished' => Dispatched(i) \/ i \in forsaken
<1>1. /\ finished' = finished \cup Acknowledged(cursor)
      /\ CoversDispatched(cursor) /\ CoversOnly(cursor)
      /\ handed \in Nat /\ NoCursor \notin Nat /\ cursor \in Cursors /\ NItems \in Nat
  BY PollAssumption DEF PollArrives, Rest, Exact, TypeOK
<1>2. ASSUME NEW i \in Items, Known(i)
      PROVE  i \in finished'
  <2>1. i <= handed /\ i \in Nat /\ i >= 1
    BY <1>1, <1>2 DEF Rest, Counts, Known, Items
  <2>2. CASE cursor = NoCursor
    BY <1>1, <2>1, <2>2 DEF Acknowledged
  <2>3. CASE cursor # NoCursor
    BY <1>1, <1>2, <2>1, <2>3 DEF Acknowledged, CoversDispatched, Cursors
  <2>4. QED
    BY <2>2, <2>3
<1>3. ASSUME NEW i \in Items, i \in finished'
      PROVE  Dispatched(i) \/ i \in forsaken
  BY <1>1, <1>3 DEF CoversOnly, Rest, Counts
<1>4. QED
  BY <1>2, <1>3

\* What is finished, handed over or arrived may grow while nothing dispatched
\* stays unfinished: a poll arrives, or is answered with all unfinished work.
LEMMA AnswerStep ==
  ASSUME TypeOK, CursorsHanded, Rest,
         UNCHANGED <<arrived, deliveries, forsaken, forgotten, saved, stale, cursor, toDrop,
                     turns>>,
         pc # "off", finished \subseteq finished', finished' \in SUBSET (1 .. arrived),
         \A i \in Items : Known(i) => i \in finished',
         \A i \in Items : i \in finished' => Dispatched(i) \/ i \in forsaken,
         \/ pc' = "held" /\ handed' = handed
         \/ AnswerWith(finished')
  PROVE  Rest'
<1> USE PollAssumption DEF Rest, turns
<1>1. /\ handed' \in handed .. arrived /\ handed \in Nat /\ arrived \in Nat
      /\ pc' \in {"held", "answered"} /\ NoCursor \notin Nat
  BY DEF AnswerWith, TypeOK
<1>2. Counts'
  BY <1>1 DEF Counts, Dispatched, Items
<1>3. SavedIsPassed'
  BY <1>1 DEF SavedIsPassed
<1>4. ASSUME NEW c, CoversDispatched(c) PROVE CoversDispatched(c)'
  BY <1>4 DEF CoversDispatched, Known, Dispatched
<1>5. ASSUME NEW c, c # NoCursor, CoversOnly(c) PROVE CoversOnly(c)'
  BY <1>5 DEF CoversOnly, Acknowledged, Dispatched
<1>6. Exact'
  BY <1>1, <1>4, <1>5 DEF Exact
<1>7. Answered'
  <2>1. \A i \in Items : Known(i)' => i \in finished'
    BY DEF Known, Dispatched
  <2>2. ASSUME AnswerWith(finished')
        PROVE  /\ answerCursor' = handed'
               /\ \A i \in Items : i \in work' <=> i <= handed' /\ i \notin finished'
    BY <1>1, <2>2 DEF AnswerWith, Unfinished, Items
  <2>3. \A i \in Items : i \notin finished' => i \in forgotten' \/ deliveries'[i] = 0
    BY <2>1 DEF Known, Dispatched, TypeOK
  <2>4. QED
    BY <2>1, <2>2, <2>3 DEF Answered
<1>8. QED
  BY <1>2, <1>3, <1>6, <1>7

\* The work of an answer is new to the gateway; once dispatched, the cursor
\* covers it.
LEMMA ReceiveStep ==
  ASSUME TypeOK, CursorsHanded, Rest, Receive
  PROVE  /\ Rest'
         /\ \A i \in Items : i \in work =>
              i \in forgotten \/ (deliveries[i] = 0 /\ i \notin finished)
<1> USE PollAssumption DEF Rest
<1>1. /\ pc = "answered" /\ answerCursor = handed /\ handed \in Nat
      /\ \A i \in Items : i <= handed => i \in work \/ i \in finished
      /\ \A i \in Items : i \in work =>
           i <= handed /\ (i \in forgotten \/ (deliveries[i] = 0 /\ i \notin finished))
  BY DEF Receive, Answered, TypeOK
<1>2. /\ UNCHANGED <<handed, finished, forsaken, forgotten, running>> /\ pc' = "idle"
      /\ cursor' = handed /\ scheduled' = scheduled \cup work
  BY <1>1 DEF Receive, server
<1>3. /\ \A i \in Items : Dispatched(i)' <=> i \in work \/ Dispatched(i)
      /\ saved' = NoCursor \/ (stale' /\ saved' = saved)
  <2>1. deliveries \in [Items -> 0 .. 2]
    BY DEF TypeOK
  <2>2. \A i \in Items : Dispatched(i)' <=> i \in work \/ Dispatched(i)
    BY <2>1 DEF Receive, Dispatched
  <2>3. saved' = NoCursor \/ (stale' /\ saved' = saved)
    <3>1. CASE UNCHANGED disk /\ toDrop = NoCursor
      BY <1>1, <3>1 DEF SavedIsPassed, disk
    <3>2. CASE UNCHANGED saved /\ stale' = (saved # NoCursor)
      BY <3>2
    <3>3. QED
      BY <3>1, <3>2 DEF Receive, DropSaved
  <2>4. QED
    BY <2>2, <2>3
<1>4. Counts'
  BY <1>1, <1>2, <1>3 DEF Counts
<1>5. cursor' # NoCursor /\ CoversDispatched(cursor)'
  BY <1>1, <1>2, <1>4 DEF CoversDispatched, Counts, Known
<1>6. CoversOnly(cursor)'
  <2>1. ASSUME NEW i \in Items, i <= handed
        PROVE  Dispatched(i)' \/ i \in forsaken
    BY <1>1, <1>3, <2>1 DEF Counts
  <2>2. QED
    BY <1>2, <1>5, <2>1 DEF CoversOnly, Acknowledged, Items
<1>7. saved' # NoCursor => CoversOnly(saved)'
  BY <1>2, <1>3 DEF Exact, CoversOnly, Acknowledged
<1>8. ~stale' => CoversDispatched(saved)'
  BY <1>3 DEF CoversDispatched
<1>9. Exact'
  BY <1>2, <1>5, <1>6, <1>7, <1>8 DEF Exact
<1>10. SavedIsPassed' /\ Answered'
  BY <1>2, <1>3 DEF SavedIsPassed, Answered
<1>11. QED
  BY <1>1, <1>4, <1>9, <1>10

\* A turn is of a dispatched item, so what its reply finishes was dispatched.
LEMMA EndTurnStep ==
  ASSUME TypeOK, Rest, NEW i \in Items, EndTurn(i)
  PROVE  Rest' /\ Dispatched(i)
<1> USE DEF Rest
<1>1. /\ Dispatched(i) /\ finished' \in {finished, finished \cup {i}}
      /\ running' \subseteq running
      /\ UNCHANGED <<handed, saved, stale, pc, cursor, toDrop, work, answerCursor,
                     scheduled, deliveries, forsaken, forgotten>>
  BY DEF EndTurn, Counts, disk, loop, ghosts
<1>2. Counts'
  BY <1>1 DEF Counts, Dispatched
<1>3. SavedIsPassed' /\ Exact'
  BY <1>1 DEF SavedIsPassed, Exact, CoversDispatched, CoversOnly, Acknowledged, Known,
              Dispatched
<1>4. Answered'
  <2>1. finished \subseteq finished' /\ \A j \in Items : Known(j)' <=> Known(j)
    BY <1>1 DEF Known, Dispatched
  <2>2. ASSUME NEW j \in Items, deliveries[j] = 0, j \notin finished
        PROVE  j \notin finished'
    BY <1>1, <2>2 DEF Dispatched
  <2>3. QED
    BY <1>1, <2>1, <2>2 DEF Answered
<1>5. QED
  BY <1>1, <1>2, <1>3, <1>4

\* A loop starts from the cursor on disk, which is exact but for what it would
\* hand over again when it is stale.
LEMMA StartLoopStep ==
  ASSUME TypeOK, Rest, StartLoop
  PROVE  Rest'
<1> USE PollAssumption DEF Rest
<1>1. /\ UNCHANGED <<handed, finished, deliveries, forsaken, saved, scheduled, running>>
      /\ pc = "off" /\ pc' = "idle" /\ cursor' = saved /\ toDrop' = saved /\ ~stale'
      /\ forgotten \subseteq forgotten' /\ (stale => Repeated \subseteq forgotten')
  BY DEF StartLoop, server, turns
<1>2. Counts' /\ SavedIsPassed' /\ Answered'
  BY <1>1 DEF Counts, SavedIsPassed, Answered, Dispatched
<1>3. CoversDispatched(saved)'
  <2>1. CASE ~stale
    BY <1>1, <2>1 DEF Exact, CoversDispatched, Known, Dispatched
  <2>2. CASE stale
    <3>1. ASSUME NEW i \in Items, Known(i)'
          PROVE  i \in finished'
      <4>1. deliveries[i] > 0 /\ i \notin Repeated
        BY <1>1, <2>2, <3>1 DEF Known, Dispatched
      <4>2. i \in 1 .. handed
        BY <4>1 DEF Counts, Dispatched, Items, TypeOK
      <4>3. QED
        BY <1>1, <4>1, <4>2 DEF Repeated
    <3>2. QED
      BY <3>1 DEF CoversDispatched
  <2>3. QED
    BY <2>1, <2>2
<1>4. CoversOnly(saved)'
  BY <1>1 DEF Exact, CoversOnly, Acknowledged, Dispatched
<1>5. Exact'
  BY <1>1, <1>3, <1>4 DEF Exact, CoversDispatched, CoversOnly
<1>6. QED
  BY <1>2, <1>5

-----------------------------------------------------------------------------
(* The loop implements the promise.                                        *)

\* A step either leaves the promise's variables alone, or delivers, forsakes,
\* forgets or finishes what the promise lets it.
Promised == Delivery!Next \/ UNCHANGED Delivery!vars

\* Every step keeps the invariant and what was promised.
LEMMA LoopStep ==
  ASSUME IInv, [Next]_vars
  PROVE  Rest' /\ Promised
<1> USE DEF server, disk, loop, turns, ghosts, bounds
<1>0. TypeOK /\ CursorsHanded /\ Rest
  BY DEF IInv, Rest
<1>1. ASSUME UNCHANGED <<deliveries, forsaken, forgotten, finished>> PROVE Promised
  BY <1>1 DEF Promised, Delivery!vars
<1>2. ASSUME UNCHANGED <<deliveries, forsaken, forgotten>>, NEW S \in SUBSET Items,
             finished' = finished \cup S,
             \A i \in S : Dispatched(i) \/ i \in forsaken
      PROVE  Promised
  BY <1>2 DEF Promised, Delivery!Next, Delivery!Finish, Dispatched
<1>3. ASSUME NEW next, Forsaking(next), UNCHANGED <<deliveries, forgotten, finished>>
      PROVE  Promised
  <2>1. CASE forsaken' = forsaken
    BY <1>1, <1>3, <2>1
  <2>2. ASSUME forsaken' = forsaken \cup {i \in 1 .. handed' : deliveries[i] = 0}
        PROVE  Promised
    <3>1. {i \in 1 .. handed' : deliveries[i] = 0} \in SUBSET Items
      BY <1>0, <1>3, PollAssumption DEF Forsaking, TypeOK, Items
    <3>2. Delivery!Lose({i \in 1 .. handed' : deliveries[i] = 0}, {})
      BY <1>3, <2>2 DEF Delivery!Lose
    <3>3. QED
      BY <3>1, <3>2 DEF Promised, Delivery!Next
  <2>3. QED
    BY <1>3, <2>1, <2>2 DEF Forsaking
<1>4. CASE SendPoll
  BY <1>0, <1>1, <1>4, QuietStep DEF SendPoll
<1>5. CASE WorkArrives \/ Drain \/ Resume
  BY <1>0, <1>1, <1>5, QuietStep DEF WorkArrives, Drain, Resume
<1>6. ASSUME NEW i \in Items, StartTurn(i)
      PROVE  Rest' /\ Promised
  BY <1>0, <1>1, <1>6, QuietStep DEF StartTurn
<1>7. CASE UNCHANGED vars
  BY <1>0, <1>1, <1>7, QuietStep DEF vars
<1>8. CASE PollArrives
  <2>1. /\ \A i \in Items : Known(i) => i \in finished'
        /\ \A i \in Items : i \in finished' => Dispatched(i) \/ i \in forsaken
    BY <1>0, <1>8, ArrivesFinishes
  <2>2. /\ finished' = finished \cup Acknowledged(cursor)
        /\ Acknowledged(cursor) \in SUBSET (1 .. handed)
        /\ 1 .. handed \subseteq 1 .. arrived /\ 1 .. arrived \subseteq Items
    BY <1>0, <1>8, AcknowledgedHanded, PollAssumption DEF PollArrives, TypeOK, Items
  <2>3. finished' \in SUBSET (1 .. arrived)
    BY <1>0, <2>2 DEF TypeOK
  <2>4. Rest'
    BY <1>0, <1>8, <2>1, <2>2, <2>3, AnswerStep DEF PollArrives
  <2>5. Promised
    BY <1>2, <1>8, <2>1, <2>2 DEF PollArrives
  <2>6. QED
    BY <2>4, <2>5
<1>9. CASE PollAnswers
  <2>1. /\ \A i \in Items : Known(i) => i \in finished
        /\ \A i \in Items : i \in finished => Dispatched(i) \/ i \in forsaken
    BY <1>0, <1>9 DEF Rest, Answered, Counts, PollAnswers
  <2>2. QED
    BY <1>0, <1>1, <1>9, <2>1, AnswerStep DEF PollAnswers, TypeOK
<1>10. CASE Receive
  <2>1. /\ Rest' /\ \A i \in Items : i \in work =>
                       i \in forgotten \/ (deliveries[i] = 0 /\ i \notin finished)
    BY <1>0, <1>10, ReceiveStep
  <2>2. work \in SUBSET Items
    BY <1>0, PollAssumption DEF TypeOK, Items
  <2>3. Delivery!Deliver(work)
    BY <1>10, <2>1, <2>2 DEF Receive, Delivery!Deliver, Delivery!Fresh
  <2>4. QED
    BY <2>1, <2>2, <2>3 DEF Promised, Delivery!Next
<1>11. CASE ReceiveDraining
  <2>1. pc # "off" /\ cursor' = cursor /\ toDrop' = cursor
    BY <1>11 DEF ReceiveDraining, Leave
  <2>2. /\ \/ UNCHANGED <<saved, stale>>
           \/ saved' = NoCursor
           \/ saved' = cursor /\ pc # "off"
        /\ saved' # NoCursor /\ ~stale' => saved' = cursor
    <3>1. CASE cursor = NoCursor
      BY <1>0, <1>11, <2>1, <3>1 DEF ReceiveDraining, Leave, Rest, SavedIsPassed
    <3>2. CASE Save(cursor)
      BY <1>0, <2>1, <3>2 DEF Save, Rest, SavedIsPassed, TypeOK
    <3>3. QED
      BY <1>11, <3>1, <3>2 DEF ReceiveDraining, Leave
  <2>3. /\ UNCHANGED <<finished, deliveries, forgotten, scheduled, running>>
        /\ pc' = "idle" /\ Forsaking(cursor)
    BY <1>11 DEF ReceiveDraining
  <2>4. Rest'
    BY ONLY <1>0, <2>1, <2>2, <2>3, ForsakeStep
  <2>5. QED
    BY <1>3, <2>3, <2>4
<1>12. CASE PollFails
  BY <1>0, <1>3, <1>12, ForsakeStep DEF PollFails, Rest, SavedIsPassed
<1>13. CASE PollRefused
  BY <1>0, <1>3, <1>13, ForsakeStep DEF PollRefused
<1>14. CASE Stop \/ Crash
  BY <1>0, <1>3, <1>14, ForsakeStep DEF Stop, CancelPoll, Crash, ProcessEnds
<1>15. ASSUME NEW i \in Items, EndTurn(i)
       PROVE  Rest' /\ Promised
  <2>1. Rest' /\ Dispatched(i) /\ UNCHANGED <<deliveries, forsaken, forgotten>>
    BY <1>0, <1>15, EndTurnStep DEF EndTurn
  <2>2. CASE finished' = finished
    BY <1>1, <2>1, <2>2
  <2>3. CASE finished' = finished \cup {i}
    <3>1. {i} \in SUBSET Items /\ \A j \in {i} : Dispatched(j) \/ j \in forsaken
      BY <2>1
    <3>2. QED
      BY <1>2, <2>1, <2>3, <3>1
  <2>4. QED
    BY <1>15, <2>1, <2>2, <2>3 DEF EndTurn
<1>16. CASE StartLoop
  <2>1. Rest'
    BY <1>0, <1>16, StartLoopStep
  <2>2. CASE stale
    <3>1. {} \in SUBSET Items /\ Repeated \in SUBSET Items
      BY <1>0, PollAssumption DEF Repeated, TypeOK, Items
    <3>2. Delivery!Lose({}, Repeated)
      BY <1>16, <2>2 DEF StartLoop, Delivery!Lose
    <3>3. QED
      BY <2>1, <3>1, <3>2 DEF Promised, Delivery!Next
  <2>3. CASE ~stale
    BY <1>1, <1>16, <2>1, <2>3 DEF StartLoop
  <2>4. QED
    BY <2>2, <2>3
<1>17. QED
  BY <1>4, <1>5, <1>6, <1>7, <1>8, <1>9, <1>10, <1>11, <1>12, <1>13, <1>14,
     <1>15, <1>16 DEF Next, Poll

\* The invariant holds at the start, before anything arrived.
LEMMA LoopInit == Init => IInv
<1> SUFFICES ASSUME Init PROVE IInv
  OBVIOUS
<1> USE PollAssumption DEF Init
<1>1. TypeOK
  <2>1. deliveries \in [Items -> 0 .. 2]
    OBVIOUS
  <2>2. NoCursor \in Cursors /\ 0 \in 0 .. NItems /\ 0 \in 0 .. 0
    BY DEF Cursors
  <2>3. 0 \in 0 .. MaxFaults /\ 0 \in 0 .. MaxDrains /\ 0 \in 0 .. MaxCrashes
        /\ 0 \in 0 .. MaxBadWrites
    OBVIOUS
  <2>4. QED
    BY <2>1, <2>2, <2>3 DEF TypeOK
<1>2. Counts /\ CursorsHanded /\ SavedIsPassed /\ Answered
  BY DEF Counts, CursorsHanded, SavedIsPassed, Answered, Known, Dispatched
<1>3. Exact
  BY DEF Exact, CoversDispatched, Known, CoversOnly, Acknowledged, Dispatched
<1>4. QED
  BY <1>1, <1>2, <1>3 DEF IInv

\* Every reachable state of the loop satisfies the invariant.
THEOREM LoopInductive == Spec => []IInv
<1>1. IInv /\ [Next]_vars => IInv'
  BY LoopStep, TypeStep DEF IInv, Rest
<1>2. QED
  BY <1>1, LoopInit, PTL DEF Spec

\* The types of the loop: the work of an answer is of what the server handed over,
\* only what arrived is finished, and the loop polls only in a gateway that is up
\* (_poll_loop).
THEOREM LoopTypes == Spec => []TypeOK
<1>1. IInv => TypeOK
  BY DEF IInv
<1>2. QED
  BY <1>1, LoopInductive, PTL

\* The loop implements InboundDelivery: whatever polls fail, gateways drain, stop
\* or crash and saves or drops of the cursor fail, no item is dispatched after it
\* was finished or, but from a cursor that could not be dropped, twice; and none
\* is finished that was neither dispatched nor forsaken.
THEOREM LoopImplementsDelivery == Spec => ImplementsDelivery
<1>1. Init => Delivery!Init
  BY DEF Init, Delivery!Init
<1>2. IInv /\ [Next]_vars => [Delivery!Next]_(Delivery!vars)
  BY LoopStep DEF Promised
<1>3. QED
  BY <1>1, <1>2, LoopInductive, PTL DEF Spec, ImplementsDelivery, Delivery!Spec

\* A saved cursor brings back the work that was left, and none that ran, unless
\* it is one that could not be dropped.
THEOREM SavedIsExact == Spec => []SavedCursorIsExact
<1>1. IInv => SavedCursorIsExact
  <2> SUFFICES ASSUME IInv, pc = "off", saved # NoCursor, NEW i \in 1 .. handed
               PROVE  IF i <= saved THEN deliveries[i] > 0 \/ i \in forsaken
                      ELSE deliveries[i] = 0 \/ i \in finished \/ i \in forgotten \/ stale
    BY DEF SavedCursorIsExact
  <2>1. i \in Items /\ CoversOnly(saved) /\ (~stale => CoversDispatched(saved))
        /\ deliveries[i] \in 0 .. 2
    BY PollAssumption DEF IInv, TypeOK, Items, Exact
  <2>2. CASE i <= saved
    BY <2>1, <2>2, PollAssumption
    DEF CoversOnly, Acknowledged, Dispatched, IInv, TypeOK, Cursors, Items
  <2>3. CASE ~(i <= saved)
    BY <2>1, <2>3 DEF CoversDispatched, Known, Dispatched
  <2>4. QED
    BY <2>2, <2>3
<1>2. QED
  BY <1>1, LoopInductive, PTL
=============================================================================
