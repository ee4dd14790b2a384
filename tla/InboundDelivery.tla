--------------------------- MODULE InboundDelivery ---------------------------
(***************************************************************************)
(* What both transports promise of each inbound message, whatever the      *)
(* polls, redeliveries, drains, restarts and crashes in between: it is     *)
(* handed over at most once, and never after the server counted it as      *)
(* done, unless its id was forgotten; and the server counts it as done     *)
(* only after it was handed over, or after it fell into one of the gaps    *)
(* the transport does not cover (forsaken).                                *)
(***************************************************************************)
EXTENDS Naturals

CONSTANT Items

VARIABLES deliveries,   \* how often each item was handed over (2: more than once)
          forsaken,     \* items that nothing can bring back
          forgotten,    \* items the gateway has no record of having received
          finished      \* items the server counts as done

vars == <<deliveries, forsaken, forgotten, finished>>

Init ==
  /\ deliveries = [i \in Items |-> 0]
  /\ forsaken = {} /\ forgotten = {} /\ finished = {}

\* New to the gateway: never handed over and not done, or else forgotten.
Fresh(i) == i \in forgotten \/ (deliveries[i] = 0 /\ i \notin finished)

\* A gateway hands over items that are new to it.
Deliver(S) ==
  /\ \A i \in S : Fresh(i)
  /\ deliveries' = [i \in Items |-> IF i \in S THEN (IF deliveries[i] = 0 THEN 1 ELSE 2)
                                    ELSE deliveries[i]]
  /\ UNCHANGED <<forsaken, forgotten, finished>>

\* A gateway loses what would bring back the items of S, which it did not hand
\* over, and the ids of those of F.
Lose(S, F) ==
  /\ \A i \in S : deliveries[i] = 0 \/ i \in forgotten
  /\ forsaken' = forsaken \cup S /\ forgotten' = forgotten \cup F
  /\ UNCHANGED <<deliveries, finished>>

\* The server finishes items that were handed over or forsaken.
Finish(S) ==
  /\ \A i \in S : deliveries[i] > 0 \/ i \in forsaken
  /\ finished' = finished \cup S
  /\ UNCHANGED <<deliveries, forsaken, forgotten>>

Next == \E S \in SUBSET Items : Deliver(S) \/ Finish(S) \/ \E F \in SUBSET Items : Lose(S, F)

Spec == Init /\ [][Next]_vars
=============================================================================
