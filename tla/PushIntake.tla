------------------------------ MODULE PushIntake ------------------------------
(***************************************************************************)
(* Inbound pushes over FCM: Google's MCS redelivers a push until it knows  *)
(* it was received, by a selective ack or because a login names it.  The   *)
(* gateway records the id of each push on disk before it hands the push    *)
(* over (credentials.ReceivedPersistentIds, FilamentFCMClient), so that a  *)
(* push whose handling restarts the gateway is not handled again.          *)
(*                                                                         *)
(* Pushes are numbered in the order they are sent; Login stands for MCS'   *)
(* answer to a login, the first message of every connection.               *)
(***************************************************************************)
EXTENDS Naturals, Sequences, FiniteSets, SequencesExt

CONSTANTS
  NPushes,      \* pushes sent in this history
  Restarters,   \* those that are a /restart command
  MaxIds,       \* MAX_RECEIVED_PERSISTENT_IDS
  MaxLosses,    \* bound on lost connections
  MaxCrashes,   \* bound on crashes of the gateway
  MaxBadWrites  \* bound on failed writes of the file

Pushes == 1 .. NPushes
Login  == 0

ASSUME PushAssumption ==
  /\ NPushes \in Nat /\ MaxIds \in Nat \ {0}
  /\ MaxLosses \in Nat /\ MaxCrashes \in Nat /\ MaxBadWrites \in Nat
  /\ Restarters \subseteq Pushes

VARIABLES
  issued,      \* pushes sent so far
  unacked,     \* MCS: pushes it does not know to be received
  link,        \* "down", "login" (request on the wire) or "up"
  wire,        \* messages on their way to the gateway, in order
  acks,        \* selective acks on their way to MCS
  file,        \* received_persistent_ids.json; empty, absent and torn read alike
  up,          \* does a gateway run?
  ids,         \* ReceivedPersistentIds._ids, oldest first
  told,        \* FcmPushClient.persistent_ids, named in the next login
  pc,          \* "idle", or the push in hand is at "write", "dispatch" or "ack"
  current,     \* the push in hand
  restarting,  \* a /restart is being carried out
  handled,     \* how often each push was handed over (2: more than once)
  forgotten,   \* received pushes whose id is gone: trimmed, or never on disk
  dropped,     \* recorded pushes that a crash kept from being handed over
  losses, crashes, badWrites

mcs     == <<issued, unacked>>
line    == <<link, wire, acks>>
gateway == <<up, ids, told, pc, current, restarting>>
ghosts  == <<handled, forgotten, dropped>>
bounds  == <<losses, crashes, badWrites>>
vars    == <<mcs, line, file, gateway, ghosts, bounds>>

-----------------------------------------------------------------------------
(* MCS and the connection.                                                 *)

Send ==
  /\ issued < NPushes /\ issued' = issued + 1
  /\ unacked' = unacked \cup {issued'}
  /\ wire' = IF link = "up" THEN Append(wire, issued') ELSE wire
  /\ UNCHANGED <<link, acks, file, gateway, ghosts, bounds>>

\* The pushes of S, first sent first.
InOrder(S) == CHOOSE s \in SetToSeqs(S) : \A i, j \in DOMAIN s : i < j => s[i] < s[j]

\* MCS takes a login: the ids it names need no redelivery, all others are sent
\* again in order.
ServeLogin ==
  /\ link = "login" /\ link' = "up"
  /\ unacked' = unacked \ told
  /\ wire' = <<Login>> \o InOrder(unacked')
  /\ UNCHANGED <<issued, acks, file, gateway, ghosts, bounds>>

AckArrives(p) ==
  /\ p \in acks /\ acks' = acks \ {p} /\ unacked' = unacked \ {p}
  /\ UNCHANGED <<issued, link, wire, file, gateway, ghosts, bounds>>

Hangup == link' = "down" /\ wire' = <<>> /\ acks' = {}

LoseLink ==
  /\ link # "down" /\ losses < MaxLosses /\ losses' = losses + 1
  /\ Hangup
  /\ UNCHANGED <<mcs, file, gateway, ghosts, crashes, badWrites>>

-----------------------------------------------------------------------------
(* The gateway.                                                            *)

\* Mutant: a trim of the wrong end.
Oldest(s) == SubSeq(s, 1, IF Len(s) > MaxIds THEN MaxIds ELSE Len(s))
\* The most recent ids, which is all that _ids and the file keep.
Recent(s) == SubSeq(s, IF Len(s) > MaxIds THEN Len(s) - MaxIds + 1 ELSE 1, Len(s))

\* A gateway connects: it loads the ids and seeds the push client with them.
Start ==
  /\ ~up /\ up' = TRUE
  /\ ids' = Recent(file) /\ told' = ToSet(ids')
  /\ UNCHANGED <<mcs, line, file, pc, current, restarting, ghosts, bounds>>

\* _login, at the start and after every reset of the connection.
SendLogin ==
  /\ up /\ pc = "idle" /\ link = "down" /\ link' = "login"
  /\ UNCHANGED <<mcs, wire, acks, file, gateway, ghosts, bounds>>

\* The login was answered: its ids need not be named again.
ReceiveLogin ==
  /\ pc = "idle" /\ wire # <<>> /\ Head(wire) = Login
  /\ wire' = Tail(wire) /\ told' = {}
  /\ UNCHANGED <<mcs, link, acks, file, up, ids, pc, current, restarting, ghosts,
                 bounds>>

\* What record() does to the ids and, first of all, to the file: opening it for
\* writing truncates it.
Record(p) ==
  /\ ids' = Recent(Append(ids, p))
  /\ forgotten' = forgotten \cup (ToSet(ids) \ ToSet(ids'))
  /\ file' = <<>>

\* A push arrives.  One seen before is not handed over, only acked again.
AckEarly(p) == acks' = acks \cup {p}
AckLater(p) == UNCHANGED acks
ReceivePush ==
  /\ pc = "idle" /\ wire # <<>> /\ Head(wire) # Login
  /\ wire' = Tail(wire) /\ current' = Head(wire)
  /\ AckLater(current')
  /\ IF current' \in ToSet(ids)
     THEN pc' = "ack" /\ UNCHANGED <<ids, file, forgotten>>
     ELSE pc' = "write" /\ Record(current')
  /\ UNCHANGED <<mcs, link, up, told, restarting, handled, dropped, bounds>>

\* _write_json completes, or fails and leaves what was written so far.
SavedBeforeAppend == SubSeq(ids, 1, Len(ids) - 1)
Saved == ids
Write ==
  /\ pc = "write" /\ pc' = "dispatch"
  /\ file' = Saved
  /\ UNCHANGED <<mcs, line, up, ids, told, current, restarting, ghosts, bounds>>

WriteFails ==
  /\ pc = "write" /\ pc' = "dispatch"
  /\ badWrites < MaxBadWrites /\ badWrites' = badWrites + 1
  /\ UNCHANGED <<mcs, line, file, up, ids, told, current, restarting, ghosts,
                 losses, crashes>>

\* The push is handed to its handler, which for a /restart ends the process.
Dispatch ==
  /\ pc = "dispatch" /\ pc' = "ack"
  /\ handled' = [handled EXCEPT ![current] = IF @ = 0 THEN 1 ELSE 2]
  /\ restarting' = (restarting \/ current \in Restarters)
  /\ UNCHANGED <<mcs, line, file, up, ids, told, current, forgotten, dropped,
                 bounds>>

\* Back in the push client: the id is kept for the next login, and acked.
Ack ==
  /\ pc = "ack" /\ pc' = "idle"
  /\ told' = told \cup {current}
  /\ acks' = IF link = "up" THEN acks \cup {current} ELSE acks
  /\ UNCHANGED <<mcs, link, wire, file, up, ids, current, restarting, ghosts,
                 bounds>>

\* The gateway ends; the ids that are not on disk are gone.
Ends ==
  /\ Hangup
  /\ up' = FALSE /\ ids' = <<>> /\ told' = {} /\ pc' = "idle" /\ restarting' = FALSE
  /\ forgotten' = forgotten \cup (ToSet(ids) \ ToSet(file))
  /\ dropped' = IF pc = "dispatch" /\ current \in ToSet(file)
                THEN dropped \cup {current} ELSE dropped
  /\ UNCHANGED <<mcs, file, current, handled, losses, badWrites>>

\* A restart ends it between two steps of the event loop, before the ack of the
\* /restart itself was sent or after.
Restart ==
  /\ up /\ restarting /\ pc \in {"idle", "ack"}
  /\ Ends /\ UNCHANGED crashes

Crash ==
  /\ up /\ crashes < MaxCrashes /\ crashes' = crashes + 1
  /\ Ends

-----------------------------------------------------------------------------
Init ==
  /\ issued = 0 /\ unacked = {}
  /\ link = "down" /\ wire = <<>> /\ acks = {}
  /\ file = <<>>
  /\ up = FALSE /\ ids = <<>> /\ told = {} /\ pc = "idle" /\ current = Login
  /\ restarting = FALSE
  /\ handled = [p \in Pushes |-> 0] /\ forgotten = {} /\ dropped = {}
  /\ losses = 0 /\ crashes = 0 /\ badWrites = 0

Handle == ReceiveLogin \/ ReceivePush \/ Write \/ WriteFails \/ Dispatch \/ Ack

Next ==
  \/ Send \/ ServeLogin \/ LoseLink \/ \E p \in Pushes : AckArrives(p)
  \/ Start \/ SendLogin \/ Handle \/ Restart \/ Crash

Spec == Init /\ [][Next]_vars

\* The listener reads and handles what arrives, reconnects, and MCS answers; a
\* restart is carried out, and a gateway that ended is started again.
Fairness ==
  /\ WF_vars(Start) /\ WF_vars(Restart)
  /\ WF_vars(SendLogin) /\ WF_vars(ServeLogin) /\ WF_vars(Handle)

FairSpec == Spec /\ Fairness

-----------------------------------------------------------------------------
(* Properties.                                                             *)

\* Every variable stays in its type; the ids stay within their bound and free
\* of duplicates, and something arrives only at a running gateway.
TypeOK ==
  /\ issued \in 0 .. NPushes /\ unacked \subseteq 1 .. issued
  /\ link \in {"down", "login", "up"}
  /\ wire \in Seq(0 .. issued) /\ acks \subseteq 1 .. issued
  /\ link # "down" => up
  /\ file \in Seq(1 .. issued) /\ ids \in Seq(1 .. issued)
  /\ Len(file) <= MaxIds /\ Len(ids) <= MaxIds /\ IsInjective(ids)
  /\ up \in BOOLEAN /\ restarting \in BOOLEAN
  /\ told \subseteq 1 .. issued
  /\ pc \in {"idle", "write", "dispatch", "ack"} /\ current \in 0 .. issued
  /\ handled \in [Pushes -> 0 .. 2]
  /\ forgotten \subseteq 1 .. issued /\ dropped \subseteq 1 .. issued
  /\ losses \in 0 .. MaxLosses /\ crashes \in 0 .. MaxCrashes
  /\ badWrites \in 0 .. MaxBadWrites

\* No push is handled twice, across redeliveries, restarts and crashes, unless
\* its id was trimmed from the tail or was not on disk when a gateway ended
\* (the two defenses the ReceivedPersistentIds docstring lists).
HandledOnce == \A p \in Pushes : handled[p] > 1 => p \in forgotten

\* MCS gives up redelivering a push only once it was handled, or once its id
\* was on disk when a crash came before its handler.
GivenUpOnlyWhenHandled ==
  \A p \in (1 .. issued) \ unacked : handled[p] > 0 \/ p \in dropped

\* The promise, of the pushes: MCS finishes one when it stops redelivering it.
Delivery == INSTANCE InboundDelivery
  WITH Items <- Pushes, deliveries <- handled, forsaken <- dropped, forgotten <- forgotten,
       finished <- (1 .. issued) \ unacked

\* The intake implements InboundDelivery: across redeliveries, lost connections,
\* failed writes, restarts and crashes no push is handed over twice, or after MCS
\* gave it up, unless its id was forgotten; and MCS gives none up that was
\* neither handed over nor dropped (the ReceivedPersistentIds docstring and the
\* order of _on_notification and the ack in the push client).
ImplementsDelivery == Delivery!Spec

\* A /restart does not restart the gateway for ever: the loop the
\* ReceivedPersistentIds docstring describes does not happen.
RestartsEnd == <>[](~restarting)

\* Every push is handled in the end, or was recorded when a crash came.
EventuallyHandled ==
  \A p \in Pushes : (issued >= p) ~> (handled[p] > 0 \/ p \in dropped)

\* What the ReceivedPersistentIds docstring says of record(): the id is on disk
\* before its push is dispatched, so it survives a handler that ends the process.
DurableBeforeDispatch == pc = "dispatch" => current \in ToSet(file)
=============================================================================
