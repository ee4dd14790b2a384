------------------------------ MODULE FirstHello ------------------------------
(***************************************************************************)
(* The agent's first hello in its backchannel.  The server asks for one in *)
(* its answer to initialize until the agent has posted there; the adapter  *)
(* dispatches a turn to say it (FCMFilamentAdapter._maybe_greet), posts    *)
(* the turn's final reply (_send_hello), and posts a canned hello when the *)
(* turn fails or takes too long (_hello_fallback, _post_canned_hello).     *)
(*                                                                         *)
(* Both ways share the flag _hello_delivered, set before a post and taken  *)
(* back when the post fails.  The flag is the adapter's: a reconnect makes *)
(* a new adapter, and disconnect() stops neither the old one's turn nor    *)
(* its fallback, whose posts open a new HTTP client.                       *)
(***************************************************************************)
EXTENDS Naturals, FiniteSets

CONSTANTS
  MaxResends,     \* times Hermes sends a reply again after a retryable failure
  MaxRejects,     \* bound on posts that fail
  MaxLost,        \* bound on posts that land and count as failed
  MaxReconnects,  \* bound on connects of a process after its first
  MaxCrashes      \* bound on crashes of the gateway

ASSUME FirstHelloAssumption ==
  {MaxResends, MaxRejects, MaxLost, MaxReconnects, MaxCrashes} \subseteq Nat

\* One adapter per connect, in the order of the connects.
Adapters == 1 .. 1 + MaxReconnects + MaxCrashes
Posters  == {"reply", "canned"}

VARIABLES
  said,       \* hellos in the backchannel, by the adapter that posted them
  phase,      \* "new", "init" (initialize answered), "on" (past _maybe_greet),
              \* "gone" (disconnected, its tasks running) or "dead"
  pending,    \* _greet_pending
  delivered,  \* _hello_delivered
  fallback,   \* _hello_fallback: "none", "waiting" or "done"
  posting,    \* who waits for the answer to a post
  turn,       \* the hello turn may still reply
  resends,    \* replies Hermes is to send again
  rejects, losts, reconnects, crashes

flags  == <<phase, pending, fallback, turn>>
bounds == <<rejects, losts, reconnects, crashes>>
vars   == <<said, flags, delivered, posting, resends, bounds>>

Silent    == \A a \in Adapters : said[a] = 0
Connected == {a \in Adapters : phase[a] \in {"init", "on"}}
Running   == {a \in Adapters : phase[a] \in {"on", "gone"}}

-----------------------------------------------------------------------------
(* Connecting.                                                             *)

\* The server appends the directive while the agent has not posted.
Initialize(a) ==
  /\ Connected = {} /\ phase[a] = "new" /\ \A b \in 1 .. a - 1 : phase[b] # "new"
  /\ phase' = [phase EXCEPT ![a] = "init"] /\ pending' = [pending EXCEPT ![a] = Silent]
  /\ UNCHANGED <<said, delivered, fallback, posting, turn, resends, bounds>>

\* _maybe_greet: the turn is dispatched and its fallback starts to wait.
MaybeGreet(a) ==
  /\ phase[a] = "init" /\ phase' = [phase EXCEPT ![a] = "on"]
  /\ pending' = [pending EXCEPT ![a] = FALSE]
  /\ turn' = [turn EXCEPT ![a] = pending[a]]
  /\ fallback' = [fallback EXCEPT ![a] = IF pending[a] THEN "waiting" ELSE "none"]
  /\ UNCHANGED <<said, delivered, posting, resends, bounds>>

-----------------------------------------------------------------------------
(* The two ways to post.                                                   *)

StartPost(a, who) ==
  /\ delivered' = [delivered EXCEPT ![a] = TRUE]
  /\ posting' = [posting EXCEPT ![a] = @ \cup {who}]

PostsNothing == UNCHANGED <<delivered, posting>>

\* The hello turn's final reply, once or sent again by Hermes.
TurnReplies(a) ==
  /\ a \in Running
  /\ \/ turn[a] /\ turn' = [turn EXCEPT ![a] = FALSE] /\ UNCHANGED resends
     \/ resends[a] > 0 /\ resends' = [resends EXCEPT ![a] = @ - 1] /\ UNCHANGED turn
  /\ IF delivered[a] THEN PostsNothing ELSE StartPost(a, "reply")
  /\ UNCHANGED <<said, phase, pending, fallback, bounds>>

\* Mutant: the last look at the flag is missing.
CannedAnyway(a) == TRUE
CannedWanted(a) == ~delivered[a]

PostCanned(a) == IF CannedWanted(a) THEN StartPost(a, "canned") ELSE PostsNothing

\* A turn that failed outright is not waited for.
TurnFails(a) ==
  /\ a \in Running /\ turn[a] /\ turn' = [turn EXCEPT ![a] = FALSE]
  /\ "canned" \notin posting[a] /\ PostCanned(a)
  /\ UNCHANGED <<said, phase, pending, fallback, resends, bounds>>

EndsWaiting(a) ==
  /\ a \in Running /\ fallback[a] = "waiting"
  /\ fallback' = [fallback EXCEPT ![a] = "done"]
  /\ UNCHANGED <<said, phase, pending, turn, resends, bounds>>

\* Looked at every half second until _HELLO_TIMEOUT_S.
FallbackSees(a) == delivered[a] /\ PostsNothing /\ EndsWaiting(a)

\* Mutant: wait for a turn that has not answered.
TimedOutWhenIdle(a) == ~turn[a]
TimedOut(a) == TRUE

FallbackTimesOut(a) ==
  TimedOut(a) /\ "canned" \notin posting[a] /\ PostCanned(a) /\ EndsWaiting(a)

Answered(a, who) ==
  /\ who \in posting[a] /\ posting' = [posting EXCEPT ![a] = @ \ {who}]
  /\ UNCHANGED <<flags, reconnects, crashes>>

PostLands(a, who) ==
  /\ Answered(a, who) /\ said' = [said EXCEPT ![a] = @ + 1]
  /\ UNCHANGED <<delivered, resends, rejects, losts>>

\* A failed reply is reported as retryable: Hermes may send it again.
Resent(a) ==
  \/ UNCHANGED resends
  \/ rejects + losts < MaxResends /\ resends' = [resends EXCEPT ![a] = @ + 1]

\* A failed post takes the flag back.
Failed(a, who) ==
  /\ Answered(a, who) /\ delivered' = [delivered EXCEPT ![a] = FALSE]
  /\ IF who = "reply" THEN Resent(a) ELSE UNCHANGED resends

PostRejected(a, who) ==
  /\ rejects < MaxRejects /\ rejects' = rejects + 1
  /\ Failed(a, who) /\ UNCHANGED <<said, losts>>

AnswerLost(a, who) ==
  /\ losts < MaxLost /\ losts' = losts + 1
  /\ Failed(a, who) /\ said' = [said EXCEPT ![a] = @ + 1] /\ UNCHANGED rejects

-----------------------------------------------------------------------------
\* disconnect() closes the client under the adapter's posts: one on the wire
\* fails, landed or not.
Reconnect(a) ==
  /\ phase[a] = "on" /\ reconnects < MaxReconnects /\ reconnects' = reconnects + 1
  /\ phase' = [phase EXCEPT ![a] = "gone"] /\ posting' = [posting EXCEPT ![a] = {}]
  /\ delivered' = [delivered EXCEPT ![a] = @ /\ posting[a] = {}]
  /\ IF "reply" \in posting[a] THEN Resent(a) ELSE UNCHANGED resends
  /\ \E landed \in IF posting[a] = {} THEN {0} ELSE {0, 1} :
       said' = [said EXCEPT ![a] = @ + landed] /\ losts' = losts + landed
  /\ UNCHANGED <<pending, fallback, turn, rejects, crashes>>

\* The process dies with its adapters; a post on the wire lands or is cut.
Crash ==
  /\ Connected # {} /\ crashes < MaxCrashes /\ crashes' = crashes + 1
  /\ \E landing \in SUBSET {a \in Running : posting[a] # {}} :
       said' = [a \in Adapters |-> IF a \in landing THEN said[a] + 1 ELSE said[a]]
  /\ phase' = [a \in Adapters |-> IF a \in Running \cup Connected THEN "dead" ELSE phase[a]]
  /\ posting' = [a \in Adapters |-> {}]
  /\ UNCHANGED <<pending, delivered, fallback, turn, resends, rejects, losts, reconnects>>

-----------------------------------------------------------------------------
Init ==
  /\ said = [a \in Adapters |-> 0] /\ phase = [a \in Adapters |-> "new"]
  /\ pending = [a \in Adapters |-> FALSE] /\ delivered = [a \in Adapters |-> FALSE]
  /\ fallback = [a \in Adapters |-> "none"] /\ posting = [a \in Adapters |-> {}]
  /\ turn = [a \in Adapters |-> FALSE] /\ resends = [a \in Adapters |-> 0]
  /\ rejects = 0 /\ losts = 0 /\ reconnects = 0 /\ crashes = 0

Next ==
  \/ \E a \in Adapters :
       \/ Initialize(a) \/ MaybeGreet(a) \/ TurnReplies(a) \/ TurnFails(a)
       \/ FallbackSees(a) \/ FallbackTimesOut(a) \/ Reconnect(a)
       \/ \E who \in Posters :
            PostLands(a, who) \/ PostRejected(a, who) \/ AnswerLost(a, who)
  \/ Crash

Spec == Init /\ [][Next]_vars

\* The gateway connects, the fallback's sleep ends, a post is answered.
FairSpec ==
  /\ Spec
  /\ \A a \in Adapters :
       /\ WF_vars(Initialize(a)) /\ WF_vars(MaybeGreet(a))
       /\ WF_vars(FallbackSees(a) \/ FallbackTimesOut(a))
       /\ \A who \in Posters : WF_vars(PostLands(a, who))

-----------------------------------------------------------------------------
\* The variables stay in their types, one adapter is connected, and an adapter
\* has one post on the wire, with the flag up.
TypeOK ==
  /\ said \in [Adapters -> Nat]
  /\ phase \in [Adapters -> {"new", "init", "on", "gone", "dead"}]
  /\ {pending, delivered, turn} \subseteq [Adapters -> BOOLEAN]
  /\ fallback \in [Adapters -> {"none", "waiting", "done"}]
  /\ posting \in [Adapters -> SUBSET Posters] /\ resends \in [Adapters -> 0 .. MaxResends]
  /\ Cardinality(Connected) <= 1
  /\ \A a \in Adapters : posting[a] # {} =>
       a \in Running /\ delivered[a] /\ Cardinality(posting[a]) = 1

\* Whichever of the reply, its retry, the failed turn and the deadline comes
\* first, an adapter says one hello, but for posts that landed and were counted
\* as failed.
OneHelloEach == \A a \in Adapters : said[a] <= 1 + losts

\* The app's connect screen waits for the hello: an agent that was asked for one
\* says it, whatever its turn does, through crashes, lost answers and reconnects,
\* unless the server rejects one: that waits for the next connect.
HelloArrives == (\E a \in Connected : pending[a]) ~> (~Silent \/ rejects > 0)

\* What _send_hello says: the principal sees exactly one hello.  A post whose
\* answer is lost counts as failed, and is followed by another.
ExactlyOneHello == \A a \in Adapters : said[a] <= 1

\* What _maybe_greet says: the server's gate sees to it that the agent never
\* greets twice.  The old adapter's hello comes after the new one read the gate.
NeverDoubleGreets ==
  losts = 0 => \A a, b \in Adapters : said[a] > 0 /\ said[b] > 0 => a = b
=============================================================================
