------------------------------- MODULE WakeGate -------------------------------
(***************************************************************************)
(* Which messages of a shared channel spend a turn, with several agents in *)
(* the channel: every agent's gateway gets a push for every message, a     *)
(* push may come twice, and each turn may post a reply that is pushed to   *)
(* the others.  The gate is FCMFilamentAdapter._handle_push_message_turn   *)
(* up to its decision, with WakePolicyStore, EngagedThreadStore and the    *)
(* classification of a sender as agent or not, which may need a call.      *)
(* Reactions are events of the same channel, with a gate of their own.     *)
(***************************************************************************)
EXTENDS Naturals, Sequences, FiniteSets, SequencesExt, FiniteSetsExt

CONSTANTS
  Agents, Humans,
  System,         \* the homeserver's system account
  Modes,          \* values of reactive_wake that edits may set
  Naming,         \* do replies of agents name other agents without an @?
  MaxEngaged,     \* EngagedThreadStore._MAX_ENTRIES
  MaxMessages, MaxAgain, MaxPolicies  \* bounds: messages, repeated pushes, edits

Messages == 1 .. MaxMessages
Top      == 0

ASSUME WakeGateAssumption ==
  /\ Agents \cap Humans = {} /\ System \notin Agents \cup Humans
  /\ "mention" \in Modes /\ Modes \subseteq {"mention", "all", "off"} /\ Naming \in BOOLEAN
  /\ MaxEngaged \in Nat \ {0} /\ MaxMessages \in Nat /\ MaxAgain \in Nat
  /\ MaxPolicies \in Nat

VARIABLES
  timeline,  \* the channel: <<[by, thread, how, to], ...>>, to addressed as how; a
             \* reaction is to a message of its thread
  again,     \* repeated pushes that got past the dedupe
  seen,      \* agent -> _seen_set: the messages whose push was taken
  cache,     \* agent -> _sender_is_agent_cache: the senders classified
  policy,    \* agent -> reactive_wake, thread_wake, an emoji in trigger_emojis
  edits,     \* policy edits so far
  eager,     \* agents ever set to wake on all messages or on reactions
  engaged,   \* agent -> engaged_threads.json: thread roots, oldest record first
  task,      \* agent -> message -> where its handling is
  turns      \* agent -> message -> turns spent on it

settings == <<policy, edits, eager>>
vars     == <<timeline, again, seen, cache, settings, engaged, task, turns>>

Posters  == Agents \cup Humans \cup {System}
Policies == [mode : Modes, threads : {"engaged", "off"}, emoji : BOOLEAN]
Root(m)  == IF timeline[m].thread = Top THEN m ELSE timeline[m].thread

-----------------------------------------------------------------------------
(* The parts of the gate.                                                  *)

\* is_agent_mention: the server's flag, or the agent's id or bare name in the
\* body; never @everyone, which addresses nobody here.
Mentioned(a, m) == a \in timeline[m].to

\* Mutant: a sender nobody classified passes for a human.
PassesForHuman(verdict) == verdict # "agent"
\* None fails closed.
IsHuman(verdict) == verdict = "human"

Classification(s) == IF s \in Agents THEN "agent" ELSE "human"

FollowUpPossible(a, m) ==
  /\ ~Mentioned(a, m) /\ timeline[m].thread # Top
  /\ Contains(engaged[a], timeline[m].thread)
  /\ policy[a].threads = "engaged"

ShouldWake(a, addressed) ==
  \/ policy[a].mode = "all"
  \/ policy[a].mode = "mention" /\ addressed

\* Mutant: every admitted wake engages its thread.
EngagesAlways(addressed) == TRUE
Engages(addressed) == addressed

\* Mutant: an eviction takes the newest slot.
RecordKeepingOldest(roots, r) ==
  LET kept == Append(RemoveFirst(roots, r), r)
  IN IF Len(kept) > MaxEngaged THEN SubSeq(kept, 1, MaxEngaged) ELSE kept
\* EngagedThreadStore.record refreshes the thread's slot, evicts the oldest.
RecordThread(roots, r) ==
  LET kept == Append(RemoveFirst(roots, r), r)
  IN IF Len(kept) > MaxEngaged THEN Tail(kept) ELSE kept

ShouldWakeReaction(a) == policy[a].emoji

IsNewEvent(a, m) == m \notin seen[a]

\* The policy is read, and an admitted wake engages its thread.
Decide(a, m, addressed) ==
  IF ShouldWake(a, addressed)
  THEN /\ task' = [task EXCEPT ![a][m] = "turn"]
       /\ turns' = [turns EXCEPT ![a][m] = @ + 1]
       /\ engaged' = IF Engages(addressed)
            THEN [engaged EXCEPT ![a] = RecordThread(@, Root(m))] ELSE engaged
  ELSE /\ task' = [task EXCEPT ![a][m] = "done"]
       /\ UNCHANGED <<turns, engaged>>

Skip(a, m) == task' = [task EXCEPT ![a][m] = "done"] /\ UNCHANGED <<cache, turns, engaged>>

-----------------------------------------------------------------------------
(* The gateway of agent a.                                                 *)

\* Nobody is woken by a reaction of its own, and none engages a thread.
GateReaction(a, m) ==
  IF timeline[m].by # a /\ ShouldWakeReaction(a)
  THEN /\ task' = [task EXCEPT ![a][m] = "turn"]
       /\ turns' = [turns EXCEPT ![a][m] = @ + 1]
       /\ UNCHANGED <<cache, engaged>>
  ELSE Skip(a, m)

\* The gate runs to its decision, or to the call that classifies the sender
\* when neither the cache nor the push (which may carry the fact) does.
GateMessage(a, m) ==
  LET by == timeline[m].by IN
  IF by \in {a, System} THEN Skip(a, m)
  ELSE IF ~FollowUpPossible(a, m)
  THEN Decide(a, m, Mentioned(a, m)) /\ UNCHANGED cache
  ELSE \/ /\ Decide(a, m, IsHuman(Classification(by)))
          /\ cache' = [cache EXCEPT ![a] = @ \cup {by}]
       \/ /\ by \notin cache[a]
          /\ task' = [task EXCEPT ![a][m] = "classifying"]
          /\ UNCHANGED <<cache, turns, engaged>>

Gate(a, m) ==
  IF timeline[m].how = "reaction" THEN GateReaction(a, m) ELSE GateMessage(a, m)

TakePush(a, m) ==
  /\ m \in DOMAIN timeline \ seen[a]
  /\ seen' = [seen EXCEPT ![a] = @ \cup {m}]
  /\ Gate(a, m)
  /\ UNCHANGED <<timeline, again, settings>>

\* The push comes again: over FCM, by poll, or by both.  Nothing comes of it,
\* so that only those the gate would let through need a bound.
PushAgain(a, m) ==
  /\ m \in seen[a] /\ again < MaxAgain
  /\ IF IsNewEvent(a, m) THEN Gate(a, m) /\ again' = again + 1
     ELSE UNCHANGED <<again, cache, task, turns, engaged>>
  /\ UNCHANGED <<timeline, seen, settings>>

\* get_thread names the sender's kind.  Engagement and thread_wake were read
\* before the call; reactive_wake is read now.
Classified(a, m) ==
  /\ task[a][m] = "classifying"
  /\ cache' = [cache EXCEPT ![a] = @ \cup {timeline[m].by}]
  /\ Decide(a, m, IsHuman(Classification(timeline[m].by)))
  /\ UNCHANGED <<timeline, again, seen, settings>>

\* It fails, or holds no message of the sender yet.
Unclassified(a, m) ==
  /\ task[a][m] = "classifying" /\ Decide(a, m, IsHuman("unknown"))
  /\ UNCHANGED <<timeline, again, seen, cache, settings>>

-----------------------------------------------------------------------------
(* The channel.                                                            *)

Posted(by, thread) ==
  /\ Len(timeline) < MaxMessages
  /\ \E how \in {"mention", "reaction"} \cup (IF Naming THEN {"name"} ELSE {}),
        to \in SUBSET (Agents \ {by}) :
       /\ how = "name" => to # {}
       /\ how = "reaction" => to = {} /\ thread # Top
       /\ by = System => to = {} /\ how = "mention"
       /\ timeline' = Append(timeline, [by |-> by, thread |-> thread, how |-> how, to |-> to])

Speak ==
  /\ \E by \in Humans \cup {System} :
     \E thread \in {Top} \cup {m \in DOMAIN timeline : timeline[m].thread = Top} :
       Posted(by, thread)
  /\ UNCHANGED <<again, seen, cache, settings, engaged, task, turns>>

\* The turn ends, with a reply in the message's thread, a reaction, or neither.
EndTurn(a, m) ==
  /\ task[a][m] = "turn" /\ task' = [task EXCEPT ![a][m] = "done"]
  /\ Posted(a, Root(m)) \/ UNCHANGED timeline
  /\ UNCHANGED <<again, seen, cache, settings, engaged, turns>>

\* The principal's edit of the file, from the backchannel or the app: one setting.
SetPolicy(a) ==
  /\ edits < MaxPolicies /\ edits' = edits + 1
  /\ \E p \in Policies, k \in {"mode", "threads", "emoji"} :
       /\ p[k] # policy[a][k] /\ p = [policy[a] EXCEPT ![k] = p[k]]
       /\ policy' = [policy EXCEPT ![a] = p]
       /\ eager' = IF p.mode = "all" \/ p.emoji THEN eager \cup {a} ELSE eager
  /\ UNCHANGED <<timeline, again, seen, cache, engaged, task, turns>>

-----------------------------------------------------------------------------
Init ==
  /\ timeline = <<>> /\ again = 0
  /\ seen = [a \in Agents |-> {}] /\ cache = [a \in Agents |-> {}]
  /\ policy = [a \in Agents |-> [mode |-> "mention", threads |-> "engaged", emoji |-> FALSE]]
  /\ eager = {}
  /\ edits = 0
  /\ engaged = [a \in Agents |-> <<>>]
  /\ task = [a \in Agents |-> [m \in Messages |-> "none"]]
  /\ turns = [a \in Agents |-> [m \in Messages |-> 0]]

Next ==
  \/ Speak
  \/ \E a \in Agents :
       \/ SetPolicy(a)
       \/ \E m \in Messages :
            \/ TakePush(a, m) \/ PushAgain(a, m) \/ Classified(a, m)
            \/ Unclassified(a, m) \/ EndTurn(a, m)

Spec == Init /\ [][Next]_vars

-----------------------------------------------------------------------------
\* The variables stay in their types, and the engaged threads in their bound.
TypeOK ==
  /\ timeline \in Seq([by : Posters, thread : Messages \cup {Top},
                       how : {"mention", "name", "reaction"}, to : SUBSET Agents])
  /\ seen \in [Agents -> SUBSET DOMAIN timeline]
  /\ cache \in [Agents -> SUBSET Posters] /\ policy \in [Agents -> Policies]
  /\ eager \subseteq Agents
  /\ \A a \in Agents : engaged[a] \in Seq(DOMAIN timeline) /\ Len(engaged[a]) <= MaxEngaged
  /\ task \in [Agents -> [Messages -> {"none", "classifying", "turn", "done"}]]
  /\ turns \in [Agents -> [Messages -> Nat]]

\* The turns of a, each as its message and its number among those spent on it.
TurnsOf(a) == UNION {{m} \X (1 .. turns[a][m]) : m \in Messages}

\* The messages that humans posted, or that address a.
Asking(a) ==
  {m \in DOMAIN timeline : /\ timeline[m].how # "reaction"
                           /\ timeline[m].by \in Humans \/ a \in timeline[m].to}

\* No agent storm: whatever the agents answer to whom, an agent that was never
\* set to wake on all messages, or on reactions, spends at most one turn per human
\* message and one per message of another agent that addresses it; without new
\* ones, all its turns die out, however eager the others are.
NoStorm == \A a \in Agents \ eager : Cardinality(TurnsOf(a)) <= Cardinality(Asking(a))

TurnRoots(a) ==
  {Root(m) : m \in {n \in DOMAIN timeline : turns[a][n] > 0 /\ a \in timeline[n].to}}

\* The engaged threads are the local record of past mention wakes: never a
\* thread in which no message that addressed the agent spent a turn, and none of
\* those is missing before the store is full.
EngagedByMention ==
  \A a \in Agents :
    /\ ToSet(engaged[a]) \subseteq TurnRoots(a)
    /\ Len(engaged[a]) = Min({MaxEngaged, Cardinality(TurnRoots(a))})

\* An eviction never takes the thread a turn just engaged: a human's reply to a
\* fresh turn finds the agent engaged.
FreshTurnEngaged ==
  [][\A a \in Agents : \A m \in Messages :
       (turns'[a][m] > turns[a][m] /\ a \in timeline[m].to) => Contains(engaged'[a], Root(m))]_vars

\* What WakePolicyStore says: agents never wake each other without an explicit
\* @-mention.  A reply that merely names an agent wakes it.
AgentsWakeByMentionOnly ==
  \A a \in Agents : \A m \in DOMAIN timeline :
    (turns[a][m] > 0 /\ timeline[m].by \in Agents)
      => timeline[m].how = "mention" /\ a \in timeline[m].to
=============================================================================
