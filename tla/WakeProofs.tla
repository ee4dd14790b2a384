------------------------------ MODULE WakeProofs ------------------------------
(***************************************************************************)
(* Proofs about a wake of a shared channel.  WakeGate, for any number of   *)
(* agents, humans, messages and policy edits: agents that were not set to  *)
(* answer everything start no storm, and the engaged threads are exactly   *)
(* the record of the mention wakes that the store's bound leaves.          *)
(* SeenHistory, for any number of senders, messages, flips, expiries and   *)
(* reads: a mark hides nothing from the session it speaks for, and a wake  *)
(* starts with a session that holds the history it read.                   *)
(***************************************************************************)
EXTENDS WakeGate, SeenHistory, FiniteSetTheorems, SequenceTheorems,
        WellFoundedInduction, TLAPS

Events == [by : Posters, thread : Messages \cup {Top},
           how : {"mention", "name", "reaction"}, to : SUBSET Agents]

\* The channel: a message is in a thread that is there, and a reaction addresses
\* nobody.
Channel ==
  /\ timeline \in Seq(Events) /\ Len(timeline) <= MaxMessages
  /\ \A m \in DOMAIN timeline :
       /\ timeline[m].thread \in {Top} \cup DOMAIN timeline
       /\ timeline[m].how = "reaction" => timeline[m].to = {}

\* The types of what the agents keep.
AgentTypes ==
  /\ seen \in [Agents -> SUBSET DOMAIN timeline] /\ cache \in [Agents -> SUBSET Posters]
  /\ policy \in [Agents -> Policies] /\ eager \subseteq Agents
  /\ task \in [Agents -> [Messages -> {"none", "classifying", "turn", "done"}]]
  /\ turns \in [Agents -> [Messages -> Nat]]

\* Nothing was done about a message whose push did not come, no turn was spent
\* while its sender is being classified, and none is spent twice.
OneTurn ==
  \A a \in Agents, m \in Messages :
    /\ turns[a][m] <= 1
    /\ m \notin seen[a] => task[a][m] = "none" /\ turns[a][m] = 0
    /\ task[a][m] = "classifying" => turns[a][m] = 0

\* Only a reply in a thread that engaged the agent waits for its sender's kind.
Classifying ==
  \A a \in Agents, m \in Messages :
    task[a][m] = "classifying" =>
      /\ m \in DOMAIN timeline /\ timeline[m].how # "reaction"
      /\ timeline[m].by \notin {a, System} /\ a \notin timeline[m].to
      /\ Root(m) \in TurnRoots(a)

\* An agent that is not eager has no eager policy, and its turns were asked for.
TurnsAsked ==
  \A a \in Agents \ eager :
    /\ policy[a].mode # "all" /\ ~policy[a].emoji
    /\ \A m \in Messages : turns[a][m] > 0 => m \in Asking(a)

\* The store holds no thread twice, and every engaged thread unless it is full.
Kept(roots, among) ==
  /\ roots \in Seq(DOMAIN timeline) /\ Len(roots) <= MaxEngaged
  /\ \A i, j \in 1 .. Len(roots) : roots[i] = roots[j] => i = j
  /\ ToSet(roots) \subseteq among
  /\ Len(roots) = MaxEngaged \/ among \subseteq ToSet(roots)

EngagedKept == \A a \in Agents : Kept(engaged[a], TurnRoots(a))

\* The inductive invariant.
GateInv ==
  /\ Channel /\ AgentTypes /\ DOMAIN engaged = Agents
  /\ OneTurn /\ Classifying /\ TurnsAsked /\ EngagedKept

-----------------------------------------------------------------------------
(* The store of engaged threads.                                           *)

\* Taking a thread out of the store leaves the others in their order.
LEMMA TakenOut ==
  ASSUME NEW S, NEW s \in Seq(S), NEW e,
         \A i, j \in 1 .. Len(s) : s[i] = s[j] => i = j
  PROVE  LET k == RemoveFirst(s, e)
         IN  /\ k \in Seq(S) /\ Len(k) <= Len(s) /\ Len(s) <= Len(k) + 1
             /\ Len(k) = Len(s) => e \notin ToSet(s)
             /\ \A i, j \in 1 .. Len(k) : k[i] = k[j] => i = j
             /\ ToSet(k) = ToSet(s) \ {e}
<1> DEFINE k == RemoveFirst(s, e)
<1>1. Len(s) \in Nat /\ DOMAIN s = 1 .. Len(s) /\ \A i \in 1 .. Len(s) : s[i] \in S
  BY LenProperties
<1>2. CASE ~\E i \in 1 .. Len(s) : s[i] = e
  <2>1. k = s /\ e \notin ToSet(s)
    BY <1>1, <1>2 DEF RemoveFirst, ToSet
  <2>2. QED
    BY <1>1, <2>1
<1>3. CASE \E i \in 1 .. Len(s) : s[i] = e
  <2>1. PICK p \in 1 .. Len(s) : s[p] = e
    BY <1>3
  <2>2. SelectInSeq(s, LAMBDA v : v = e) = p
    <3>1. {i \in 1 .. Len(s) : s[i] = e} = {p}
      BY <2>1
    <3>2. Min({p}) = p
      BY <1>1, <2>1 DEF Min
    <3>3. QED
      BY <3>1, <3>2 DEF SelectInSeq
  <2>3. k = SubSeq(s, 1, p - 1) \o SubSeq(s, p + 1, Len(s))
    BY <1>3, <2>2 DEF RemoveFirst, RemoveAt
  <2> DEFINE l == SubSeq(s, 1, p - 1)
             r == SubSeq(s, p + 1, Len(s))
  <2>4. /\ p \in Int /\ p - 1 \in Int /\ p + 1 \in Int /\ Len(s) \in Int
        /\ 1 <= p /\ p <= Len(s)
    BY <1>1, <2>1
  <2>5. l \in Seq(S) /\ Len(l) = p - 1 /\ \A i \in 1 .. p - 1 : l[i] = s[i]
    <3>1. \A i \in 1 .. p - 1 : s[i] \in S
      BY <1>1, <2>1
    <3>2. QED
      BY <1>1, <2>1, <2>4, <3>1, SubSeqProperties
  <2>6. r \in Seq(S) /\ Len(r) = Len(s) - p /\ \A i \in 1 .. Len(s) - p : r[i] = s[p + i]
    <3>1. \A i \in p + 1 .. Len(s) : s[i] \in S
      BY <1>1, <2>1
    <3>2. /\ r \in Seq(S) /\ Len(r) = IF p + 1 <= Len(s) THEN Len(s) - (p + 1) + 1 ELSE 0
          /\ \A i \in 1 .. Len(s) - (p + 1) + 1 : r[i] = s[p + 1 + i - 1]
      BY <2>4, <3>1, SubSeqProperties
    <3>3. Len(s) - (p + 1) + 1 = Len(s) - p /\ (p + 1 <= Len(s) \/ Len(s) - p = 0)
      BY <2>4
    <3>4. \A i \in 1 .. Len(s) - p : p + 1 + i - 1 = p + i
      BY <1>1, <2>1
    <3> HIDE DEF r
    <3>5. QED
      BY <3>2, <3>3, <3>4
  <2> HIDE DEF l, r
  <2>7. /\ k \in Seq(S) /\ Len(k) = Len(s) - 1
        /\ \A i \in 1 .. Len(s) - 1 : k[i] = IF i < p THEN s[i] ELSE s[i + 1]
    <3> HIDE DEF k
    <3>1. /\ l \o r \in Seq(S) /\ Len(l \o r) = Len(l) + Len(r)
          /\ \A i \in 1 .. Len(l) + Len(r) : (l \o r)[i] = IF i <= Len(l) THEN l[i] ELSE r[i - Len(l)]
      <4>1. l \in Seq(S) /\ r \in Seq(S)
        BY <2>5, <2>6
      <4>2. QED
        BY <4>1, ConcatProperties
    <3>2. k = l \o r
      BY <2>3 DEF l, r
    <3>3. Len(l) = p - 1 /\ Len(l) + Len(r) = Len(s) - 1
      BY <1>1, <2>1, <2>5, <2>6
    <3>4. ASSUME NEW i \in 1 .. Len(s) - 1
          PROVE  k[i] = IF i < p THEN s[i] ELSE s[i + 1]
      <4>1. k[i] = IF i <= p - 1 THEN l[i] ELSE r[i - (p - 1)]
        BY <3>1, <3>2, <3>3
      <4>2. CASE i < p
        <5>1. i \in 1 .. p - 1
          BY <1>1, <2>1, <4>2
        <5>2. QED
          BY <2>5, <4>1, <4>2, <5>1
      <4>3. CASE ~(i < p)
        <5>1. i - (p - 1) \in 1 .. Len(s) - p /\ p + (i - (p - 1)) = i + 1 /\ ~(i <= p - 1)
          BY <1>1, <2>1, <4>3
        <5>2. r[i - (p - 1)] = s[p + (i - (p - 1))]
          BY <2>6, <5>1
        <5>3. QED
          BY <4>1, <4>3, <5>1, <5>2
      <4>4. QED
        BY <4>2, <4>3
    <3>5. QED
      BY <3>1, <3>2, <3>3, <3>4
  <2> HIDE DEF k
  <2>8. \A i, j \in 1 .. Len(k) : k[i] = k[j] => i = j
    BY <1>1, <2>1, <2>7
  <2>9. ASSUME NEW i \in 1 .. Len(k)
        PROVE  k[i] \in ToSet(s) \ {e}
    <3>1. PICK j \in 1 .. Len(s) : j # p /\ k[i] = s[j]
      <4>1. CASE i < p
        <5>1. i \in 1 .. Len(s) /\ i # p /\ k[i] = s[i]
          BY <1>1, <2>1, <2>7, <4>1
        <5>2. QED
          BY <5>1
      <4>2. CASE ~(i < p)
        <5>1. i + 1 \in 1 .. Len(s) /\ i + 1 # p /\ k[i] = s[i + 1]
          BY <1>1, <2>1, <2>7, <4>2
        <5>2. QED
          BY <5>1
      <4>3. QED
        BY <4>1, <4>2
    <3>2. s[j] # e
      BY <2>1, <3>1
    <3>3. QED
      BY <1>1, <3>1, <3>2 DEF ToSet
  <2>10. ASSUME NEW x \in ToSet(s), x # e
         PROVE  \E i \in 1 .. Len(k) : k[i] = x
    <3>1. PICK j \in 1 .. Len(s) : s[j] = x
      BY <1>1, <2>10 DEF ToSet
    <3>2. CASE j < p
      <4>1. j \in 1 .. Len(k) /\ k[j] = x
        BY <1>1, <2>1, <2>7, <3>1, <3>2
      <4>2. QED
        BY <4>1
    <3>3. CASE j > p
      <4>1. j - 1 \in 1 .. Len(k) /\ k[j - 1] = x
        BY <1>1, <2>1, <2>7, <3>1, <3>3
      <4>2. QED
        BY <4>1
    <3>4. QED
      BY <1>1, <2>1, <2>10, <3>1, <3>2, <3>3
  <2>11. ToSet(k) = ToSet(s) \ {e}
    <3>1. DOMAIN k = 1 .. Len(k)
      BY <2>7, LenProperties
    <3>2. ToSet(k) \subseteq ToSet(s) \ {e}
      <4>1. \A x \in ToSet(k) : \E i \in 1 .. Len(k) : x = k[i]
        BY <3>1 DEF ToSet
      <4>2. QED
        BY <2>9, <4>1
    <3>3. ToSet(s) \ {e} \subseteq ToSet(k)
      <4>1. \A i \in 1 .. Len(k) : k[i] \in ToSet(k)
        BY <3>1 DEF ToSet
      <4>2. QED
        BY <2>10, <4>1
    <3>4. QED
      BY <3>2, <3>3
  <2>12. Len(k) <= Len(s) /\ Len(s) <= Len(k) + 1 /\ Len(k) # Len(s)
    <3>1. Len(s) \in Nat /\ Len(k) = Len(s) - 1
      BY <1>1, <2>7
    <3>2. QED
      BY <3>1
  <2>13. QED
    BY <2>7, <2>8, <2>11, <2>12 DEF k
<1>4. QED
  BY <1>2, <1>3

\* What recording a thread leaves in the store: the thread, and of the others
\* all, or as many as its bound.
LEMMA Recorded ==
  ASSUME NEW S, NEW roots \in Seq(S), NEW r \in S, Len(roots) <= MaxEngaged,
         \A i, j \in 1 .. Len(roots) : roots[i] = roots[j] => i = j
  PROVE  LET k == RecordThread(roots, r)
         IN  /\ k \in Seq(S) /\ Len(k) <= MaxEngaged /\ Len(k) >= Len(roots)
             /\ \A i, j \in 1 .. Len(k) : k[i] = k[j] => i = j
             /\ \E i \in 1 .. Len(k) : k[i] = r
             /\ ToSet(k) \subseteq ToSet(roots) \cup {r}
             /\ Len(k) = MaxEngaged \/ ToSet(k) = ToSet(roots) \cup {r}
<1> DEFINE rest == RemoveFirst(roots, r)
           kept == Append(rest, r)
           k    == RecordThread(roots, r)
<1>1. /\ rest \in Seq(S) /\ Len(rest) <= Len(roots) /\ Len(roots) <= Len(rest) + 1
      /\ \A i, j \in 1 .. Len(rest) : rest[i] = rest[j] => i = j
      /\ ToSet(rest) = ToSet(roots) \ {r}
  BY TakenOut
<1>2. /\ Len(rest) \in Nat /\ Len(roots) \in Nat /\ MaxEngaged \in Nat \ {0}
      /\ DOMAIN rest = 1 .. Len(rest)
  BY <1>1, LenProperties, WakeGateAssumption
<1>3. \A i \in 1 .. Len(rest) : rest[i] # r
  BY <1>1, <1>2 DEF ToSet
<1> HIDE DEF rest
<1>4. /\ kept \in Seq(S) /\ kept # << >> /\ Len(kept) = Len(rest) + 1
      /\ \A i \in 1 .. Len(rest) : kept[i] = rest[i]
      /\ kept[Len(rest) + 1] = r
  BY <1>1, AppendProperties
<1>5. k = IF Len(kept) > MaxEngaged THEN Tail(kept) ELSE kept
  BY DEF RecordThread, rest
<1> HIDE DEF kept, k
<1>6. /\ DOMAIN kept = 1 .. Len(kept) /\ Len(kept) \in Nat
      /\ \A i, j \in 1 .. Len(kept) : kept[i] = kept[j] => i = j
  BY <1>1, <1>2, <1>3, <1>4, LenProperties
<1>7. ToSet(kept) = ToSet(roots) \cup {r}
  <2>1. \A i \in 1 .. Len(kept) : i \in 1 .. Len(rest) \/ i = Len(rest) + 1
    BY <1>2, <1>4
  <2>2. \A i \in 1 .. Len(rest) : i \in 1 .. Len(kept)
    BY <1>2, <1>4
  <2>3. Len(rest) + 1 \in 1 .. Len(kept)
    BY <1>2, <1>4
  <2>4. ToSet(kept) = ToSet(rest) \cup {r}
    BY <1>2, <1>4, <1>6, <2>1, <2>2, <2>3 DEF ToSet
  <2>5. QED
    BY <1>1, <2>4
<1>8. CASE Len(kept) <= MaxEngaged
  <2>1. k = kept
    <3>1. Len(kept) \in Nat /\ MaxEngaged \in Nat
      BY <1>2, <1>6
    <3>2. QED
      BY <1>5, <1>8, <3>1
  <2>2. kept[Len(kept)] = r /\ Len(kept) \in 1 .. Len(kept)
    BY <1>2, <1>4
  <2>3. Len(kept) >= Len(roots)
    BY <1>1, <1>2, <1>4
  <2>4. QED
    BY <1>4, <1>6, <1>7, <1>8, <2>1, <2>2, <2>3 DEF k
<1>9. CASE Len(kept) > MaxEngaged
  <2>1. k = Tail(kept)
    BY <1>5, <1>9
  <2>2. /\ k \in Seq(S) /\ Len(k) = Len(kept) - 1
        /\ \A i \in 1 .. Len(k) : k[i] = kept[i + 1]
    BY <1>4, <2>1, HeadTailProperties
  <2>3. Len(k) = MaxEngaged /\ DOMAIN k = 1 .. Len(k)
    <3>1. /\ Len(kept) = Len(rest) + 1 /\ Len(rest) \in Nat /\ Len(rest) <= Len(roots)
          /\ Len(roots) \in Nat /\ MaxEngaged \in Nat /\ Len(k) = Len(kept) - 1
      BY <1>1, <1>2, <1>4, <2>2
    <3>2. Len(k) = MaxEngaged
      BY <1>9, <3>1
    <3>3. DOMAIN k = 1 .. Len(k)
      BY <2>2, LenProperties
    <3>4. QED
      BY <3>2, <3>3
  <2>4. \A i, j \in 1 .. Len(k) : k[i] = k[j] => i = j
    BY <1>2, <1>6, <2>2, <2>3
  <2>5. Len(k) \in 1 .. Len(k) /\ k[Len(k)] = r
    BY <1>2, <1>4, <2>2, <2>3
  <2>6. ToSet(k) \subseteq ToSet(kept)
    <3>1. \A i \in 1 .. Len(k) : i + 1 \in 1 .. Len(kept)
      BY <1>2, <1>6, <2>2, <2>3
    <3>2. DOMAIN kept = 1 .. Len(kept) /\ DOMAIN k = 1 .. Len(k)
      BY <1>6, <2>3
    <3>3. \A i \in DOMAIN k : i + 1 \in DOMAIN kept /\ k[i] = kept[i + 1]
      BY <2>2, <3>1, <3>2
    <3>4. QED
      BY <3>3 DEF ToSet
  <2>7. Len(k) <= MaxEngaged /\ Len(k) >= Len(roots)
    BY <1>2, <2>3
  <2>8. QED
    BY <1>7, <2>2, <2>3, <2>4, <2>5, <2>6, <2>7 DEF k
<1>10. QED
  BY <1>2, <1>6, <1>8, <1>9

-----------------------------------------------------------------------------
(* The channel and the turns spent in it.                                  *)

\* A message of the channel, and the root of its thread.
LEMMA InChannel ==
  ASSUME Channel, NEW m \in DOMAIN timeline
  PROVE  /\ DOMAIN timeline = 1 .. Len(timeline) /\ DOMAIN timeline \subseteq Messages
         /\ m \in Messages /\ m # Top /\ timeline[m] \in Events /\ Root(m) \in DOMAIN timeline
<1>1. /\ Len(timeline) \in Nat /\ DOMAIN timeline = 1 .. Len(timeline)
      /\ \A i \in 1 .. Len(timeline) : timeline[i] \in Events
  BY LenProperties DEF Channel
<1>2. MaxMessages \in Nat /\ Len(timeline) <= MaxMessages
  BY WakeGateAssumption DEF Channel
<1>3. DOMAIN timeline \subseteq Messages /\ m # Top
  BY <1>1, <1>2 DEF Messages, Top
<1>4. Root(m) \in DOMAIN timeline
  BY DEF Channel, Root
<1>5. QED
  BY <1>1, <1>3, <1>4

\* One more turn on a message.
LEMMA TurnCounted ==
  ASSUME Channel, AgentTypes, NEW a \in Agents, NEW m \in DOMAIN timeline,
         turns' = [turns EXCEPT ![a][m] = @ + 1], UNCHANGED timeline
  PROVE  /\ turns' \in [Agents -> [Messages -> Nat]] /\ turns'[a][m] = turns[a][m] + 1
         /\ \A b \in Agents, n \in Messages : <<b, n>> # <<a, m>> => turns'[b][n] = turns[b][n]
         /\ \A b \in Agents \ {a} : TurnRoots(b)' = TurnRoots(b)
         /\ TurnRoots(a)' = TurnRoots(a) \cup (IF a \in timeline[m].to THEN {Root(m)} ELSE {})
<1>1. m \in Messages /\ DOMAIN timeline \subseteq Messages
  BY InChannel
<1>2. /\ turns \in [Agents -> [Messages -> Nat]] /\ turns[a] \in [Messages -> Nat]
      /\ turns[a][m] \in Nat
  BY <1>1 DEF AgentTypes
<1>3. /\ turns' \in [Agents -> [Messages -> Nat]] /\ turns'[a][m] = turns[a][m] + 1
      /\ \A b \in Agents, n \in Messages : <<b, n>> # <<a, m>> => turns'[b][n] = turns[b][n]
  BY <1>1, <1>2
<1>4. \A n \in DOMAIN timeline : Root(n)' = Root(n)
  BY DEF Root
<1>5. \A b \in Agents \ {a} : TurnRoots(b)' = TurnRoots(b)
  BY <1>1, <1>3, <1>4 DEF TurnRoots
<1>6. {n \in DOMAIN timeline : turns'[a][n] > 0 /\ a \in timeline[n].to}
        = {n \in DOMAIN timeline : turns[a][n] > 0 /\ a \in timeline[n].to}
            \cup (IF a \in timeline[m].to THEN {m} ELSE {})
  <2>1. turns'[a][m] > 0
    BY <1>2, <1>3
  <2>2. \A n \in DOMAIN timeline \ {m} : turns'[a][n] = turns[a][n]
    BY <1>1, <1>3
  <2>3. QED
    BY <2>1, <2>2
<1>7. TurnRoots(a)' = TurnRoots(a) \cup (IF a \in timeline[m].to THEN {Root(m)} ELSE {})
  BY <1>4, <1>6 DEF TurnRoots
<1>8. QED
  BY <1>3, <1>5, <1>7

\* The marks and the messages taken by a step, on one message of one agent.
Takes(a, m, state) ==
  /\ task' = [task EXCEPT ![a][m] = state]
  /\ seen' \in [Agents -> SUBSET DOMAIN timeline] /\ cache' \in [Agents -> SUBSET Posters]
  /\ m \in seen'[a] /\ \A b \in Agents : seen[b] \subseteq seen'[b]
  /\ UNCHANGED <<timeline, settings>>

\* A turn is spent on a message, and engages its thread if it addresses the agent.
LEMMA TurnSpent ==
  ASSUME GateInv, NEW a \in Agents, NEW m \in DOMAIN timeline, Takes(a, m, "turn"),
         turns[a][m] = 0, turns' = [turns EXCEPT ![a][m] = @ + 1],
         a \notin eager => m \in Asking(a),
         \/ a \notin timeline[m].to /\ UNCHANGED engaged
         \/ /\ a \in timeline[m].to \/ Root(m) \in TurnRoots(a)
            /\ engaged' = [engaged EXCEPT ![a] = RecordThread(@, Root(m))]
  PROVE  GateInv'
<1> USE DEF GateInv, Takes, settings
<1>1. /\ m \in Messages /\ DOMAIN timeline \subseteq Messages /\ Root(m) \in DOMAIN timeline
  BY InChannel
<1>2. /\ turns' \in [Agents -> [Messages -> Nat]] /\ turns'[a][m] = 1
      /\ \A b \in Agents, n \in Messages : <<b, n>> # <<a, m>> => turns'[b][n] = turns[b][n]
      /\ \A b \in Agents \ {a} : TurnRoots(b)' = TurnRoots(b)
      /\ TurnRoots(a)' = TurnRoots(a) \cup (IF a \in timeline[m].to THEN {Root(m)} ELSE {})
  <2>1. Channel /\ AgentTypes /\ UNCHANGED timeline
    OBVIOUS
  <2> HIDE DEF GateInv, Takes
  <2>2. /\ turns' \in [Agents -> [Messages -> Nat]] /\ turns'[a][m] = turns[a][m] + 1
        /\ \A b \in Agents, n \in Messages : <<b, n>> # <<a, m>> => turns'[b][n] = turns[b][n]
        /\ \A b \in Agents \ {a} : TurnRoots(b)' = TurnRoots(b)
        /\ TurnRoots(a)' = TurnRoots(a) \cup (IF a \in timeline[m].to THEN {Root(m)} ELSE {})
    BY <2>1, TurnCounted
  <2>3. turns'[a][m] = 1
    BY <2>2
  <2>4. QED
    BY <2>2, <2>3
<1>3. /\ task' \in [Agents -> [Messages -> {"none", "classifying", "turn", "done"}]]
      /\ task'[a][m] = "turn"
      /\ \A b \in Agents, n \in Messages : <<b, n>> # <<a, m>> => task'[b][n] = task[b][n]
  BY <1>1 DEF AgentTypes
<1>4. Channel' /\ AgentTypes'
  BY <1>2, <1>3 DEF Channel, AgentTypes
<1>5. OneTurn'
  <2> SUFFICES ASSUME NEW b \in Agents, NEW n \in Messages
               PROVE  /\ turns'[b][n] <= 1
                      /\ n \notin seen'[b] => task'[b][n] = "none" /\ turns'[b][n] = 0
                      /\ task'[b][n] = "classifying" => turns'[b][n] = 0
    BY DEF OneTurn
  <2>1. CASE b = a /\ n = m
    BY <1>2, <1>3, <2>1
  <2>2. CASE <<b, n>> # <<a, m>>
    BY <1>2, <1>3, <2>2 DEF OneTurn
  <2>3. QED
    BY <2>1, <2>2
<1>6. Classifying'
  <2> SUFFICES ASSUME NEW b \in Agents, NEW n \in Messages, task'[b][n] = "classifying"
               PROVE  /\ n \in DOMAIN timeline /\ timeline[n].how # "reaction"
                      /\ timeline[n].by \notin {b, System} /\ b \notin timeline[n].to
                      /\ Root(n)' \in TurnRoots(b)'
    BY DEF Classifying
  <2>1. task[b][n] = "classifying"
    BY <1>3
  <2>2. Root(n) \in TurnRoots(b) /\ Root(n)' = Root(n) /\ TurnRoots(b) \subseteq TurnRoots(b)'
    BY <1>2, <2>1 DEF Classifying, Root
  <2>3. QED
    BY <2>1, <2>2 DEF Classifying
<1>7. TurnsAsked'
  <2>1. \A b \in Agents : Asking(b)' = Asking(b)
    BY DEF Asking
  <2>2. ASSUME NEW b \in Agents \ eager, NEW n \in Messages, turns'[b][n] > 0
        PROVE  n \in Asking(b)
    <3>1. CASE b = a /\ n = m
      BY <3>1, <2>2
    <3>2. CASE <<b, n>> # <<a, m>>
      BY <1>2, <2>2, <3>2 DEF TurnsAsked
    <3>3. QED
      BY <3>1, <3>2
  <2>3. QED
    BY <2>1, <2>2 DEF TurnsAsked
<1>8. EngagedKept' /\ DOMAIN engaged' = Agents
  <2>1. Kept(engaged[a], TurnRoots(a)) /\ DOMAIN engaged = Agents
    BY DEF EngagedKept
  <2>2. CASE a \notin timeline[m].to /\ UNCHANGED engaged
    BY <1>2, <2>1, <2>2 DEF EngagedKept, Kept
  <2>3. CASE /\ a \in timeline[m].to \/ Root(m) \in TurnRoots(a)
             /\ engaged' = [engaged EXCEPT ![a] = RecordThread(@, Root(m))]
    <3> DEFINE old == engaged[a]
               new == RecordThread(old, Root(m))
    <3>1. /\ engaged'[a] = new /\ \A b \in Agents \ {a} : engaged'[b] = engaged[b]
          /\ DOMAIN engaged' = Agents
      BY <2>1, <2>3
    <3>2. /\ old \in Seq(DOMAIN timeline) /\ Len(old) <= MaxEngaged
          /\ \A i, j \in 1 .. Len(old) : old[i] = old[j] => i = j
          /\ ToSet(old) \subseteq TurnRoots(a)
          /\ Len(old) = MaxEngaged \/ TurnRoots(a) \subseteq ToSet(old)
      BY <2>1 DEF Kept
    <3> HIDE DEF old
    <3>3. /\ new \in Seq(DOMAIN timeline) /\ Len(new) <= MaxEngaged /\ Len(new) >= Len(old)
          /\ \A i, j \in 1 .. Len(new) : new[i] = new[j] => i = j
          /\ ToSet(new) \subseteq ToSet(old) \cup {Root(m)}
          /\ Len(new) = MaxEngaged \/ ToSet(new) = ToSet(old) \cup {Root(m)}
      <4> HIDE DEF GateInv, Takes
      <4>1. Root(m) \in DOMAIN timeline
        BY <1>1
      <4>2. QED
        BY <3>2, <4>1, Recorded
    <3> HIDE DEF new
    <3>4. TurnRoots(a)' = TurnRoots(a) \cup {Root(m)}
      BY <1>2, <2>3
    <3>5. Len(new) = MaxEngaged \/ TurnRoots(a)' \subseteq ToSet(new)
      <4>1. CASE Len(old) = MaxEngaged
        <5>1. Len(new) \in Nat /\ MaxEngaged \in Nat
          BY <3>3, LenProperties, WakeGateAssumption
        <5>2. QED
          BY <3>3, <4>1, <5>1
      <4>2. CASE TurnRoots(a) \subseteq ToSet(old)
        BY <3>3, <3>4, <4>2
      <4>3. QED
        BY <3>2, <4>1, <4>2
    <3>6. Kept(engaged[a], TurnRoots(a))'
      BY <3>1, <3>2, <3>3, <3>4, <3>5 DEF Kept
    <3>7. \A b \in Agents \ {a} : Kept(engaged[b], TurnRoots(b))'
      BY <1>2, <3>1 DEF EngagedKept, Kept
    <3>8. QED
      BY <3>1, <3>6, <3>7 DEF EngagedKept
  <2>4. QED
    BY <2>2, <2>3
<1>9. QED
  BY <1>4, <1>5, <1>6, <1>7, <1>8

\* A message is passed over, waits for its sender's kind, or its turn ends.
LEMMA TaskMoved ==
  ASSUME GateInv, NEW a \in Agents, NEW m \in DOMAIN timeline,
         NEW state \in {"classifying", "done"}, Takes(a, m, state), UNCHANGED <<turns, engaged>>,
         state = "classifying" => /\ turns[a][m] = 0 /\ timeline[m].how # "reaction"
                                  /\ timeline[m].by \notin {a, System}
                                  /\ a \notin timeline[m].to /\ Root(m) \in TurnRoots(a)
  PROVE  GateInv'
<1> USE DEF GateInv, Takes, settings
<1>1. m \in Messages
  BY InChannel
<1>2. /\ task' \in [Agents -> [Messages -> {"none", "classifying", "turn", "done"}]]
      /\ task'[a][m] = state
      /\ \A b \in Agents, n \in Messages : <<b, n>> # <<a, m>> => task'[b][n] = task[b][n]
  BY <1>1 DEF AgentTypes
<1>3. Channel' /\ AgentTypes'
  BY <1>2 DEF Channel, AgentTypes
<1>4. OneTurn'
  <2> SUFFICES ASSUME NEW b \in Agents, NEW n \in Messages
               PROVE  /\ turns[b][n] <= 1
                      /\ n \notin seen'[b] => task'[b][n] = "none" /\ turns[b][n] = 0
                      /\ task'[b][n] = "classifying" => turns[b][n] = 0
    BY DEF OneTurn
  <2>1. CASE b = a /\ n = m
    BY <1>2, <2>1 DEF OneTurn
  <2>2. CASE <<b, n>> # <<a, m>>
    BY <1>2, <2>2 DEF OneTurn
  <2>3. QED
    BY <2>1, <2>2
<1>5. Classifying'
  <2>1. \A b \in Agents : TurnRoots(b)' = TurnRoots(b)
    BY DEF TurnRoots, Root
  <2>2. \A n \in DOMAIN timeline : Root(n)' = Root(n)
    BY DEF Root
  <2> SUFFICES ASSUME NEW b \in Agents, NEW n \in Messages, task'[b][n] = "classifying"
               PROVE  /\ n \in DOMAIN timeline /\ timeline[n].how # "reaction"
                      /\ timeline[n].by \notin {b, System} /\ b \notin timeline[n].to
                      /\ Root(n)' \in TurnRoots(b)'
    BY DEF Classifying
  <2>3. CASE b = a /\ n = m
    BY <1>2, <2>1, <2>2, <2>3
  <2>4. CASE <<b, n>> # <<a, m>>
    BY <1>2, <2>1, <2>2, <2>4 DEF Classifying
  <2>5. QED
    BY <2>3, <2>4
<1>6. TurnsAsked'
  BY DEF TurnsAsked, Asking
<1>7. EngagedKept'
  BY DEF EngagedKept, Kept, TurnRoots, Root
<1>8. QED
  BY <1>3, <1>4, <1>5, <1>6, <1>7

\* The gate decides: a turn is spent when the policy wakes the agent.
LEMMA Decided ==
  ASSUME GateInv, NEW a \in Agents, NEW m \in DOMAIN timeline, NEW addressed \in BOOLEAN,
         Decide(a, m, addressed), UNCHANGED <<timeline, settings>>,
         seen' \in [Agents -> SUBSET DOMAIN timeline], cache' \in [Agents -> SUBSET Posters],
         m \in seen'[a], \A b \in Agents : seen[b] \subseteq seen'[b],
         turns[a][m] = 0, timeline[m].how # "reaction",
         a \in timeline[m].to => addressed,
         addressed => \/ a \in timeline[m].to
                      \/ timeline[m].by \in Humans /\ Root(m) \in TurnRoots(a)
  PROVE  GateInv'
<1>1. CASE ShouldWake(a, addressed)
  <2>1. Takes(a, m, "turn") /\ turns' = [turns EXCEPT ![a][m] = @ + 1]
    BY <1>1 DEF Decide, Takes
  <2>2. a \notin eager => m \in Asking(a)
    BY <1>1 DEF ShouldWake, GateInv, TurnsAsked, Asking
  <2>3. \/ a \notin timeline[m].to /\ UNCHANGED engaged
        \/ /\ a \in timeline[m].to \/ Root(m) \in TurnRoots(a)
           /\ engaged' = [engaged EXCEPT ![a] = RecordThread(@, Root(m))]
    BY <1>1 DEF Decide, Engages
  <2>4. QED
    BY <2>1, <2>2, <2>3, TurnSpent
<1>2. CASE ~ShouldWake(a, addressed)
  <2>1. Takes(a, m, "done") /\ UNCHANGED <<turns, engaged>>
    BY <1>2 DEF Decide, Takes
  <2>2. QED
    BY <2>1, TaskMoved
<1>3. QED
  BY <1>1, <1>2

-----------------------------------------------------------------------------
(* The steps of the gate.                                                  *)

\* A push is taken and goes through the gate.
LEMMA PushTaken ==
  ASSUME GateInv, NEW a \in Agents, NEW m \in Messages, TakePush(a, m)
  PROVE  GateInv'
<1>1. /\ m \in DOMAIN timeline /\ m \notin seen[a] /\ Gate(a, m)
      /\ seen' = [seen EXCEPT ![a] = @ \cup {m}] /\ UNCHANGED <<timeline, settings>>
  BY DEF TakePush
<1>2. /\ Channel /\ AgentTypes /\ timeline[m] \in Events /\ timeline[m].by \in Posters
      /\ turns[a][m] = 0 /\ task[a][m] = "none"
  BY <1>1, InChannel DEF GateInv, OneTurn, Events
<1>3. /\ seen' \in [Agents -> SUBSET DOMAIN timeline] /\ m \in seen'[a]
      /\ \A b \in Agents : seen[b] \subseteq seen'[b]
  BY <1>1, <1>2 DEF AgentTypes
<1>4. ASSUME Skip(a, m)
      PROVE  GateInv'
  <2>1. cache' \in [Agents -> SUBSET Posters]
    BY <1>2, <1>4 DEF Skip, AgentTypes
  <2>2. Takes(a, m, "done") /\ UNCHANGED <<turns, engaged>>
    BY <1>1, <1>3, <1>4, <2>1 DEF Skip, Takes
  <2>3. QED
    BY <1>1, <2>2, TaskMoved
<1>5. CASE timeline[m].how = "reaction"
  <2>1. GateReaction(a, m) /\ timeline[m].to = {}
    BY <1>1, <1>2, <1>5 DEF Gate, Channel
  <2>2. CASE timeline[m].by # a /\ ShouldWakeReaction(a)
    <3>1. /\ task' = [task EXCEPT ![a][m] = "turn"]
          /\ turns' = [turns EXCEPT ![a][m] = @ + 1] /\ UNCHANGED <<cache, engaged>>
      BY <2>1, <2>2 DEF GateReaction
    <3>2. cache' \in [Agents -> SUBSET Posters]
      BY <1>2, <3>1 DEF AgentTypes
    <3>3. Takes(a, m, "turn")
      BY <1>1, <1>3, <3>1, <3>2 DEF Takes
    <3>4. a \in eager
      BY <2>2 DEF ShouldWakeReaction, GateInv, TurnsAsked
    <3>5. QED
      BY <1>1, <1>2, <2>1, <3>1, <3>3, <3>4, TurnSpent
  <2>3. CASE ~(timeline[m].by # a /\ ShouldWakeReaction(a))
    BY <1>4, <2>1, <2>3 DEF GateReaction
  <2>4. QED
    BY <2>2, <2>3
<1>6. CASE timeline[m].how # "reaction"
  <2>1. GateMessage(a, m)
    BY <1>1, <1>6 DEF Gate
  <2>2. CASE timeline[m].by \in {a, System}
    BY <1>4, <2>1, <2>2 DEF GateMessage
  <2>3. CASE timeline[m].by \notin {a, System} /\ ~FollowUpPossible(a, m)
    <3>1. Decide(a, m, Mentioned(a, m)) /\ UNCHANGED cache
      BY <2>1, <2>3 DEF GateMessage
    <3>2. /\ cache' \in [Agents -> SUBSET Posters] /\ Mentioned(a, m) \in BOOLEAN
          /\ Mentioned(a, m) <=> a \in timeline[m].to
      BY <1>2, <3>1 DEF AgentTypes, Mentioned
    <3>3. QED
      BY <1>1, <1>2, <1>3, <1>6, <3>1, <3>2, Decided
  <2>4. CASE timeline[m].by \notin {a, System} /\ FollowUpPossible(a, m)
    <3>1. a \notin timeline[m].to /\ Root(m) \in TurnRoots(a)
      <4>1. /\ a \notin timeline[m].to /\ Root(m) = timeline[m].thread
            /\ Contains(engaged[a], timeline[m].thread)
        BY <2>4 DEF FollowUpPossible, Mentioned, Root
      <4>2. engaged[a] \in Seq(DOMAIN timeline) /\ ToSet(engaged[a]) \subseteq TurnRoots(a)
        BY DEF GateInv, EngagedKept, Kept
      <4>3. DOMAIN engaged[a] = 1 .. Len(engaged[a])
        BY <4>2, LenProperties
      <4>4. QED
        BY <4>1, <4>2, <4>3 DEF Contains, ToSet
    <3>2. CASE /\ Decide(a, m, IsHuman(Classification(timeline[m].by)))
               /\ cache' = [cache EXCEPT ![a] = @ \cup {timeline[m].by}]
      <4>1. cache' \in [Agents -> SUBSET Posters]
        BY <1>2, <3>2 DEF AgentTypes
      <4>2. /\ IsHuman(Classification(timeline[m].by)) \in BOOLEAN
            /\ IsHuman(Classification(timeline[m].by)) => timeline[m].by \in Humans
        BY <1>2, <2>4 DEF IsHuman, Classification, Posters
      <4>3. QED
        BY <1>1, <1>2, <1>3, <1>6, <3>1, <3>2, <4>1, <4>2, Decided
    <3>3. CASE task' = [task EXCEPT ![a][m] = "classifying"] /\ UNCHANGED <<cache, turns, engaged>>
      <4>1. cache' \in [Agents -> SUBSET Posters]
        BY <1>2, <3>3 DEF AgentTypes
      <4>2. Takes(a, m, "classifying")
        BY <1>1, <1>3, <3>3, <4>1 DEF Takes
      <4>3. QED
        BY <1>1, <1>2, <1>6, <2>4, <3>1, <3>3, <4>2, TaskMoved
    <3>4. QED
      BY <2>1, <2>4, <3>2, <3>3 DEF GateMessage
  <2>5. QED
    BY <2>2, <2>3, <2>4
<1>7. QED
  BY <1>5, <1>6

\* The call that classifies a sender returns, or fails.
LEMMA CallReturned ==
  ASSUME GateInv, NEW a \in Agents, NEW m \in Messages, Classified(a, m) \/ Unclassified(a, m)
  PROVE  GateInv'
<1>1. /\ task[a][m] = "classifying" /\ UNCHANGED <<timeline, settings, seen>>
  BY DEF Classified, Unclassified
<1>2. /\ m \in DOMAIN timeline /\ timeline[m].how # "reaction"
      /\ timeline[m].by \notin {a, System} /\ a \notin timeline[m].to
      /\ Root(m) \in TurnRoots(a) /\ turns[a][m] = 0 /\ m \in seen[a]
  BY <1>1 DEF GateInv, Classifying, OneTurn
<1>3. timeline[m].by \in Posters /\ AgentTypes
  BY <1>2, InChannel DEF GateInv, Events
<1>4. /\ seen' \in [Agents -> SUBSET DOMAIN timeline] /\ m \in seen'[a]
      /\ \A b \in Agents : seen[b] \subseteq seen'[b]
  BY <1>1, <1>2, <1>3 DEF AgentTypes
<1>5. CASE Classified(a, m)
  <2>1. cache' \in [Agents -> SUBSET Posters]
    BY <1>3, <1>5 DEF Classified, AgentTypes
  <2>2. /\ Decide(a, m, IsHuman(Classification(timeline[m].by)))
        /\ IsHuman(Classification(timeline[m].by)) \in BOOLEAN
        /\ IsHuman(Classification(timeline[m].by)) => timeline[m].by \in Humans
    BY <1>2, <1>3, <1>5 DEF Classified, IsHuman, Classification, Posters
  <2>3. QED
    BY <1>1, <1>2, <1>4, <2>1, <2>2, Decided
<1>6. CASE Unclassified(a, m)
  <2>1. /\ cache' \in [Agents -> SUBSET Posters] /\ Decide(a, m, FALSE)
    BY <1>3, <1>6 DEF Unclassified, AgentTypes, IsHuman
  <2>2. QED
    BY <1>1, <1>2, <1>4, <2>1, Decided
<1>7. QED
  BY <1>5, <1>6

-----------------------------------------------------------------------------
(* The steps of the channel and of the principal.                          *)

\* A message comes to the channel, perhaps from a turn that ends with it.
LEMMA MessagePosted ==
  ASSUME GateInv, NEW by \in Posters, NEW thread \in {Top} \cup DOMAIN timeline,
         Posted(by, thread), UNCHANGED <<seen, cache, settings, engaged, turns>>,
         task' \in [Agents -> [Messages -> {"none", "classifying", "turn", "done"}]],
         \A a \in Agents, m \in Messages : task'[a][m] = task[a][m]
                                           \/ (task[a][m] = "turn" /\ task'[a][m] = "done")
  PROVE  GateInv'
<1> USE DEF GateInv, settings
<1>1. PICK e \in Events : /\ Len(timeline) < MaxMessages /\ timeline' = Append(timeline, e)
                          /\ e.thread = thread /\ (e.how = "reaction" => e.to = {})
  <2>1. PICK how \in {"mention", "name", "reaction"}, to \in SUBSET Agents :
          /\ Len(timeline) < MaxMessages /\ (how = "reaction" => to = {})
          /\ timeline' = Append(timeline, [by |-> by, thread |-> thread, how |-> how, to |-> to])
    BY DEF Posted
  <2>2. thread \in Messages \cup {Top}
    BY InChannel
  <2>3. [by |-> by, thread |-> thread, how |-> how, to |-> to] \in Events
    BY <2>2 DEF Events
  <2>4. QED
    BY <2>1, <2>3
<1>2. /\ timeline \in Seq(Events) /\ Len(timeline) \in Nat /\ DOMAIN timeline = 1 .. Len(timeline)
      /\ MaxMessages \in Nat
  BY LenProperties, WakeGateAssumption DEF Channel
<1>3. /\ timeline' \in Seq(Events) /\ Len(timeline') = Len(timeline) + 1
      /\ \A m \in DOMAIN timeline : timeline'[m] = timeline[m]
      /\ timeline'[Len(timeline) + 1] = e
  BY <1>1, <1>2, AppendProperties
<1>4. /\ DOMAIN timeline' = DOMAIN timeline \cup {Len(timeline) + 1}
      /\ Len(timeline) + 1 \notin DOMAIN timeline /\ Len(timeline) + 1 \in Messages
      /\ Len(timeline') <= MaxMessages
  <2>1. DOMAIN timeline' = 1 .. (Len(timeline) + 1)
    BY <1>3, LenProperties
  <2>2. QED
    BY <1>1, <1>2, <1>3, <2>1 DEF Messages
<1>5. Channel'
  BY <1>1, <1>3, <1>4 DEF Channel
<1>6. AgentTypes'
  BY <1>4 DEF AgentTypes
<1>7. OneTurn'
  BY DEF OneTurn
<1>8. \A m \in DOMAIN timeline : Root(m)' = Root(m)
  BY <1>3 DEF Root
<1>9. \A a \in Agents : TurnRoots(a)' = TurnRoots(a)
  <2> SUFFICES ASSUME NEW a \in Agents PROVE TurnRoots(a)' = TurnRoots(a)
    OBVIOUS
  <2>1. turns[a][Len(timeline) + 1] = 0
    <3>1. Len(timeline) + 1 \notin seen[a]
      BY <1>4 DEF AgentTypes
    <3>2. QED
      BY <1>4, <3>1 DEF OneTurn
  <2>2. {n \in DOMAIN timeline' : turns[a][n] > 0 /\ a \in timeline'[n].to}
          = {n \in DOMAIN timeline : turns[a][n] > 0 /\ a \in timeline[n].to}
    BY <1>3, <1>4, <2>1
  <2>3. QED
    BY <1>8, <2>2 DEF TurnRoots
<1>10. Classifying'
  <2> SUFFICES ASSUME NEW b \in Agents, NEW n \in Messages, task'[b][n] = "classifying"
               PROVE  /\ n \in DOMAIN timeline' /\ timeline'[n].how # "reaction"
                      /\ timeline'[n].by \notin {b, System} /\ b \notin timeline'[n].to
                      /\ Root(n)' \in TurnRoots(b)'
    BY DEF Classifying
  <2>1. task[b][n] = "classifying"
    OBVIOUS
  <2>2. /\ n \in DOMAIN timeline /\ timeline[n].how # "reaction"
        /\ timeline[n].by \notin {b, System} /\ b \notin timeline[n].to
        /\ Root(n) \in TurnRoots(b)
    BY <2>1 DEF Classifying
  <2>3. QED
    BY <1>3, <1>4, <1>8, <1>9, <2>2
<1>11. TurnsAsked'
  <2>1. \A a \in Agents : Asking(a) \subseteq Asking(a)'
    BY <1>3, <1>4 DEF Asking
  <2>2. QED
    BY <2>1 DEF TurnsAsked
<1>12. EngagedKept'
  <2> SUFFICES ASSUME NEW a \in Agents PROVE Kept(engaged[a], TurnRoots(a))'
    BY DEF EngagedKept
  <2>1. Kept(engaged[a], TurnRoots(a))
    BY DEF EngagedKept
  <2>2. engaged[a] \in Seq(DOMAIN timeline')
    <3>1. DOMAIN timeline \subseteq DOMAIN timeline' /\ engaged[a] \in Seq(DOMAIN timeline)
      BY <1>4, <2>1 DEF Kept
    <3>2. QED
      BY <3>1, SeqMonotonic
  <2>3. QED
    BY <1>9, <2>1, <2>2 DEF Kept
<1>13. QED
  BY <1>5, <1>6, <1>7, <1>10, <1>11, <1>12

\* A turn ends.
LEMMA TurnEnds ==
  ASSUME GateInv, NEW a \in Agents, NEW m \in Messages, EndTurn(a, m)
  PROVE  GateInv'
<1>1. /\ task[a][m] = "turn" /\ task' = [task EXCEPT ![a][m] = "done"]
      /\ UNCHANGED <<seen, cache, settings, engaged, turns>>
  BY DEF EndTurn
<1>2. m \in seen[a] /\ m \in DOMAIN timeline /\ AgentTypes /\ Channel
  BY <1>1 DEF GateInv, OneTurn, AgentTypes
<1>3. CASE Posted(a, Root(m))
  <2>1. a \in Posters /\ Root(m) \in {Top} \cup DOMAIN timeline
    BY <1>2, InChannel DEF Posters
  <2>2. /\ task' \in [Agents -> [Messages -> {"none", "classifying", "turn", "done"}]]
        /\ \A b \in Agents, n \in Messages : task'[b][n] = task[b][n]
                                             \/ (task[b][n] = "turn" /\ task'[b][n] = "done")
    BY <1>1, <1>2 DEF AgentTypes
  <2>3. QED
    BY <1>1, <1>3, <2>1, <2>2, MessagePosted
<1>4. CASE UNCHANGED timeline
  <2>1. Takes(a, m, "done")
    BY <1>1, <1>2, <1>4 DEF Takes, AgentTypes
  <2>2. QED
    BY <1>1, <1>2, <2>1, TaskMoved
<1>5. QED
  BY <1>3, <1>4 DEF EndTurn

\* The principal edits the policy of an agent.
LEMMA PolicySet ==
  ASSUME GateInv, NEW a \in Agents, SetPolicy(a)
  PROVE  GateInv'
<1> USE DEF GateInv
<1>1. PICK p \in Policies : /\ policy' = [policy EXCEPT ![a] = p]
                            /\ eager' = IF p.mode = "all" \/ p.emoji THEN eager \cup {a} ELSE eager
  BY DEF SetPolicy
<1>2. UNCHANGED <<timeline, seen, cache, engaged, task, turns>>
  BY DEF SetPolicy
<1>3. Channel' /\ AgentTypes' /\ OneTurn'
  BY <1>1, <1>2 DEF Channel, AgentTypes, OneTurn
<1>4. Classifying' /\ EngagedKept'
  BY <1>2 DEF Classifying, EngagedKept, Kept, TurnRoots, Root
<1>5. TurnsAsked'
  <2> SUFFICES ASSUME NEW b \in Agents \ eager'
               PROVE  /\ policy'[b].mode # "all" /\ ~policy'[b].emoji
                      /\ \A m \in Messages : turns[b][m] > 0 => m \in Asking(b)'
    BY <1>2 DEF TurnsAsked
  <2>1. b \notin eager /\ (b = a => p.mode # "all" /\ ~p.emoji)
    BY <1>1
  <2>2. policy'[b] = IF b = a THEN p ELSE policy[b]
    BY <1>1 DEF AgentTypes
  <2>3. Asking(b)' = Asking(b)
    BY <1>2 DEF Asking
  <2>4. QED
    BY <2>1, <2>2, <2>3 DEF TurnsAsked
<1>6. QED
  BY <1>2, <1>3, <1>4, <1>5

-----------------------------------------------------------------------------
(* The theorems.                                                           *)

\* It holds before the first message.
LEMMA GateInit == Init => GateInv
<1> SUFFICES ASSUME Init PROVE GateInv
  OBVIOUS
<1>1. timeline = << >> /\ Len(timeline) = 0 /\ DOMAIN timeline = {}
  BY DEF Init
<1>2. Channel
  BY <1>1, WakeGateAssumption, EmptySeq DEF Channel
<1>3. AgentTypes
  <2>1. [mode |-> "mention", threads |-> "engaged", emoji |-> FALSE] \in Policies
    BY WakeGateAssumption DEF Policies
  <2>2. QED
    BY <1>1, <2>1 DEF Init, AgentTypes
<1>4. OneTurn /\ Classifying /\ TurnsAsked
  BY DEF Init, OneTurn, Classifying, TurnsAsked
<1>5. EngagedKept
  <2> SUFFICES ASSUME NEW a \in Agents PROVE Kept(engaged[a], TurnRoots(a))
    BY DEF EngagedKept
  <2>1. engaged[a] = << >> /\ TurnRoots(a) = {}
    BY <1>1 DEF Init, TurnRoots
  <2>2. << >> \in Seq(DOMAIN timeline) /\ Len(<< >>) = 0 /\ ToSet(<< >>) = {}
    BY EmptySeq DEF ToSet
  <2>3. 0 <= MaxEngaged
    BY WakeGateAssumption
  <2>4. QED
    BY <2>1, <2>2, <2>3 DEF Kept
<1>6. QED
  BY <1>2, <1>3, <1>4, <1>5 DEF GateInv, Init

\* Every step keeps the invariant.
LEMMA GateStep == GateInv /\ [Next]_vars => GateInv'
<1> SUFFICES ASSUME GateInv, [Next]_vars PROVE GateInv'
  OBVIOUS
<1>1. CASE Speak
  <2>1. PICK by \in Humans \cup {System}, thread \in {Top} \cup DOMAIN timeline : Posted(by, thread)
    BY <1>1 DEF Speak
  <2>2. by \in Posters /\ UNCHANGED <<seen, cache, settings, engaged, task, turns>>
    BY <1>1 DEF Speak, Posters
  <2>3. task \in [Agents -> [Messages -> {"none", "classifying", "turn", "done"}]]
    BY DEF GateInv, AgentTypes
  <2>4. QED
    BY <2>1, <2>2, <2>3, MessagePosted
<1>2. ASSUME NEW a \in Agents, NEW m \in Messages, PushAgain(a, m)
      PROVE  GateInv'
  <2>1. UNCHANGED <<timeline, seen, cache, settings, engaged, task, turns>>
    BY <1>2 DEF PushAgain, IsNewEvent
  <2>2. QED
    BY <2>1 DEF GateInv, Channel, AgentTypes, OneTurn, Classifying, TurnsAsked, EngagedKept,
       Kept, TurnRoots, Asking, Root, settings
<1>3. CASE UNCHANGED vars
  BY <1>3 DEF GateInv, Channel, AgentTypes, OneTurn, Classifying, TurnsAsked, EngagedKept,
     Kept, TurnRoots, Asking, Root, settings, vars
<1>4. QED
  BY <1>1, <1>2, <1>3, PushTaken, CallReturned, TurnEnds, PolicySet DEF Next

\* Every reachable state satisfies the invariant.
THEOREM GateInductive == Spec => []GateInv
BY GateInit, GateStep, PTL DEF Spec

\* An agent that is not eager spends no more turns than it was asked for.
LEMMA NoMoreThanAsked ==
  ASSUME GateInv, NEW a \in Agents \ eager
  PROVE  Cardinality(TurnsOf(a)) <= Cardinality(Asking(a))
<1>1. Asking(a) \subseteq Messages /\ IsFiniteSet(Asking(a))
  <2>1. DOMAIN timeline \subseteq Messages
    BY InChannel DEF GateInv
  <2>2. IsFiniteSet(Messages)
    <3>1. 1 \in Int /\ MaxMessages \in Int
      BY WakeGateAssumption
    <3>2. QED
      BY <3>1, FS_Interval DEF Messages
  <2>3. Asking(a) \subseteq Messages
    BY <2>1 DEF Asking
  <2>4. QED
    BY <2>2, <2>3, FS_Subset
<1>2. ASSUME NEW x \in TurnsOf(a)
      PROVE  x[1] \in Asking(a) /\ x = <<x[1], 1>>
  <2>1. PICK m \in Messages : x \in {m} \X (1 .. turns[a][m])
    BY DEF TurnsOf
  <2>2. turns[a][m] \in Nat /\ turns[a][m] <= 1
    BY DEF GateInv, AgentTypes, OneTurn
  <2>3. x = <<m, 1>> /\ turns[a][m] > 0
    BY <2>1, <2>2
  <2>4. m \in Asking(a)
    BY <2>3 DEF GateInv, TurnsAsked
  <2>5. QED
    BY <2>3, <2>4
<1> DEFINE f == [x \in TurnsOf(a) |-> x[1]]
<1>3. f \in Injection(TurnsOf(a), Asking(a))
  <2>1. f \in [TurnsOf(a) -> Asking(a)]
    BY <1>2
  <2>2. \A x, y \in TurnsOf(a) : f[x] = f[y] => x = y
    BY <1>2
  <2> HIDE DEF f
  <2>3. QED
    BY <2>1, <2>2 DEF Injection, IsInjective
<1>4. QED
  BY <1>1, <1>3, FS_Injection

\* What the store of an agent holds when it lost nothing it had room for.
LEMMA StoreHolds ==
  ASSUME GateInv, NEW a \in Agents
  PROVE  /\ ToSet(engaged[a]) \subseteq TurnRoots(a)
         /\ Len(engaged[a]) = Min({MaxEngaged, Cardinality(TurnRoots(a))})
<1> DEFINE roots == engaged[a]
           among == TurnRoots(a)
<1>1. Kept(roots, among)
  BY DEF GateInv, EngagedKept
<1>2. IsFiniteSet(among)
  <2>1. DOMAIN timeline = 1 .. Len(timeline) /\ Len(timeline) \in Nat
    BY LenProperties DEF GateInv, Channel
  <2>2. IsFiniteSet(DOMAIN timeline)
    BY <2>1, FS_Interval
  <2>3. \A m \in DOMAIN timeline : Root(m) \in DOMAIN timeline
    BY InChannel DEF GateInv
  <2>4. among \subseteq DOMAIN timeline
    BY <2>3 DEF TurnRoots
  <2>5. QED
    BY <2>2, <2>4, FS_Subset
<1> HIDE DEF roots, among
<1>3. /\ roots \in Seq(DOMAIN timeline) /\ Len(roots) <= MaxEngaged
      /\ \A i, j \in 1 .. Len(roots) : roots[i] = roots[j] => i = j
      /\ ToSet(roots) \subseteq among
      /\ Len(roots) = MaxEngaged \/ among \subseteq ToSet(roots)
  BY <1>1 DEF Kept
<1>4. Len(roots) \in Nat /\ DOMAIN roots = 1 .. Len(roots)
  BY <1>3, LenProperties
<1>5. IsFiniteSet(ToSet(roots)) /\ Cardinality(ToSet(roots)) = Len(roots)
  <2>1. IsFiniteSet(1 .. Len(roots)) /\ Cardinality(1 .. Len(roots)) = Len(roots)
    <3> DEFINE n == Len(roots)
    <3>1. 1 \in Int /\ n \in Int /\ (IF 1 > n THEN 0 ELSE n - 1 + 1) = n
      BY <1>4
    <3> HIDE DEF n
    <3>2. IsFiniteSet(1 .. n) /\ Cardinality(1 .. n) = n
      BY <3>1, FS_Interval
    <3>3. QED
      BY <3>2 DEF n
  <2>2. roots \in [1 .. Len(roots) -> ToSet(roots)]
    <3>1. roots = [i \in 1 .. Len(roots) |-> roots[i]]
      BY <1>3, <1>4
    <3>2. \A i \in 1 .. Len(roots) : roots[i] \in ToSet(roots)
      BY <1>4 DEF ToSet
    <3>3. QED
      BY <3>1, <3>2
  <2>3. \A x \in ToSet(roots) : \E i \in 1 .. Len(roots) : roots[i] = x
    BY <1>4 DEF ToSet
  <2>4. roots \in Surjection(1 .. Len(roots), ToSet(roots))
    BY <2>2, <2>3 DEF Surjection
  <2>5. roots \in Injection(1 .. Len(roots), ToSet(roots))
    BY <1>3, <2>2 DEF Injection, IsInjective
  <2>6. QED
    BY <2>1, <2>4, <2>5, FS_Surjection
<1>6. /\ Cardinality(among) \in Nat /\ MaxEngaged \in Nat
      /\ Len(roots) <= Cardinality(among)
  BY <1>2, <1>3, <1>5, FS_Subset, FS_CardinalityType, WakeGateAssumption
<1>7. Len(roots) = MaxEngaged \/ Len(roots) = Cardinality(among)
  <2>1. CASE among \subseteq ToSet(roots)
    <3>1. among = ToSet(roots)
      BY <1>3, <2>1
    <3>2. QED
      BY <1>5, <3>1
  <2>2. QED
    BY <1>3, <2>1
<1>8. Len(roots) = Min({MaxEngaged, Cardinality(among)})
  <2>1. \A x, y \in Nat : x <= y => Min({x, y}) = x /\ Min({y, x}) = x
    BY DEF Min
  <2>2. CASE Len(roots) = MaxEngaged
    BY <1>6, <2>1, <2>2
  <2>3. CASE Len(roots) = Cardinality(among)
    <3>1. Cardinality(among) <= MaxEngaged
      BY <1>3, <2>3
    <3>2. QED
      BY <1>6, <2>1, <2>3, <3>1
  <2>4. QED
    BY <1>7, <2>2, <2>3
<1>9. QED
  BY <1>3, <1>8 DEF roots, among

\* A step that spends a turn on a message that addresses the agent leaves the
\* message's thread in the store.
LEMMA TurnEngages ==
  ASSUME GateInv, NEW a \in Agents, NEW m \in DOMAIN timeline, NEW addressed \in BOOLEAN,
         Decide(a, m, addressed), a \in timeline[m].to => addressed,
         NEW b \in Agents, NEW n \in Messages, turns'[b][n] > turns[b][n], b \in timeline[n].to
  PROVE  Contains(engaged'[b], Root(n))
<1>1. /\ turns \in [Agents -> [Messages -> Nat]] /\ turns[b][n] \in Nat
      /\ Root(m) \in DOMAIN timeline
  BY InChannel DEF GateInv, AgentTypes
<1>2. ShouldWake(a, addressed) /\ turns' = [turns EXCEPT ![a][m] = @ + 1]
  BY <1>1 DEF Decide
<1>3. b = a /\ n = m
  BY <1>1, <1>2
<1>4. engaged' = [engaged EXCEPT ![a] = RecordThread(@, Root(m))]
  BY <1>2, <1>3 DEF Decide, Engages
<1>5. Kept(engaged[a], TurnRoots(a)) /\ DOMAIN engaged = Agents
  BY DEF GateInv, EngagedKept
<1> DEFINE k == RecordThread(engaged[a], Root(m))
<1>6. engaged'[b] = k
  BY <1>3, <1>4, <1>5
<1>7. k \in Seq(DOMAIN timeline) /\ \E i \in 1 .. Len(k) : k[i] = Root(m)
  <2> DEFINE roots == engaged[a]
  <2>1. /\ roots \in Seq(DOMAIN timeline) /\ Len(roots) <= MaxEngaged
        /\ \A i, j \in 1 .. Len(roots) : roots[i] = roots[j] => i = j
    BY <1>5 DEF Kept
  <2> HIDE DEF roots
  <2>2. /\ RecordThread(roots, Root(m)) \in Seq(DOMAIN timeline)
        /\ \E i \in 1 .. Len(RecordThread(roots, Root(m))) : RecordThread(roots, Root(m))[i] = Root(m)
    BY <1>1, <2>1, Recorded
  <2>3. QED
    BY <2>2 DEF roots
<1> HIDE DEF k
<1>8. QED
  BY <1>3, <1>6, <1>7 DEF Contains

\* Every step that spends a turn is a decision or a reaction's.
LEMMA FreshTurn ==
  ASSUME GateInv, [Next]_vars, NEW b \in Agents, NEW n \in Messages,
         turns'[b][n] > turns[b][n], b \in timeline[n].to
  PROVE  Contains(engaged'[b], Root(n))
<1>1. turns[b][n] \in Nat /\ turns \in [Agents -> [Messages -> Nat]]
  BY DEF GateInv, AgentTypes
<1>2. ~UNCHANGED turns
  BY <1>1
<1>3. PICK a \in Agents, m \in Messages : TakePush(a, m) \/ Classified(a, m) \/ Unclassified(a, m)
  BY <1>2 DEF Next, Speak, SetPolicy, PushAgain, IsNewEvent, EndTurn, vars
<1>4. CASE TakePush(a, m)
  <2>1. m \in DOMAIN timeline /\ Gate(a, m)
    BY <1>4 DEF TakePush
  <2>2. CASE timeline[m].how = "reaction"
    <3>1. turns' = [turns EXCEPT ![a][m] = @ + 1]
      BY <1>2, <2>1, <2>2 DEF Gate, GateReaction, Skip
    <3>2. timeline[m].to = {} /\ b = a /\ n = m
      BY <1>1, <2>1, <2>2, <3>1 DEF GateInv, Channel
    <3>3. QED
      BY <3>2
  <2>3. CASE timeline[m].how # "reaction"
    <3>1. GateMessage(a, m)
      BY <2>1, <2>3 DEF Gate
    <3>2. PICK addressed \in BOOLEAN :
            Decide(a, m, addressed) /\ (a \in timeline[m].to => addressed)
      <4>1. CASE Decide(a, m, Mentioned(a, m))
        <5>1. Mentioned(a, m) \in BOOLEAN /\ (a \in timeline[m].to => Mentioned(a, m))
          BY DEF Mentioned
        <5>2. QED
          BY <4>1, <5>1
      <4>2. CASE FollowUpPossible(a, m) /\ Decide(a, m, IsHuman(Classification(timeline[m].by)))
        <5>1. /\ IsHuman(Classification(timeline[m].by)) \in BOOLEAN
              /\ a \notin timeline[m].to
          BY <4>2 DEF IsHuman, FollowUpPossible, Mentioned
        <5>2. QED
          BY <4>2, <5>1
      <4>3. QED
        BY <1>2, <3>1, <4>1, <4>2 DEF GateMessage, Skip
    <3>3. QED
      BY <2>1, <3>2, TurnEngages
  <2>4. QED
    BY <2>2, <2>3
<1>5. CASE Classified(a, m) \/ Unclassified(a, m)
  <2>1. m \in DOMAIN timeline /\ a \notin timeline[m].to
    BY <1>5 DEF Classified, Unclassified, GateInv, Classifying
  <2>2. PICK addressed \in BOOLEAN : Decide(a, m, addressed)
    BY <1>5 DEF Classified, Unclassified, IsHuman
  <2>3. QED
    BY <2>1, <2>2, TurnEngages
<1>6. QED
  BY <1>3, <1>4, <1>5

\* The channel, the policies and the stores stay in their types, and a store in its
\* bound (EngagedThreadStore._MAX_ENTRIES).
THEOREM GateTypes == Spec => []TypeOK
<1>1. GateInv => TypeOK
  BY DEF GateInv, Channel, AgentTypes, EngagedKept, Kept, Events, TypeOK
<1>2. QED
  BY <1>1, GateInductive, PTL

\* Agents that were not set to answer everything start no storm: whatever the
\* others do, an agent's turns are at most the messages that ask for one, each
\* answered once (_seen_set), by is_agent_mention and the fail-closed human check.
THEOREM StormsDieOut == Spec => []NoStorm
<1>1. GateInv => NoStorm
  BY NoMoreThanAsked DEF NoStorm
<1>2. QED
  BY <1>1, GateInductive, PTL

\* EngagedThreadStore holds threads of mention wakes only, and all of them until
\* its bound evicts the oldest.
THEOREM EngagedIsRecord == Spec => []EngagedByMention
<1>1. GateInv => EngagedByMention
  BY StoreHolds DEF EngagedByMention
<1>2. QED
  BY <1>1, GateInductive, PTL

\* EngagedThreadStore.record never evicts what it records: a turn on a message
\* that addresses the agent leaves it engaged in the message's thread.
THEOREM FreshTurnStays == Spec => FreshTurnEngaged
<1>1. GateInv /\ [Next]_vars =>
        [\A a \in Agents : \A m \in Messages :
           (turns'[a][m] > turns[a][m] /\ a \in timeline[m].to)
             => Contains(engaged'[a], Root(m))]_vars
  BY FreshTurn
<1>2. QED
  BY <1>1, GateInductive, PTL DEF Spec, FreshTurnEngaged

-----------------------------------------------------------------------------
\* The thread a conversation is about, as its key names it.
ThreadOf(k) == IF k[1] = "thread" THEN k[2] ELSE NoThread

\* Served, with the posts it reads from as a parameter.
HistoryOf(p, t, n) ==
  IF t # NoThread THEN {i \in 1 .. n : i = t \/ p[i].thread = t}
  ELSE LET tops == {i \in 1 .. n : p[i].thread = NoThread}
       IN {i \in tops : Cardinality({j \in tops : j > i}) < Window}

-----------------------------------------------------------------------------
(* SeenHistory: what its operators promise.                                *)

LEMMA KeyNames ==
  ASSUME NEW t \in Positions \cup {NoThread}, NEW s \in Senders, NEW sh \in BOOLEAN
  PROVE  HistoryKey(t, s, sh) \in Keys /\ ThreadOf(HistoryKey(t, s, sh)) = t
<1>1. CASE t # NoThread
  <2>1. HistoryKey(t, s, sh) = <<"thread", t>>
    BY <1>1 DEF HistoryKey
  <2> QED BY <1>1, <2>1 DEF Keys, ThreadOf
<1>2. CASE t = NoThread
  <2>1. CASE sh
    <3>1. HistoryKey(t, s, sh) = <<"channel">>
      BY <1>2, <2>1 DEF HistoryKey
    <3> QED BY <1>2, <3>1 DEF Keys, ThreadOf
  <2>2. CASE ~sh
    <3>1. HistoryKey(t, s, sh) = <<"channel", s>>
      BY <1>2, <2>2 DEF HistoryKey
    <3> QED BY <1>2, <3>1 DEF Keys, ThreadOf
  <2> QED BY <2>1, <2>2
<1> QED BY <1>1, <1>2

LEMMA KeyThreads ==
  ASSUME NEW k \in Keys
  PROVE  ThreadOf(k) \in Positions \cup {NoThread}
<1>1. CASE \E m \in Positions : k = <<"thread", m>>
  BY <1>1 DEF ThreadOf
<1>2. CASE k = <<"channel">>
  BY <1>2 DEF ThreadOf
<1>3. CASE \E s \in Senders : k = <<"channel", s>>
  BY <1>3 DEF ThreadOf
<1> QED BY <1>1, <1>2, <1>3 DEF Keys

LEMMA NewestIsMax ==
  ASSUME NEW n \in Nat, NEW S \in SUBSET (1 .. n), S # {}
  PROVE  /\ Newest(S) \in S /\ Newest(S) \in 1 .. n
         /\ \A i \in S : i <= Newest(S)
<1> DEFINE Bounds == {b \in Nat : \A i \in S : i <= b}
<1>1. n \in Bounds
  OBVIOUS
<1>2. PICK b \in Bounds : \A y \in Bounds : ~(<<y, b>> \in OpToRel(<, Nat))
  BY <1>1, NatLessThanWellFounded, WFMin
<1>3. b \in S
  <2> SUFFICES ASSUME b \notin S PROVE FALSE
    OBVIOUS
  <2>1. PICK i \in S : TRUE
    OBVIOUS
  <2>2. b \in Nat /\ b > i /\ i >= 1
    BY <2>1
  <2>3. b - 1 \in Bounds
    BY <2>2
  <2>4. <<b - 1, b>> \in OpToRel(<, Nat)
    BY <2>2 DEF OpToRel
  <2> QED BY <1>2, <2>3, <2>4
<1>4. \A i \in S : b >= i
  BY <1>2
<1>5. Max(S) \in S /\ \A i \in S : Max(S) >= i
  BY <1>3, <1>4 DEF Max
<1> QED BY <1>5 DEF Newest

LEMMA HistoryIsUpTo ==
  ASSUME NEW p, NEW t, NEW n
  PROVE  HistoryOf(p, t, n) \subseteq 1 .. n
BY DEF HistoryOf

LEMMA HistoryKept ==
  ASSUME NEW Q, NEW p \in Seq(Q), NEW x, NEW t, NEW n \in 0 .. Len(p)
  PROVE  HistoryOf(Append(p, x), t, n) = HistoryOf(p, t, n)
<1>1. \A i \in 1 .. n : Append(p, x)[i] = p[i]
  OBVIOUS
<1>2. CASE t # NoThread
  BY <1>1, <1>2 DEF HistoryOf
<1>3. CASE t = NoThread
  <2> DEFINE tops(q) == {i \in 1 .. n : q[i].thread = NoThread}
  <2>1. tops(Append(p, x)) = tops(p)
    BY <1>1
  <2>2. \A q : HistoryOf(q, t, n) = {i \in tops(q) : Cardinality({j \in tops(q) : j > i}) < Window}
    BY <1>3 DEF HistoryOf
  <2> HIDE DEF tops
  <2> QED BY <2>1, <2>2
<1> QED BY <1>2, <1>3

\* A later read of the same conversation may have dropped a message from its
\* window, but shows none that an earlier read up to it would not have shown.
LEMMA HistoryShrinks ==
  ASSUME NEW p, NEW t, NEW n \in Nat, NEW v \in 0 .. n,
         NEW i \in HistoryOf(p, t, n), i <= v
  PROVE  i \in HistoryOf(p, t, v)
<1>1. CASE t # NoThread
  BY <1>1 DEF HistoryOf
<1>2. CASE t = NoThread
  <2> DEFINE tops(u)  == {j \in 1 .. u : p[j].thread = NoThread}
             later(u) == {j \in tops(u) : j > i}
  <2>1. \A u : HistoryOf(p, t, u) = {a \in tops(u) : Cardinality({j \in tops(u) : j > a}) < Window}
    BY <1>2 DEF HistoryOf
  <2>2. i \in tops(n) /\ Cardinality(later(n)) < Window
    BY <2>1
  <2>3. i \in tops(v)
    BY <2>2
  <2>4. later(v) \subseteq later(n) /\ later(n) \subseteq 1 .. n
    OBVIOUS
  <2>5. IsFiniteSet(later(n))
    BY <2>4, FS_Interval, FS_Subset
  <2> HIDE DEF later
  <2>6. Cardinality(later(v)) <= Cardinality(later(n)) /\ IsFiniteSet(later(v))
    BY <2>4, <2>5, FS_Subset
  <2>7. Cardinality(later(v)) \in Nat /\ Cardinality(later(n)) \in Nat
    BY <2>5, <2>6, FS_CardinalityType
  <2>8. Cardinality(later(v)) < Window
    BY <2>2, <2>6, <2>7, SeenHistoryAssumption DEF SeenHistoryAssumption
  <2> QED BY <2>1, <2>3, <2>8 DEF later
<1> QED BY <1>1, <1>2

\* What a read showed is what a read up to its newest message would show.
LEMMA HistoryToNewest ==
  ASSUME NEW p, NEW t, NEW n \in Nat, Newest(HistoryOf(p, t, n)) # NoMark
  PROVE  /\ Newest(HistoryOf(p, t, n)) \in HistoryOf(p, t, n)
         /\ Newest(HistoryOf(p, t, n)) \in 1 .. n
         /\ \A i \in HistoryOf(p, t, n) : i <= Newest(HistoryOf(p, t, n))
         /\ HistoryOf(p, t, Newest(HistoryOf(p, t, n))) = HistoryOf(p, t, n)
<1> DEFINE H == HistoryOf(p, t, n)
           v == Newest(H)
<1>1. H \in SUBSET (1 .. n) /\ H # {}
  BY HistoryIsUpTo DEF Newest
<1>2. v \in H /\ v \in 1 .. n /\ \A i \in H : i <= v
  <2> HIDE DEF H
  <2> QED BY <1>1, NewestIsMax
<1>3. HistoryOf(p, t, v) = H
  <2> HIDE DEF v
  <2>1. CASE t # NoThread
    BY <1>2, <2>1 DEF HistoryOf
  <2>2. CASE t = NoThread
    <3> DEFINE tops(u) == {j \in 1 .. u : p[j].thread = NoThread}
    <3>1. \A u : HistoryOf(p, t, u) =
                   {a \in tops(u) : Cardinality({j \in tops(u) : j > a}) < Window}
      BY <2>2 DEF HistoryOf
    <3>2. tops(n) \in SUBSET (1 .. n)
      OBVIOUS
    <3>3. v \in tops(n)
      BY <1>2, <3>1
    <3>4. \A j \in tops(n) : j <= v
      <4> DEFINE u == Newest(tops(n))
      <4>1. u \in tops(n) /\ u \in 1 .. n /\ \A j \in tops(n) : j <= u
        <5> HIDE DEF tops
        <5> QED BY <3>2, <3>3, NewestIsMax
      <4> HIDE DEF u
      <4>2. {j \in tops(n) : j > u} = {}
        BY <4>1, <3>2
      <4>3. Cardinality({j \in tops(n) : j > u}) = 0
        BY <4>2, FS_EmptySet
      <4>4. u \in H
        <5> HIDE DEF tops
        <5> QED BY <3>1, <4>1, <4>3, SeenHistoryAssumption DEF SeenHistoryAssumption
      <4>5. u <= v
        BY <1>2, <4>4
      <4> QED BY <1>2, <3>2, <4>1, <4>5
    <3>5. tops(v) = tops(n)
      BY <1>2, <3>4
    <3> HIDE DEF tops
    <3> QED BY <3>1, <3>5
  <2> QED BY <2>1, <2>2
<1> QED BY <1>2, <1>3

LEMMA ServedIsHistory ==
  \A t, n : Served(t, n) = HistoryOf(posts, t, n)
BY DEF Served, HistoryOf

-----------------------------------------------------------------------------
(* SeenHistory: the inductive invariant.                                   *)

WakeStates ==
  [pc : {"none", "reading", "served", "ready", "dispatched", "done"},
   key : Keys \cup {<<>>}, session : Keys \cup {<<>>},
   thread : Positions \cup {NoThread}, asOf : Nat,
   unseen : SUBSET Positions, newest : Nat]

SeenTypes ==
  /\ posts \in Seq([by : Senders \cup {Me}, thread : Positions \cup {NoThread}])
  /\ Len(posts) <= MaxPosts
  /\ shared \in BOOLEAN /\ fresh \subseteq Keys /\ misled \subseteq Keys
  /\ marks \in [Keys -> 0 .. Len(posts)]
  /\ shown \in [Keys -> SUBSET Positions]
  /\ wakes \in [Positions -> WakeStates]

\* A thread is rooted at an earlier top-level message.
RepliesFollow ==
  \A i \in DOMAIN posts :
    posts[i].thread # NoThread =>
      posts[i].thread < i /\ posts[posts[i].thread].thread = NoThread

\* A wake is for a message that was posted; its key and the session it joins are
\* both of the thread of its message, or of the one its reply will root.
WakesAreKeyed ==
  \A m \in Positions :
    /\ wakes[m].pc # "none" =>
         /\ m \in DOMAIN posts /\ posts[m].by \in Senders
         /\ wakes[m].key \in Keys
         /\ \/ wakes[m].thread = posts[m].thread
            \/ posts[m].thread = NoThread /\ wakes[m].thread = m
    /\ OnItsWay(m) => ThreadOf(wakes[m].key) = wakes[m].thread
    /\ wakes[m].pc \in {"dispatched", "done"} =>
         wakes[m].session \in Keys /\ ThreadOf(wakes[m].session) = wakes[m].thread
    /\ wakes[m].pc = "dispatched" => m \in shown[wakes[m].session]

\* What a wake read, it read after its message was posted; it goes by the
\* newest message it read.
WakesAreDated ==
  \A m \in Positions :
    /\ wakes[m].pc \in {"none", "reading", "served"} => wakes[m].newest = NoMark
    /\ wakes[m].pc = "served" => wakes[m].asOf \in m .. Len(posts)
    /\ (wakes[m].pc \in {"ready", "dispatched"} /\ wakes[m].newest # NoMark) =>
         /\ wakes[m].asOf \in m .. Len(posts)
         /\ wakes[m].newest = Newest(HistoryOf(posts, posts[m].thread, wakes[m].asOf))

\* A wake whose key still speaks for its session.
Straight(m) ==
  /\ wakes[m].key \notin misled
  /\ wakes[m].pc = "dispatched" => wakes[m].session = wakes[m].key

\* Of the history such a wake read, everything is in its session's context or
\* will be as it is dispatched.
WakesKnow ==
  \A m \in Positions :
    (wakes[m].pc \in {"ready", "dispatched"} /\ wakes[m].newest # NoMark /\ Straight(m)) =>
      \A i \in HistoryOf(posts, posts[m].thread, wakes[m].asOf) :
        \/ posts[i].by = Me \/ i \in shown[wakes[m].key]
        \/ wakes[m].pc = "ready" /\ (i = m \/ i \in wakes[m].unseen)

\* A read of the model is one of its own conversation, at some moment.
ReadsAreWhole ==
  \A r \in reads :
    /\ r.session \in Keys
    /\ \E n \in 0 .. Len(posts) : r.got = HistoryOf(posts, ThreadOf(r.session), n)

\* A conversation whose root has had no turn yet goes back to the thread's
\* replies: only their turns read it, and each read shows the reply.
NotYetRooted(k) ==
  ThreadOf(k) # NoThread /\ wakes[ThreadOf(k)].pc \notin {"dispatched", "done"}
MarkedByReplies ==
  /\ \A k \in Keys : NotYetRooted(k) =>
       marks[k] = NoMark \/ posts[marks[k]].thread = ThreadOf(k)
  /\ \A r \in reads : NotYetRooted(r.session) =>
       \E i \in r.got : posts[i].thread = ThreadOf(r.session)

MarksAreShown ==
  \A k \in fresh \ misled :
    marks[k] \in HistoryOf(posts, ThreadOf(k), marks[k]) =>
      \A i \in HistoryOf(posts, ThreadOf(k), marks[k]) :
        posts[i].by = Me \/ i \in shown[k]

SeenInv ==
  /\ SeenTypes /\ RepliesFollow /\ WakesAreKeyed /\ WakesAreDated /\ WakesKnow
  /\ ReadsAreWhole /\ MarkedByReplies /\ MarksAreShown

-----------------------------------------------------------------------------
(* SeenHistory: every step keeps the invariant.                            *)

LEMMA SeenStarts == SeenInit => SeenInv
<1> SUFFICES ASSUME SeenInit PROVE SeenInv
  OBVIOUS
<1>1. SeenTypes
  BY SeenHistoryAssumption
  DEF SeenInit, SeenTypes, WakeStates, NoWake, NoMark, NoThread, SeenHistoryAssumption
<1>2. RepliesFollow /\ ReadsAreWhole /\ MarksAreShown
  BY DEF SeenInit, RepliesFollow, ReadsAreWhole, MarksAreShown
<1>3. WakesAreKeyed /\ WakesAreDated /\ WakesKnow
  BY DEF SeenInit, WakesAreKeyed, WakesAreDated, WakesKnow, Straight, NoWake, OnItsWay
<1>4. MarkedByReplies
  BY DEF SeenInit, MarkedByReplies
<1> QED BY <1>1, <1>2, <1>3, <1>4 DEF SeenInv

LEMMA PostIsTyped ==
  ASSUME SeenTypes, NEW i \in DOMAIN posts
  PROVE  /\ posts[i].by \in Senders \cup {Me}
         /\ posts[i].thread \in Positions \cup {NoThread}
<1> DEFINE Written == [by : Senders \cup {Me}, thread : Positions \cup {NoThread}]
<1>1. posts \in Seq(Written) /\ i \in 1 .. Len(posts)
  BY DEF SeenTypes
<1>2. posts[i] \in Written
  <2> HIDE DEF Written
  <2> QED BY <1>1, ElementOfSeq
<1> QED BY <1>2

\* A wake's step changes its own record.
LEMMA WakeSteps ==
  ASSUME SeenTypes, NEW m \in Positions, NEW w \in WakeStates,
         wakes' = [wakes EXCEPT ![m] = w]
  PROVE  /\ wakes' \in [Positions -> WakeStates] /\ wakes'[m] = w
         /\ \A x \in Positions : x # m => wakes'[x] = wakes[x]
BY DEF SeenTypes

LEMMA PostKeeps ==
  ASSUME SeenInv, Post
  PROVE  SeenInv'
<1> DEFINE n == Len(posts)
<1>1. PICK p \in [by : Senders \cup {Me}, thread : Positions \cup {NoThread}] :
         /\ posts' = Append(posts, p)
         /\ p.thread # NoThread => p.thread \in 1 .. n /\ posts[p.thread].thread = NoThread
  <2>1. PICK by \in Senders \cup {Me},
             thread \in {NoThread} \cup {i \in DOMAIN posts : posts[i].thread = NoThread} :
               posts' = Append(posts, [by |-> by, thread |-> thread])
    BY DEF Post
  <2>2. thread # NoThread => thread \in 1 .. n /\ thread \in Positions
    BY SeenHistoryAssumption DEF SeenInv, SeenTypes, Positions, SeenHistoryAssumption
  <2> QED BY <2>1, <2>2 DEF NoThread
<1>2. /\ n \in Nat /\ n < MaxPosts /\ MaxPosts \in Nat
      /\ Len(posts') = n + 1 /\ posts'[n + 1] = p
      /\ \A i \in 1 .. n : posts'[i] = posts[i]
      /\ posts' \in Seq([by : Senders \cup {Me}, thread : Positions \cup {NoThread}])
  BY <1>1, SeenHistoryAssumption DEF SeenInv, SeenTypes, Post, SeenHistoryAssumption
<1>3. \A t : \A u \in 0 .. n : HistoryOf(posts', t, u) = HistoryOf(posts, t, u)
  BY <1>1, HistoryKept DEF SeenInv, SeenTypes
<1>4. UNCHANGED <<shared, marks, fresh, shown, wakes, reads, misled>>
  BY DEF Post
<1> HIDE DEF n
<1>5. SeenTypes'
  BY <1>2, <1>4 DEF SeenInv, SeenTypes, n
<1>6. RepliesFollow'
  <2> SUFFICES ASSUME NEW i \in 1 .. n + 1, posts'[i].thread # NoThread
               PROVE  posts'[i].thread < i /\ posts'[posts'[i].thread].thread = NoThread
    BY <1>2 DEF RepliesFollow
  <2>1. CASE i = n + 1
    BY <1>1, <1>2, <2>1
  <2>2. CASE i \in 1 .. n
    <3>1. posts[i].thread < i /\ posts[posts[i].thread].thread = NoThread
      BY <1>2, <2>2 DEF SeenInv, RepliesFollow, n
    <3>2. posts[i].thread \in Positions \cup {NoThread}
      BY <2>2, PostIsTyped DEF SeenInv, SeenTypes, n
    <3>3. posts[i].thread \in 1 .. n
      BY <1>2, <2>2, <3>1, <3>2, SeenHistoryAssumption
      DEF Positions, NoThread, SeenHistoryAssumption
    <3> QED BY <1>2, <2>2, <3>1, <3>3
  <2> QED BY <1>2, <2>1, <2>2
<1>7. \A m \in Positions : wakes[m].pc # "none" => m \in 1 .. n
  BY <1>2 DEF SeenInv, SeenTypes, WakesAreKeyed, n
<1>8. WakesAreKeyed'
  BY <1>2, <1>4, <1>7 DEF SeenInv, WakesAreKeyed, OnItsWay
<1>9. WakesAreDated'
  BY <1>2, <1>3, <1>4, <1>7 DEF SeenInv, WakesAreDated, Positions, n
<1>10. WakesKnow'
  <2> SUFFICES ASSUME NEW m \in Positions, wakes[m].pc \in {"ready", "dispatched"},
                      wakes[m].newest # NoMark, Straight(m),
                      NEW i \in HistoryOf(posts', posts'[m].thread, wakes[m].asOf)
               PROVE  \/ posts'[i].by = Me \/ i \in shown[wakes[m].key]
                      \/ wakes[m].pc = "ready" /\ (i = m \/ i \in wakes[m].unseen)
    BY <1>4 DEF WakesKnow, Straight
  <2>1. wakes[m].asOf \in 1 .. n /\ m \in 1 .. n
    BY <1>2, <1>7 DEF SeenInv, WakesAreDated, Positions, n
  <2>2. i \in HistoryOf(posts, posts[m].thread, wakes[m].asOf)
    BY <1>2, <1>3, <2>1
  <2>3. i \in 1 .. n
    BY <1>2, <2>1, <2>2, HistoryIsUpTo
  <2> QED BY <1>2, <2>2, <2>3 DEF SeenInv, WakesKnow, Straight
<1>11. ReadsAreWhole'
  BY <1>2, <1>3, <1>4 DEF SeenInv, ReadsAreWhole, n
<1>12. MarkedByReplies'
  <2>1. \A k \in Keys : marks[k] # NoMark => marks[k] \in 1 .. n
    BY <1>2 DEF SeenInv, SeenTypes, NoMark, n
  <2>2. \A r \in reads : r.got \subseteq 1 .. n
    <3> TAKE r \in reads
    <3>1. PICK u \in 0 .. n : r.got = HistoryOf(posts, ThreadOf(r.session), u)
      BY DEF SeenInv, ReadsAreWhole, n
    <3> QED BY <1>2, <3>1, HistoryIsUpTo
  <2> QED BY <1>2, <1>4, <2>1, <2>2 DEF SeenInv, MarkedByReplies, NotYetRooted
<1>13. MarksAreShown'
  <2> SUFFICES ASSUME NEW k \in fresh \ misled,
                      marks[k] \in HistoryOf(posts', ThreadOf(k), marks[k]),
                      NEW i \in HistoryOf(posts', ThreadOf(k), marks[k])
               PROVE  posts'[i].by = Me \/ i \in shown[k]
    BY <1>4 DEF MarksAreShown
  <2>1. marks[k] \in 0 .. n
    BY DEF SeenInv, SeenTypes, n
  <2>2. i \in HistoryOf(posts, ThreadOf(k), marks[k]) /\ i \in 1 .. n
    BY <1>2, <1>3, <2>1, HistoryIsUpTo
  <2> QED BY <1>2, <1>3, <2>1, <2>2 DEF SeenInv, MarksAreShown
<1> QED BY <1>5, <1>6, <1>8, <1>9, <1>10, <1>11, <1>12, <1>13 DEF SeenInv

LEMMA FlipFlagKeeps ==
  ASSUME SeenInv, FlipFlag
  PROVE  SeenInv'
<1>1. /\ UNCHANGED <<posts, marks, fresh, shown, wakes, reads, misled>>
      /\ shared' \in BOOLEAN
  BY DEF FlipFlag
<1>2. WakesAreKeyed'
  BY <1>1 DEF SeenInv, WakesAreKeyed, OnItsWay
<1> QED BY <1>1, <1>2 DEF SeenInv, SeenTypes, RepliesFollow, WakesAreDated, WakesKnow, Straight,
          ReadsAreWhole, MarkedByReplies, NotYetRooted, MarksAreShown

LEMMA DayPassesKeeps ==
  ASSUME SeenInv, DayPasses
  PROVE  SeenInv'
<1>1. /\ UNCHANGED <<posts, shared, marks, wakes, reads>> /\ fresh' = {} /\ misled' = {}
      /\ \A m \in Positions : wakes[m].pc \notin {"reading", "served", "ready", "dispatched"}
  BY DEF DayPasses, OnItsWay
<1>2. shown' \in [Keys -> SUBSET Positions]
  BY DEF DayPasses, SeenInv, SeenTypes
<1>3. SeenTypes' /\ RepliesFollow' /\ ReadsAreWhole' /\ MarkedByReplies' /\ MarksAreShown'
  BY <1>1, <1>2 DEF SeenInv, SeenTypes, RepliesFollow, ReadsAreWhole, MarkedByReplies,
       NotYetRooted, MarksAreShown
<1>4. WakesAreKeyed' /\ WakesAreDated' /\ WakesKnow'
  BY <1>1 DEF SeenInv, WakesAreKeyed, WakesAreDated, WakesKnow, Straight, OnItsWay
<1> QED BY <1>3, <1>4 DEF SeenInv


LEMMA AdmitKeeps ==
  ASSUME SeenInv, NEW m \in Positions, Admit(m)
  PROVE  SeenInv'
<1> DEFINE thread == KeyingThread(m, shared)
           key    == HistoryKey(thread, posts[m].by, shared)
<1>1. /\ m \in DOMAIN posts /\ wakes[m].pc = "none" /\ posts[m].by \in Senders
      /\ posts[m].thread \in Positions \cup {NoThread}
  <2>1. m \in DOMAIN posts
    BY DEF Admit
  <2> QED BY <2>1, PostIsTyped DEF Admit, SeenInv
<1>2. /\ thread \in Positions \cup {NoThread}
      /\ thread = posts[m].thread \/ (posts[m].thread = NoThread /\ thread = m)
  BY <1>1 DEF KeyingThread
<1>3. key \in Keys
  BY <1>1, <1>2, KeyNames DEF SeenInv, SeenTypes
<1>4. /\ wakes' = [wakes EXCEPT ![m] = [wakes[m] EXCEPT !.pc = "reading", !.thread = thread,
                                          !.key = key]]
      /\ UNCHANGED <<posts, shared, marks, fresh, shown, reads, misled>>
  BY DEF Admit, SeenInv, SeenTypes
<1> HIDE DEF thread, key
<1> DEFINE w == [wakes[m] EXCEPT !.pc = "reading", !.thread = thread, !.key = key]
<1>5. /\ w \in WakeStates /\ w.pc = "reading" /\ w.thread = thread /\ w.key = key
      /\ w.newest = wakes[m].newest
  <2>1. wakes[m] \in WakeStates
    BY DEF SeenInv, SeenTypes
  <2> QED BY <1>2, <1>3, <2>1 DEF WakeStates
<1> HIDE DEF w
<1>6. /\ wakes' \in [Positions -> WakeStates]
      /\ wakes'[m].pc = "reading" /\ wakes'[m].thread = thread /\ wakes'[m].key = key
      /\ wakes'[m].newest = wakes[m].newest
      /\ \A x \in Positions : x # m => wakes'[x] = wakes[x]
  BY <1>4, <1>5, WakeSteps DEF SeenInv, w
<1>7. SeenTypes' /\ RepliesFollow' /\ ReadsAreWhole' /\ MarksAreShown'
  BY <1>4, <1>6 DEF SeenInv, SeenTypes, RepliesFollow, ReadsAreWhole, MarksAreShown
<1>8. WakesAreKeyed'
  <2>1. ThreadOf(key) = thread
    BY <1>1, <1>2, KeyNames DEF SeenInv, SeenTypes, key
  <2> QED BY <1>1, <1>2, <1>3, <1>4, <1>6, <2>1 DEF SeenInv, WakesAreKeyed, OnItsWay
<1>9. WakesAreDated' /\ WakesKnow'
  BY <1>1, <1>4, <1>6 DEF SeenInv, WakesAreDated, WakesKnow, Straight
<1>10. MarkedByReplies'
  BY <1>1, <1>4, <1>6, KeyThreads DEF SeenInv, MarkedByReplies, NotYetRooted, ReadsAreWhole
<1> QED BY <1>7, <1>8, <1>9, <1>10 DEF SeenInv

LEMMA ServeHistoryKeeps ==
  ASSUME SeenInv, NEW m \in Positions, ServeHistory(m)
  PROVE  SeenInv'
<1>1. /\ wakes[m].pc = "reading"
      /\ wakes' = [wakes EXCEPT ![m] = [wakes[m] EXCEPT !.pc = "served", !.asOf = Len(posts)]]
      /\ UNCHANGED <<posts, shared, marks, fresh, shown, reads, misled>>
  BY DEF ServeHistory, SeenInv, SeenTypes
<1>2. wakes \in [Positions -> WakeStates] /\ Len(posts) \in Nat
  BY DEF SeenInv, SeenTypes
<1>3. /\ wakes' \in [Positions -> WakeStates]
      /\ wakes'[m] = [wakes[m] EXCEPT !.pc = "served", !.asOf = Len(posts)]
      /\ \A x \in Positions : x # m => wakes'[x] = wakes[x]
  BY <1>1, <1>2 DEF WakeStates
<1>4. /\ wakes'[m].pc = "served" /\ wakes'[m].asOf = Len(posts)
      /\ wakes'[m].newest = wakes[m].newest /\ wakes'[m].thread = wakes[m].thread
      /\ wakes'[m].key = wakes[m].key
  BY <1>2, <1>3 DEF WakeStates
<1>5. m \in 1 .. Len(posts)
  BY <1>1 DEF SeenInv, SeenTypes, WakesAreKeyed
<1>6. SeenTypes' /\ RepliesFollow' /\ ReadsAreWhole' /\ MarksAreShown'
  BY <1>1, <1>3 DEF SeenInv, SeenTypes, RepliesFollow, ReadsAreWhole, MarksAreShown
<1>7. WakesAreKeyed'
  BY <1>1, <1>3, <1>4 DEF SeenInv, WakesAreKeyed, OnItsWay
<1>8. WakesAreDated' /\ WakesKnow'
  BY <1>1, <1>2, <1>3, <1>4, <1>5 DEF SeenInv, WakesAreDated, WakesKnow, Straight
<1>9. MarkedByReplies'
  BY <1>1, <1>3, <1>4, KeyThreads DEF SeenInv, MarkedByReplies, NotYetRooted, ReadsAreWhole
<1> QED BY <1>6, <1>7, <1>8, <1>9 DEF SeenInv

LEMMA HistoryFailsKeeps ==
  ASSUME SeenInv, NEW m \in Positions, HistoryFails(m)
  PROVE  SeenInv'
<1>1. /\ wakes[m].pc = "reading"
      /\ wakes' = [wakes EXCEPT ![m] = [wakes[m] EXCEPT !.pc = "ready"]]
      /\ UNCHANGED <<posts, shared, marks, fresh, shown, reads, misled>>
  BY DEF HistoryFails, SeenInv, SeenTypes
<1>2. wakes \in [Positions -> WakeStates]
  BY DEF SeenInv, SeenTypes
<1>3. /\ wakes' \in [Positions -> WakeStates]
      /\ wakes'[m].pc = "ready"
      /\ wakes'[m].newest = wakes[m].newest /\ wakes'[m].thread = wakes[m].thread
      /\ wakes'[m].key = wakes[m].key
      /\ \A x \in Positions : x # m => wakes'[x] = wakes[x]
  BY <1>1, <1>2 DEF WakeStates
<1>4. wakes[m].newest = NoMark
  BY <1>1 DEF SeenInv, WakesAreDated
<1>5. SeenTypes' /\ RepliesFollow' /\ ReadsAreWhole' /\ MarksAreShown'
  BY <1>1, <1>3 DEF SeenInv, SeenTypes, RepliesFollow, ReadsAreWhole, MarksAreShown
<1>6. WakesAreKeyed'
  BY <1>1, <1>3 DEF SeenInv, WakesAreKeyed, OnItsWay
<1>7. WakesAreDated' /\ WakesKnow'
  BY <1>1, <1>3, <1>4 DEF SeenInv, WakesAreDated, WakesKnow, Straight
<1>8. MarkedByReplies'
  BY <1>1, <1>3, KeyThreads DEF SeenInv, MarkedByReplies, NotYetRooted, ReadsAreWhole
<1> QED BY <1>5, <1>6, <1>7, <1>8 DEF SeenInv

\* The messages left out of the wake are its own, the agent's, and those up to
\* a mark that is among what was read: MarksAreShown says the session has them.
LEMMA HistoryReadyKeeps ==
  ASSUME SeenInv, NEW m \in Positions, HistoryReady(m)
  PROVE  SeenInv'
<1> DEFINE thread == posts[m].thread
           read   == HistoryOf(posts, thread, wakes[m].asOf)
           unseen == UnseenMessages(read, m, MarkFor(wakes[m].key))
<1>1. /\ wakes[m].pc = "served"
      /\ wakes' = [wakes EXCEPT ![m] = [wakes[m] EXCEPT !.pc = "ready",
                     !.newest = Newest(read), !.unseen = unseen]]
      /\ UNCHANGED <<posts, shared, marks, fresh, shown, reads, misled>>
  BY ServedIsHistory DEF HistoryReady, NewestOf, SeenInv, SeenTypes
<1>2. wakes \in [Positions -> WakeStates] /\ Len(posts) \in Nat
  BY DEF SeenInv, SeenTypes
<1>3. /\ wakes[m].asOf \in m .. Len(posts) /\ wakes[m].asOf \in Nat /\ m \in 1 .. Len(posts)
      /\ wakes[m].newest = NoMark /\ wakes[m].key \in Keys
      /\ wakes[m].thread = thread \/ (thread = NoThread /\ wakes[m].thread = m)
      /\ ThreadOf(wakes[m].key) = wakes[m].thread
      /\ posts[m].by \in Senders /\ wakes[m].thread \in Positions \cup {NoThread}
  BY <1>1, <1>2 DEF SeenInv, SeenTypes, WakesAreKeyed, WakesAreDated, OnItsWay, WakeStates,
       Positions
<1>4. read \subseteq 1 .. wakes[m].asOf
  BY HistoryIsUpTo
<1>5. read \subseteq Positions
  BY <1>3, <1>4, SeenHistoryAssumption DEF SeenInv, SeenTypes, Positions, SeenHistoryAssumption
<1>6. unseen \in SUBSET Positions
  BY <1>5 DEF UnseenMessages
<1>7. Newest(read) \in Nat
  <2>1. CASE Newest(read) = NoMark
    BY <2>1 DEF NoMark
  <2>2. CASE Newest(read) # NoMark
    BY <1>3, <2>2, HistoryToNewest
  <2> QED BY <2>1, <2>2
<1> DEFINE w == [wakes[m] EXCEPT !.pc = "ready", !.newest = Newest(read), !.unseen = unseen]
<1>8. ThreadOf(wakes[m].key) = wakes[m].thread
  BY <1>3
<1>9. wakes[m].key \notin misled =>
        \A i \in read : posts[i].by = Me \/ i \in shown[wakes[m].key] \/ i = m \/ i \in unseen
  <2> DEFINE k == wakes[m].key
             mark == marks[k]
  <2> SUFFICES ASSUME k \notin misled,
                      NEW i \in read, posts[i].by # Me, i # m, i \notin unseen
               PROVE  i \in shown[k]
    OBVIOUS
  <2>1. MarkFor(k) \in read /\ ~(i > MarkFor(k))
    BY DEF UnseenMessages
  <2>2. k \in fresh /\ MarkFor(k) = mark /\ mark \in 1 .. wakes[m].asOf /\ i \in 1 .. wakes[m].asOf
    BY <1>4, <2>1 DEF MarkFor, NoMark
  <2>3. wakes[m].thread = thread
    <3> SUFFICES ASSUME thread = NoThread, wakes[m].thread = m PROVE FALSE
      BY <1>3
    <3>1. NotYetRooted(k)
      BY <1>1, <1>3, <1>8 DEF NotYetRooted, NoThread
    <3>2. posts[mark].thread = m
      BY <1>3, <1>8, <2>2, <3>1 DEF SeenInv, MarkedByReplies, NoMark
    <3>3. posts[mark].thread = NoThread
      BY <2>1, <2>2 DEF HistoryOf
    <3> QED BY <1>3, <3>2, <3>3 DEF NoThread
  <2>4. i \in HistoryOf(posts, thread, mark) /\ mark \in HistoryOf(posts, thread, mark)
    <3>1. i <= mark /\ mark \in 0 .. wakes[m].asOf
      BY <1>3, <2>1, <2>2
    <3> HIDE DEF mark, thread, read
    <3>2. mark <= mark /\ mark \in read
      BY <2>1, <2>2, <3>1
    <3> QED BY <1>3, <3>1, <3>2, HistoryShrinks DEF read
  <2> QED BY <1>8, <2>2, <2>3, <2>4 DEF SeenInv, MarksAreShown
<1> HIDE DEF unseen, read
<1>10. /\ w \in WakeStates
       /\ w.pc = "ready" /\ w.newest = Newest(read) /\ w.unseen = unseen
       /\ w.thread = wakes[m].thread /\ w.key = wakes[m].key /\ w.asOf = wakes[m].asOf
  <2>1. wakes[m] \in WakeStates
    BY <1>2
  <2> QED BY <1>6, <1>7, <2>1 DEF WakeStates
<1> HIDE DEF w
<1>11. /\ wakes' \in [Positions -> WakeStates] /\ wakes'[m] = w
       /\ \A x \in Positions : x # m => wakes'[x] = wakes[x]
  BY <1>1, <1>10, WakeSteps DEF SeenInv, w
<1>12. SeenTypes' /\ RepliesFollow' /\ ReadsAreWhole' /\ MarksAreShown'
  BY <1>1, <1>11 DEF SeenInv, SeenTypes, RepliesFollow, ReadsAreWhole, MarksAreShown
<1>13. WakesAreKeyed'
  BY <1>1, <1>10, <1>11 DEF SeenInv, WakesAreKeyed, OnItsWay
<1>14. WakesAreDated'
  BY <1>1, <1>3, <1>10, <1>11 DEF SeenInv, WakesAreDated, read
<1>15. WakesKnow'
  <2> SUFFICES ASSUME NEW x \in Positions, wakes'[x].pc \in {"ready", "dispatched"},
                      wakes'[x].newest # NoMark, Straight(x)',
                      NEW i \in HistoryOf(posts, posts[x].thread, wakes'[x].asOf)
               PROVE  \/ posts[i].by = Me \/ i \in shown[wakes'[x].key]
                      \/ wakes'[x].pc = "ready" /\ (i = x \/ i \in wakes'[x].unseen)
    BY <1>1 DEF WakesKnow, Straight
  <2>1. CASE x = m
    BY <1>1, <1>9, <1>10, <1>11, <2>1 DEF read, Straight
  <2>2. CASE x # m
    BY <1>1, <1>11, <2>2 DEF SeenInv, WakesKnow, Straight
  <2> QED BY <2>1, <2>2
<1>16. MarkedByReplies'
  BY <1>1, <1>10, <1>11, KeyThreads DEF SeenInv, MarkedByReplies, NotYetRooted, ReadsAreWhole
<1> QED BY <1>12, <1>13, <1>14, <1>15, <1>16 DEF SeenInv

LEMMA DispatchKeeps ==
  ASSUME SeenInv, NEW m \in Positions, Dispatch(m)
  PROVE  SeenInv'
<1> DEFINE session == HistoryKey(wakes[m].thread, posts[m].by, shared)
           w == [wakes[m] EXCEPT !.pc = "dispatched", !.session = session]
<1>1. /\ wakes[m].pc = "ready" /\ m \in DOMAIN posts
      /\ wakes[m] \in WakeStates /\ wakes[m].key \in Keys
      /\ ThreadOf(wakes[m].key) = wakes[m].thread
      /\ posts[m].by \in Senders /\ wakes[m].thread \in Positions \cup {NoThread}
      /\ wakes[m].unseen \in SUBSET Positions
      /\ \/ wakes[m].thread = posts[m].thread
         \/ posts[m].thread = NoThread /\ wakes[m].thread = m
  BY DEF Dispatch, SeenInv, SeenTypes, WakesAreKeyed, OnItsWay, WakeStates
<1>2. session \in Keys /\ ThreadOf(session) = wakes[m].thread
  BY <1>1, KeyNames DEF SeenInv, SeenTypes
<1>3. /\ wakes' = [wakes EXCEPT ![m] = w]
      /\ shown' = [shown EXCEPT ![session] = @ \cup wakes[m].unseen \cup {m}]
      /\ UNCHANGED <<posts, shared, marks, fresh, reads, misled>>
  BY <1>1 DEF Dispatch, SeenInv, SeenTypes
<1> HIDE DEF session
<1>4. /\ w \in WakeStates /\ w.pc = "dispatched" /\ w.session = session
      /\ w.key = wakes[m].key /\ w.thread = wakes[m].thread /\ w.newest = wakes[m].newest
      /\ w.asOf = wakes[m].asOf
  BY <1>1, <1>2 DEF WakeStates
<1> HIDE DEF w
<1>5. /\ wakes' \in [Positions -> WakeStates] /\ wakes'[m] = w
      /\ \A x \in Positions : x # m => wakes'[x] = wakes[x]
  BY <1>3, <1>4, WakeSteps DEF SeenInv
<1>6. /\ shown' \in [Keys -> SUBSET Positions]
      /\ \A k \in Keys : shown[k] \subseteq shown'[k]
      /\ wakes[m].unseen \cup {m} \subseteq shown'[session]
  BY <1>1, <1>2, <1>3 DEF SeenInv, SeenTypes
<1>7. SeenTypes' /\ RepliesFollow' /\ ReadsAreWhole'
  BY <1>3, <1>5, <1>6 DEF SeenInv, SeenTypes, RepliesFollow, ReadsAreWhole
<1>8. WakesAreKeyed'
  BY <1>1, <1>2, <1>3, <1>4, <1>5, <1>6 DEF SeenInv, WakesAreKeyed, OnItsWay
<1>9. WakesAreDated'
  BY <1>1, <1>3, <1>4, <1>5 DEF SeenInv, WakesAreDated
<1>10. WakesKnow'
  <2> SUFFICES ASSUME NEW x \in Positions, wakes'[x].pc \in {"ready", "dispatched"},
                      wakes'[x].newest # NoMark, Straight(x)',
                      NEW i \in HistoryOf(posts, posts[x].thread, wakes'[x].asOf)
               PROVE  \/ posts[i].by = Me \/ i \in shown'[wakes'[x].key]
                      \/ wakes'[x].pc = "ready" /\ (i = x \/ i \in wakes'[x].unseen)
    BY <1>3 DEF WakesKnow, Straight
  <2>1. CASE x = m
    BY <1>1, <1>3, <1>4, <1>5, <1>6, <2>1 DEF SeenInv, WakesKnow, Straight
  <2>2. CASE x # m
    <3>1. wakes[x].key \in Keys
      BY <1>5, <2>2 DEF SeenInv, WakesAreKeyed
    <3> QED BY <1>3, <1>5, <1>6, <2>2, <3>1 DEF SeenInv, WakesKnow, Straight
  <2> QED BY <2>1, <2>2
<1>11. MarkedByReplies'
  BY <1>1, <1>3, <1>4, <1>5, KeyThreads
  DEF SeenInv, MarkedByReplies, NotYetRooted, ReadsAreWhole
<1>12. MarksAreShown'
  BY <1>3, <1>6 DEF SeenInv, SeenTypes, MarksAreShown
<1> QED BY <1>7, <1>8, <1>9, <1>10, <1>11, <1>12 DEF SeenInv

LEMMA ControlTurnKeeps ==
  ASSUME SeenInv, NEW m \in Positions, ControlTurn(m)
  PROVE  SeenInv'
<1> DEFINE key == HistoryKey(posts[m].thread, Principal, shared)
           w   == [wakes[m] EXCEPT !.pc = "done", !.session = key, !.key = key,
                                   !.thread = posts[m].thread]
<1>1. /\ wakes[m].pc = "none" /\ m \in DOMAIN posts /\ posts[m].by = Principal
      /\ wakes[m] \in WakeStates
  BY DEF ControlTurn, SeenInv, SeenTypes
<1>2. posts[m].thread \in Positions \cup {NoThread} /\ Principal \in Senders
  BY <1>1, PostIsTyped, SeenHistoryAssumption DEF SeenInv, SeenHistoryAssumption
<1>3. key \in Keys /\ ThreadOf(key) = posts[m].thread
  BY <1>2, KeyNames DEF SeenInv, SeenTypes
<1>4. /\ wakes' = [wakes EXCEPT ![m] = w]
      /\ shown' = [shown EXCEPT ![key] = @ \cup {m}]
      /\ UNCHANGED <<posts, shared, marks, fresh, reads, misled>>
  BY DEF ControlTurn, SeenInv, SeenTypes
<1> HIDE DEF key
<1>5. /\ w \in WakeStates /\ w.pc = "done" /\ w.session = key
      /\ w.key = key /\ w.thread = posts[m].thread /\ w.newest = wakes[m].newest
  BY <1>1, <1>2, <1>3 DEF WakeStates
<1> HIDE DEF w
<1>6. /\ wakes' \in [Positions -> WakeStates] /\ wakes'[m] = w
      /\ \A x \in Positions : x # m => wakes'[x] = wakes[x]
  BY <1>4, <1>5, WakeSteps DEF SeenInv
<1>7. /\ shown' \in [Keys -> SUBSET Positions]
      /\ \A k \in Keys : shown[k] \subseteq shown'[k]
  BY <1>3, <1>4 DEF SeenInv, SeenTypes
<1>8. SeenTypes' /\ RepliesFollow' /\ ReadsAreWhole'
  BY <1>4, <1>6, <1>7 DEF SeenInv, SeenTypes, RepliesFollow, ReadsAreWhole
<1>9. WakesAreKeyed'
  BY <1>1, <1>2, <1>3, <1>4, <1>5, <1>6, <1>7 DEF SeenInv, WakesAreKeyed, OnItsWay
<1>10. WakesAreDated'
  BY <1>4, <1>5, <1>6 DEF SeenInv, WakesAreDated
<1>11. WakesKnow'
  <2> SUFFICES ASSUME NEW x \in Positions, wakes'[x].pc \in {"ready", "dispatched"},
                      wakes'[x].newest # NoMark, Straight(x)',
                      NEW i \in HistoryOf(posts, posts[x].thread, wakes'[x].asOf)
               PROVE  \/ posts[i].by = Me \/ i \in shown'[wakes'[x].key]
                      \/ wakes'[x].pc = "ready" /\ (i = x \/ i \in wakes'[x].unseen)
    BY <1>4 DEF WakesKnow, Straight
  <2>1. x # m /\ wakes[x].key \in Keys
    BY <1>5, <1>6 DEF SeenInv, WakesAreKeyed
  <2> QED BY <1>4, <1>6, <1>7, <2>1 DEF SeenInv, WakesKnow, Straight
<1>12. MarkedByReplies'
  BY <1>1, <1>4, <1>5, <1>6, KeyThreads
  DEF SeenInv, MarkedByReplies, NotYetRooted, ReadsAreWhole
<1>13. MarksAreShown'
  BY <1>4, <1>7 DEF SeenInv, SeenTypes, MarksAreShown
<1> QED BY <1>8, <1>9, <1>10, <1>11, <1>12, <1>13 DEF SeenInv

LEMMA MarkMoves ==
  ASSUME SeenTypes, NEW k \in Keys, NEW v \in 0 .. Len(posts), RecordMark(k, v)
  PROVE  /\ marks' \in [Keys -> 0 .. Len(posts)] /\ fresh' \subseteq Keys
         /\ \A x \in Keys : x # k => marks'[x] = marks[x] /\ (x \in fresh' => x \in fresh)
         /\ \/ marks'[k] = marks[k] /\ (k \in fresh' => k \in fresh)
            \/ v # NoMark /\ marks'[k] = v
BY DEF SeenTypes, RecordMark

\* A mark moves to the newest message of a history the session has.
LEMMA RecordedIsShown ==
  ASSUME SeenTypes, MarksAreShown, NEW k \in Keys, NEW v \in 0 .. Len(posts),
         RecordMark(k, v), posts' = posts, \A x \in Keys : shown[x] \subseteq shown'[x],
         misled \subseteq misled',
         (k \notin misled' /\ v # NoMark /\ v \in HistoryOf(posts, ThreadOf(k), v)) =>
            \A i \in HistoryOf(posts, ThreadOf(k), v) : posts[i].by = Me \/ i \in shown'[k]
  PROVE  MarksAreShown'
<1> SUFFICES ASSUME NEW x \in fresh', x \notin misled', marks'[x] \in HistoryOf(posts, ThreadOf(x), marks'[x]),
                    NEW i \in HistoryOf(posts, ThreadOf(x), marks'[x])
             PROVE  posts[i].by = Me \/ i \in shown'[x]
  BY DEF MarksAreShown
<1>1. x \in Keys
  BY MarkMoves
<1>2. CASE x = k /\ v # NoMark /\ marks'[k] = v
  BY <1>2
<1>3. CASE marks'[x] = marks[x] /\ x \in fresh
  BY <1>1, <1>3 DEF MarksAreShown
<1> QED BY <1>1, <1>2, <1>3, MarkMoves

\* A read of the thread of a message, taken since it was posted, shows it.
LEMMA OwnReplyIsRead ==
  ASSUME NEW m \in 1 .. Len(posts), NEW n \in m .. Len(posts), posts[m].thread # NoThread
  PROVE  m \in HistoryOf(posts, posts[m].thread, n)
BY DEF HistoryOf

\* The newest message of a read that shows a reply is a reply.
LEMMA NewestReplies ==
  ASSUME SeenTypes, RepliesFollow, NEW n \in 0 .. Len(posts),
         NEW t \in Positions, NEW i \in HistoryOf(posts, t, n), posts[i].thread = t
  PROVE  /\ Newest(HistoryOf(posts, t, n)) # NoMark
         /\ posts[Newest(HistoryOf(posts, t, n))].thread = t
<1> DEFINE H == HistoryOf(posts, t, n)
           v == Newest(H)
<1>1. H \in SUBSET (1 .. n) /\ H # {} /\ n \in Nat
  BY HistoryIsUpTo DEF SeenTypes
<1>2. v \in H /\ v \in 1 .. n /\ \A j \in H : j <= v
  <2> HIDE DEF H
  <2> QED BY <1>1, NewestIsMax
<1>3. i \in 1 .. n /\ i \in DOMAIN posts /\ i <= v
  BY <1>1, <1>2 DEF SeenTypes
<1> HIDE DEF v
<1>4. t # NoThread /\ t \in Nat
  BY SeenHistoryAssumption DEF Positions, NoThread, SeenHistoryAssumption
<1>5. t < i
  BY <1>3, <1>4 DEF RepliesFollow
<1>6. v = t \/ posts[v].thread = t
  BY <1>2, <1>4 DEF HistoryOf
<1>7. v # t /\ v # NoMark
  BY <1>2, <1>3, <1>4, <1>5 DEF NoMark
<1> QED BY <1>6, <1>7 DEF v

LEMMA RecordKeeps ==
  ASSUME SeenInv, NEW m \in Positions, Record(m)
  PROVE  SeenInv'
<1> DEFINE w == [wakes[m] EXCEPT !.pc = "done"]
           k == wakes[m].key
           v == wakes[m].newest
           t == posts[m].thread
           n == wakes[m].asOf
<1>1. /\ wakes[m].pc = "dispatched" /\ m \in 1 .. Len(posts) /\ k \in Keys
      /\ wakes[m] \in WakeStates /\ posts[m].by \in Senders
      /\ ThreadOf(k) = wakes[m].thread
      /\ wakes[m].thread \in Positions \cup {NoThread} /\ m \in shown[wakes[m].session]
      /\ wakes[m].thread = t \/ (t = NoThread /\ wakes[m].thread = m)
  BY DEF Record, SeenInv, SeenTypes, WakesAreKeyed, OnItsWay, WakeStates
<1>2. ThreadOf(k) = wakes[m].thread
  BY <1>1
<1>3. /\ wakes' = [wakes EXCEPT ![m] = w] /\ RecordMark(k, v)
      /\ UNCHANGED <<posts, shared, shown, reads>>
      /\ misled \subseteq misled' /\ misled' \subseteq misled \cup {k}
      /\ (v # NoMark /\ k # wakes[m].session) => k \in misled'
  BY DEF Record, SeenInv, SeenTypes
<1>4. /\ w \in WakeStates /\ w.pc = "done" /\ w.session = wakes[m].session
      /\ w.key = k /\ w.thread = wakes[m].thread
  BY <1>1 DEF WakeStates
<1> HIDE DEF w
<1>5. /\ wakes' \in [Positions -> WakeStates] /\ wakes'[m] = w
      /\ \A x \in Positions : x # m => wakes'[x] = wakes[x]
  BY <1>3, <1>4, WakeSteps DEF SeenInv
<1>6. v # NoMark => /\ n \in m .. Len(posts) /\ n \in Nat /\ v = Newest(HistoryOf(posts, t, n))
                    /\ v \in HistoryOf(posts, t, n) /\ v \in 1 .. n
                    /\ HistoryOf(posts, t, v) = HistoryOf(posts, t, n)
  <2> SUFFICES ASSUME v # NoMark
               PROVE  /\ n \in m .. Len(posts) /\ n \in Nat
                      /\ v = Newest(HistoryOf(posts, t, n))
                      /\ v \in HistoryOf(posts, t, n) /\ v \in 1 .. n
                      /\ HistoryOf(posts, t, v) = HistoryOf(posts, t, n)
    OBVIOUS
  <2>1. n \in m .. Len(posts) /\ v = Newest(HistoryOf(posts, t, n))
    BY <1>1 DEF SeenInv, WakesAreDated
  <2>2. n \in Nat
    BY <1>1, <2>1
  <2> HIDE DEF v, n, t
  <2> QED BY <2>1, <2>2, HistoryToNewest
<1>7. v \in 0 .. Len(posts)
  <2>1. Len(posts) \in Nat
    BY DEF SeenInv, SeenTypes
  <2>2. CASE v = NoMark
    BY <2>1, <2>2 DEF NoMark
  <2>3. CASE v # NoMark
    BY <1>1, <1>6, <2>1, <2>3
  <2> QED BY <2>2, <2>3
<1>8. SeenTypes' /\ RepliesFollow' /\ ReadsAreWhole'
  BY <1>1, <1>3, <1>5, <1>7, MarkMoves DEF SeenInv, SeenTypes, RepliesFollow, ReadsAreWhole
<1>9. WakesAreKeyed'
  BY <1>1, <1>3, <1>4, <1>5 DEF SeenInv, WakesAreKeyed, OnItsWay
<1>10. WakesAreDated' /\ WakesKnow'
  BY <1>1, <1>3, <1>4, <1>5 DEF SeenInv, WakesAreDated, WakesKnow, Straight
<1>11. MarkedByReplies'
  <2>1. \A x \in Keys : NotYetRooted(x)' => NotYetRooted(x)
    BY <1>4, <1>5, KeyThreads DEF NotYetRooted
  <2>2. \A r \in reads : r.session \in Keys
    BY DEF SeenInv, ReadsAreWhole
  <2>3. ASSUME NEW x \in Keys, x = k, NotYetRooted(x)', v # NoMark
        PROVE  posts[v].thread = ThreadOf(x)
    <3>1. ThreadOf(k) = t /\ t \in Positions /\ t # NoThread
      BY <1>1, <1>2, <1>4, <1>5, <2>3 DEF NotYetRooted
    <3>2. m \in HistoryOf(posts, t, n) /\ n \in 0 .. Len(posts)
      BY <1>1, <1>6, <2>3, <3>1, OwnReplyIsRead
    <3> HIDE DEF v, n, k
    <3>3. posts[Newest(HistoryOf(posts, t, n))].thread = t
      BY <3>1, <3>2, NewestReplies DEF SeenInv
    <3> QED BY <1>6, <2>3, <3>1, <3>3
  <2> HIDE DEF v, k
  <2>4. ASSUME NEW x \in Keys, NotYetRooted(x)'
        PROVE  marks'[x] = NoMark \/ posts[marks'[x]].thread = ThreadOf(x)
    <3>1. CASE marks'[x] = marks[x]
      BY <2>1, <2>4, <3>1 DEF SeenInv, MarkedByReplies
    <3>2. CASE x = k /\ v # NoMark /\ marks'[k] = v
      BY <2>3, <2>4, <3>2
    <3> QED BY <1>1, <1>3, <1>7, <3>1, <3>2, MarkMoves DEF SeenInv
  <2> QED BY <1>3, <2>1, <2>2, <2>4 DEF SeenInv, MarkedByReplies
<1>12. (k \notin misled' /\ v # NoMark /\ v \in HistoryOf(posts, ThreadOf(k), v)) =>
          \A i \in HistoryOf(posts, ThreadOf(k), v) : posts[i].by = Me \/ i \in shown'[k]
  <2> SUFFICES ASSUME k \notin misled', v # NoMark, v \in HistoryOf(posts, ThreadOf(k), v),
                      NEW i \in HistoryOf(posts, ThreadOf(k), v)
               PROVE  posts[i].by = Me \/ i \in shown'[k]
    OBVIOUS
  <2>0. k = wakes[m].session /\ Straight(m)
    BY <1>3 DEF Straight
  <2>1. CASE wakes[m].thread = t
    <3>1. i \in HistoryOf(posts, t, n)
      BY <1>2, <1>6, <2>1
    <3> QED BY <1>1, <1>3, <2>0, <3>1 DEF SeenInv, WakesKnow
  <2>2. CASE t = NoThread /\ wakes[m].thread = m
    <3>1. posts[v].thread = NoThread
      BY <1>6, <2>2 DEF HistoryOf
    <3>2. m # NoThread
      BY <1>1 DEF NoThread
    <3>3. v = m
      BY <1>2, <2>2, <3>1, <3>2 DEF HistoryOf
    <3>4. i \in 1 .. m /\ (i = m \/ posts[i].thread = m)
      BY <1>2, <2>2, <3>2, <3>3 DEF HistoryOf
    <3>5. i = m
      BY <1>1, <3>2, <3>4 DEF SeenInv, RepliesFollow
    <3> QED BY <1>1, <1>3, <2>0, <3>5
  <2> QED BY <1>1, <2>1, <2>2
<1>13. MarksAreShown'
  <2> HIDE DEF v, k
  <2>1. \A x \in Keys : shown[x] \subseteq shown'[x]
    BY <1>3
  <2> QED BY <1>1, <1>3, <1>7, <1>12, <2>1, RecordedIsShown DEF SeenInv
<1> QED BY <1>8, <1>9, <1>10, <1>11, <1>13 DEF SeenInv

LEMMA ModelReadsKeeps ==
  ASSUME SeenInv, NEW m \in Positions, ModelReads(m)
  PROVE  SeenInv'
<1> DEFINE n == Len(posts)
           k == wakes[m].session
           t == wakes[m].thread
           r == [session |-> k, got |-> HistoryOf(posts, t, n)]
<1>1. /\ reads' = reads \cup {r}
      /\ UNCHANGED <<posts, shared, marks, fresh, shown, wakes, misled>>
  BY ServedIsHistory DEF ModelReads
<1>2. /\ wakes[m].pc \in {"dispatched", "done"} /\ m \in 1 .. n /\ n \in Nat
      /\ k \in Keys /\ ThreadOf(k) = t
      /\ t = posts[m].thread \/ (posts[m].thread = NoThread /\ t = m)
  BY DEF ModelReads, SeenInv, SeenTypes, WakesAreKeyed
<1>3. ReadsAreWhole'
  <2> SUFFICES ASSUME NEW x \in reads \cup {r}
               PROVE  /\ x.session \in Keys
                      /\ \E u \in 0 .. n : x.got = HistoryOf(posts, ThreadOf(x.session), u)
    BY <1>1 DEF ReadsAreWhole
  <2>1. CASE x \in reads
    BY <2>1 DEF SeenInv, ReadsAreWhole
  <2>2. CASE x = r
    BY <1>2, <2>2
  <2> QED BY <2>1, <2>2
<1>4. MarkedByReplies'
  <2>1. ASSUME NotYetRooted(k)
        PROVE  \E i \in HistoryOf(posts, t, n) : posts[i].thread = t
    <3>1. t # NoThread /\ t = posts[m].thread
      BY <1>2, <2>1 DEF NotYetRooted
    <3>2. m \in HistoryOf(posts, posts[m].thread, n)
      BY <1>2, <3>1, OwnReplyIsRead
    <3> QED BY <3>1, <3>2
  <2>2. \A x : NotYetRooted(x)' <=> NotYetRooted(x)
    BY <1>1 DEF NotYetRooted
  <2>3. ASSUME NEW x \in reads \cup {r}, NotYetRooted(x.session)
        PROVE  \E i \in x.got : posts[i].thread = ThreadOf(x.session)
    <3>1. CASE x \in reads
      BY <2>3, <3>1 DEF SeenInv, MarkedByReplies
    <3>2. CASE x = r
      <4>1. x.session = k /\ x.got = HistoryOf(posts, t, n)
        BY <3>2
      <4> QED BY <1>2, <2>1, <2>3, <4>1
    <3> QED BY <3>1, <3>2
  <2> HIDE DEF r
  <2> QED BY <1>1, <2>2, <2>3 DEF SeenInv, MarkedByReplies, NotYetRooted
<1> HIDE DEF r
<1> QED BY <1>1, <1>3, <1>4 DEF SeenInv, SeenTypes, RepliesFollow, WakesAreKeyed, OnItsWay,
          WakesAreDated, WakesKnow, Straight, MarksAreShown

LEMMA ReadReturnsKeeps ==
  ASSUME SeenInv, NEW r \in reads, ReadReturns(r)
  PROVE  SeenInv'
<1> DEFINE v == Newest(r.got)
           k == r.session
           t == ThreadOf(r.session)
<1>1. /\ reads' = reads \ {r} /\ RecordMark(k, v)
      /\ shown' = [shown EXCEPT ![k] = @ \cup r.got]
      /\ UNCHANGED <<posts, shared, wakes, misled>>
  BY DEF ReadReturns, NewestOf
<1>2. k \in Keys /\ Len(posts) \in Nat /\ Len(posts) <= MaxPosts
  BY DEF SeenInv, SeenTypes, ReadsAreWhole
<1>3. PICK n \in 0 .. Len(posts) : r.got = HistoryOf(posts, t, n)
  BY DEF SeenInv, ReadsAreWhole
<1>4. r.got \subseteq 1 .. n /\ n \in Nat /\ r.got \in SUBSET Positions
  BY <1>2, <1>3, HistoryIsUpTo, SeenHistoryAssumption DEF Positions, SeenHistoryAssumption
<1>5. v # NoMark => v \in 1 .. n /\ HistoryOf(posts, t, v) = r.got
  <2> SUFFICES ASSUME v # NoMark
               PROVE  v \in 1 .. n /\ HistoryOf(posts, t, v) = r.got
    OBVIOUS
  <2>1. v = Newest(HistoryOf(posts, t, n))
    BY <1>3
  <2> HIDE DEF v, t
  <2> QED BY <1>3, <1>4, <2>1, HistoryToNewest
<1>6. v \in 0 .. Len(posts)
  BY <1>2, <1>3, <1>5 DEF NoMark
<1> HIDE DEF v
<1>7. /\ shown' \in [Keys -> SUBSET Positions]
      /\ \A x \in Keys : shown[x] \subseteq shown'[x]
      /\ r.got \subseteq shown'[k]
  BY <1>1, <1>2, <1>4 DEF SeenInv, SeenTypes
<1>8. SeenTypes' /\ RepliesFollow' /\ ReadsAreWhole'
  BY <1>1, <1>2, <1>6, <1>7, MarkMoves DEF SeenInv, SeenTypes, RepliesFollow, ReadsAreWhole
<1>9. WakesAreKeyed' /\ WakesAreDated'
  BY <1>1, <1>7 DEF SeenInv, WakesAreKeyed, WakesAreDated, OnItsWay
<1>10. WakesKnow'
  <2> SUFFICES ASSUME NEW x \in Positions, wakes[x].pc \in {"ready", "dispatched"},
                      wakes[x].newest # NoMark, Straight(x),
                      NEW i \in HistoryOf(posts, posts[x].thread, wakes[x].asOf)
               PROVE  \/ posts[i].by = Me \/ i \in shown'[wakes[x].key]
                      \/ wakes[x].pc = "ready" /\ (i = x \/ i \in wakes[x].unseen)
    BY <1>1 DEF WakesKnow, Straight
  <2>1. wakes[x].key \in Keys
    BY DEF SeenInv, WakesAreKeyed
  <2> QED BY <1>7, <2>1 DEF SeenInv, WakesKnow, Straight
<1>11. MarkedByReplies'
  <2>1. \A x : NotYetRooted(x)' <=> NotYetRooted(x)
    BY <1>1 DEF NotYetRooted
  <2>2. ASSUME NotYetRooted(k), v # NoMark
        PROVE  posts[v].thread = t
    <3>1. t \in Positions
      BY <1>2, <2>2, KeyThreads DEF NotYetRooted
    <3>2. PICK i \in r.got : posts[i].thread = t
      BY <2>2 DEF SeenInv, MarkedByReplies
    <3>3. v = Newest(HistoryOf(posts, t, n)) /\ i \in HistoryOf(posts, t, n)
      BY <1>3, <3>2 DEF v
    <3> HIDE DEF t
    <3> QED BY <3>1, <3>2, <3>3, NewestReplies DEF SeenInv
  <2>3. ASSUME NEW x \in Keys, NotYetRooted(x)
        PROVE  marks'[x] = NoMark \/ posts[marks'[x]].thread = ThreadOf(x)
    <3>1. CASE marks'[x] = marks[x]
      BY <2>3, <3>1 DEF SeenInv, MarkedByReplies
    <3>2. CASE x = k /\ v # NoMark /\ marks'[k] = v
      BY <2>2, <2>3, <3>2
    <3> HIDE DEF k
    <3> QED BY <1>1, <1>2, <1>6, <3>1, <3>2, MarkMoves DEF SeenInv
  <2>4. \A x \in Keys : NotYetRooted(x)' =>
           marks'[x] = NoMark \/ posts'[marks'[x]].thread = ThreadOf(x)
    BY <1>1, <2>1, <2>3
  <2> HIDE DEF k
  <2>5. \A x \in reads : NotYetRooted(x.session)' => NotYetRooted(x.session)
    BY <2>1
  <2> QED BY <1>1, <2>4, <2>5 DEF SeenInv, MarkedByReplies
<1>12. MarksAreShown'
  <2>1. (k \notin misled' /\ v # NoMark /\ v \in HistoryOf(posts, ThreadOf(k), v)) =>
           \A i \in HistoryOf(posts, ThreadOf(k), v) : posts[i].by = Me \/ i \in shown'[k]
    BY <1>5, <1>7
  <2> HIDE DEF k
  <2> QED BY <1>1, <1>2, <1>6, <1>7, <2>1, RecordedIsShown DEF SeenInv
<1> QED BY <1>8, <1>9, <1>10, <1>11, <1>12 DEF SeenInv

\* SeenInv is inductive, whenever the session flag flips.
LEMMA SeenStep ==
  ASSUME SeenInv, [SeenNext]_seenVars
  PROVE  SeenInv'
<1>1. CASE Post
  BY <1>1, PostKeeps
<1>2. CASE FlipFlag
  BY <1>2, FlipFlagKeeps
<1>3. CASE DayPasses
  BY <1>3, DayPassesKeeps
<1>4. ASSUME NEW m \in Positions,
             \/ Admit(m) \/ ServeHistory(m) \/ HistoryFails(m) \/ HistoryReady(m)
             \/ Dispatch(m) \/ Record(m) \/ ControlTurn(m) \/ ModelReads(m)
      PROVE  SeenInv'
  BY <1>4, AdmitKeeps, ServeHistoryKeeps, HistoryFailsKeeps, HistoryReadyKeeps,
     DispatchKeeps, RecordKeeps, ControlTurnKeeps, ModelReadsKeeps
<1>5. ASSUME NEW r \in reads, ReadReturns(r)
      PROVE  SeenInv'
  BY <1>5, ReadReturnsKeeps
<1>6. CASE UNCHANGED seenVars
  <2>1. UNCHANGED <<posts, shared, marks, fresh, shown, wakes, reads, misled>>
    BY <1>6 DEF seenVars
  <2>2. SeenTypes' /\ RepliesFollow' /\ WakesAreKeyed' /\ WakesAreDated'
    BY <2>1 DEF SeenInv, SeenTypes, RepliesFollow, WakesAreKeyed, OnItsWay, WakesAreDated
  <2>3. WakesKnow'
    BY <2>1 DEF SeenInv, WakesKnow, Straight
  <2>4. ReadsAreWhole' /\ MarkedByReplies' /\ MarksAreShown'
    BY <2>1 DEF SeenInv, ReadsAreWhole, MarkedByReplies, NotYetRooted, MarksAreShown
  <2> QED BY <2>2, <2>3, <2>4 DEF SeenInv
<1> QED BY <1>1, <1>2, <1>3, <1>4, <1>5, <1>6 DEF SeenNext

\* What a session was shown, and what is on its way to it, holds through every
\* interleaving of wakes, reads of the model, expiries and flips of the flag.
THEOREM SeenInductive ==
  SeenSpec => []SeenInv
<1>1. SeenInv /\ [SeenNext]_seenVars => SeenInv'
  BY SeenStep
<1> QED BY <1>1, SeenStarts, PTL DEF SeenSpec

LEMMA MarksMeanShown ==
  ASSUME SeenInv
  PROVE  MarkMeansShown
<1> SUFFICES ASSUME NEW k \in Keys \ misled,
                    MarkFor(k) \in HistoryOf(posts, ThreadOf(k), MarkFor(k)),
                    NEW i \in HistoryOf(posts, ThreadOf(k), MarkFor(k)), posts[i].by # Me
             PROVE  i \in shown[k]
  BY ServedIsHistory DEF MarkMeansShown, ThreadOf
<1>1. MarkFor(k) # NoMark
  BY HistoryIsUpTo DEF NoMark
<1>2. k \in fresh /\ MarkFor(k) = marks[k]
  BY <1>1 DEF MarkFor
<1> QED BY <1>2 DEF SeenInv, MarksAreShown

\* A mark never hides a message from the session it speaks for, whatever the
\* wakes of a channel, the reads of the model, the expiries and the flips do in
\* between, unless a flip sent a turn under that key to another session.
THEOREM NothingIsHidden ==
  SeenSpec => []MarkMeansShown
<1>1. SeenInv => MarkMeansShown
  BY MarksMeanShown
<1> QED BY <1>1, SeenInductive, PTL


\* Only its own dispatch makes a wake a turn.
LEMMA OnlyDispatch ==
  ASSUME SeenTypes, [SeenNext]_seenVars, NEW m \in Positions,
         wakes[m].pc = "ready", wakes'[m].pc = "dispatched"
  PROVE  Dispatch(m)
<1>1. \A x \in Positions : wakes[x] \in WakeStates
  BY DEF SeenTypes
<1>2. ~(wakes' = wakes)
  OBVIOUS
<1>3. ~Post /\ ~FlipFlag /\ ~DayPasses /\ ~UNCHANGED seenVars
  BY <1>2 DEF Post, FlipFlag, DayPasses, seenVars
<1>4. \A r \in reads : ~ReadReturns(r)
  BY <1>2 DEF ReadReturns
<1>5. ASSUME NEW x \in Positions
      PROVE  /\ ~Admit(x) /\ ~ServeHistory(x) /\ ~HistoryFails(x) /\ ~HistoryReady(x)
             /\ ~Record(x) /\ ~ControlTurn(x) /\ ~ModelReads(x)
  <2>1. ~Admit(x)
    BY <1>1 DEF Admit, SeenTypes, WakeStates
  <2>2. ~ServeHistory(x) /\ ~HistoryFails(x) /\ ~HistoryReady(x)
    BY <1>1 DEF ServeHistory, HistoryFails, HistoryReady, SeenTypes, WakeStates
  <2>3. ~Record(x)
    BY <1>1 DEF Record, SeenTypes, WakeStates
  <2>4. ~ControlTurn(x)
    BY <1>1 DEF ControlTurn, SeenTypes, WakeStates
  <2>5. ~ModelReads(x)
    BY <1>2 DEF ModelReads
  <2> QED BY <2>1, <2>2, <2>3, <2>4, <2>5
<1>6. PICK x \in Positions : Dispatch(x)
  BY <1>3, <1>4, <1>5 DEF SeenNext
<1>7. x = m
  BY <1>1, <1>6 DEF Dispatch, SeenTypes, WakeStates
<1> QED BY <1>6, <1>7

\* A wake starts with a session that holds all of the history it read, the
\* agent's own posts apart: what was left out was in the session already.  That
\* fails only for keys a flip of the flag has led astray.
THEOREM WakesStartInformed ==
  SeenSpec => WakeKnowsItsHistory
<1> DEFINE Knows == \A m \in Positions :
       (/\ wakes[m].pc = "ready" /\ wakes'[m].pc = "dispatched"
        /\ wakes[m].newest # NoMark
        /\ wakes[m].key \notin misled /\ wakes'[m].session = wakes[m].key)
       => \A i \in Served(posts[m].thread, wakes[m].asOf) :
            posts[i].by # Me => i \in shown'[wakes'[m].session]
<1>1. SeenInv /\ [SeenNext]_seenVars => [Knows]_seenVars
  <2> SUFFICES ASSUME SeenInv, [SeenNext]_seenVars, NEW m \in Positions,
                      wakes[m].pc = "ready", wakes'[m].pc = "dispatched",
                      wakes[m].newest # NoMark, wakes[m].key \notin misled,
                      wakes'[m].session = wakes[m].key,
                      NEW i \in Served(posts[m].thread, wakes[m].asOf), posts[i].by # Me
               PROVE  i \in shown'[wakes'[m].session]
    OBVIOUS
  <2>1. Dispatch(m)
    BY OnlyDispatch DEF SeenInv
  <2>2. wakes[m] \in WakeStates /\ wakes[m].key \in Keys
    BY DEF SeenInv, SeenTypes, WakesAreKeyed
  <2>3. shown'[wakes[m].key] = shown[wakes[m].key] \cup wakes[m].unseen \cup {m}
    BY <2>1, <2>2 DEF Dispatch, SeenInv, SeenTypes, WakeStates
  <2>4. i \in shown[wakes[m].key] \/ i = m \/ i \in wakes[m].unseen
    BY ServedIsHistory DEF SeenInv, WakesKnow, Straight
  <2> QED BY <2>3, <2>4
<1> QED BY <1>1, SeenInductive, PTL DEF SeenSpec, WakeKnowsItsHistory
=============================================================================
