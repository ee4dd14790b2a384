----------------------------- MODULE ConnectProofs -----------------------------
(***************************************************************************)
(* Proofs about Connect, and FirstHello within it, for every number of     *)
(* retries, reconnects, crashes and failures: an adapter says one hello    *)
(* but for the posts whose answer was lost, and it never accepts one       *)
(* vouch twice at a time, nor drops those of a loop for good.              *)
(***************************************************************************)
EXTENDS Connect, FiniteSetTheorems, TLAPS

Phases == {"new", "init", "on", "gone", "dead"}

\* The types of the hello, without the cardinalities of TypeOK.
HelloTypes ==
  /\ said \in [Adapters -> Nat] /\ phase \in [Adapters -> Phases]
  /\ pending \in [Adapters -> BOOLEAN] /\ delivered \in [Adapters -> BOOLEAN]
  /\ turn \in [Adapters -> BOOLEAN]
  /\ fallback \in [Adapters -> {"none", "waiting", "done"}]
  /\ posting \in [Adapters -> {{}, {"reply"}, {"canned"}}]
  /\ resends \in [Adapters -> Nat]
  /\ rejects \in Nat /\ losts \in Nat /\ reconnects \in Nat /\ crashes \in Nat

\* One adapter is connected at a time.
OneConnected == \A a, b \in Connected : a = b

\* Who waits for the answer to a post holds the flag.
FlagHeld == \A a \in Adapters : posting[a] # {} => a \in Running /\ delivered[a]

\* A turn has one reply to give: it is still to come, on the wire, or to be sent
\* again.
OneReply ==
  \A a \in Adapters :
    /\ resends[a] <= 1 /\ resends[a] <= MaxResends
    /\ turn[a] => resends[a] = 0 /\ "reply" \notin posting[a]
    /\ "reply" \in posting[a] => resends[a] = 0
    /\ phase[a] \in {"new", "init"} => ~turn[a] /\ resends[a] = 0

\* While the flag is down, or up for a post without an answer, each hello the
\* adapter said is one whose answer was lost.
SaidAndLost ==
  \A a \in Adapters :
    /\ said[a] <= 1 + losts
    /\ ~delivered[a] \/ posting[a] # {} => said[a] <= losts

\* The inductive invariant of the hello.
HelloInv == HelloTypes /\ OneConnected /\ FlagHeld /\ OneReply /\ SaidAndLost

\* The types of the rest of a connect.
AcceptTypes ==
  /\ stage \in {"down", "session", "known", "joined", "token", "registered", "listening",
                "sweeping", "refused"}
  /\ finalized \in BOOLEAN /\ missed \in BOOLEAN /\ unasked \in BOOLEAN
  /\ waiting \in [Loops -> {"none", "pending", "taken", "refused"}]
  /\ pushes \subseteq Loops /\ sweep \subseteq Vouched
  /\ guard \in [Adapters -> SUBSET Vouched]
  /\ accepts \subseteq [adapter : Adapters, loop : Vouched, by : {"sweep", "push"},
                        attempt : 1 .. Attempts]
  /\ troubles \in Nat /\ AllTroubles <= MaxTroubles

\* An accept under way is marked, a mark is that of an accept under way, and no
\* two accepts share one.
Guarded ==
  /\ \A t \in accepts : t.loop \in guard[t.adapter]
  /\ \A t, u \in accepts : t.adapter = u.adapter /\ t.loop = u.loop => t = u
  /\ \A a \in Adapters : \A l \in guard[a] : AcceptsOf(a, l) # {}

\* The inductive invariant of a connect.
ConnectInv == HelloInv /\ AcceptTypes /\ Guarded

-----------------------------------------------------------------------------
(* The hello, one lemma per step.                                          *)

\* The first session of an attempt.
LEMMA OpenStep ==
  ASSUME HelloInv, NEW a \in Adapters, Connected = {}, phase[a] = "new",
         phase' = [phase EXCEPT ![a] = "init"], pending' \in [Adapters -> BOOLEAN],
         UNCHANGED <<said, delivered, fallback, posting, turn, resends, bounds>>
  PROVE  HelloInv'
<1> USE DEF HelloInv
<1>1. HelloTypes'
  BY DEF HelloTypes, Phases, bounds
<1>2. OneConnected'
  BY DEF OneConnected, Connected, HelloTypes
<1>3. FlagHeld'
  BY DEF FlagHeld, Running, HelloTypes
<1>4. OneReply' /\ SaidAndLost'
  BY DEF OneReply, SaidAndLost, HelloTypes, bounds
<1>5. QED
  BY <1>1, <1>2, <1>3, <1>4

\* An attempt that is given up.
LEMMA GiveUpStep ==
  ASSUME HelloInv, NEW a \in Adapters, phase[a] = "init", GiveUp(a)
  PROVE  HelloInv'
<1> USE DEF HelloInv, GiveUp
<1>1. HelloTypes'
  BY DEF HelloTypes, Phases, bounds
<1>2. OneConnected'
  BY DEF OneConnected, Connected, HelloTypes
<1>3. FlagHeld'
  BY DEF FlagHeld, Running, HelloTypes
<1>4. OneReply' /\ SaidAndLost'
  BY DEF OneReply, SaidAndLost, HelloTypes, bounds
<1>5. QED
  BY <1>1, <1>2, <1>3, <1>4

\* The turn is dispatched, and its fallback waits.
LEMMA GreetStep ==
  ASSUME HelloInv, NEW a \in Adapters, MaybeGreet(a)
  PROVE  HelloInv'
<1> USE DEF HelloInv, MaybeGreet
<1>1. HelloTypes'
  BY DEF HelloTypes, Phases, bounds
<1>2. OneConnected'
  BY DEF OneConnected, Connected, HelloTypes
<1>3. FlagHeld'
  BY DEF FlagHeld, Running, HelloTypes
<1>4. OneReply'
  BY DEF OneReply, HelloTypes, FlagHeld, Running
<1>5. SaidAndLost'
  BY DEF SaidAndLost, bounds
<1>6. QED
  BY <1>1, <1>2, <1>3, <1>4, <1>5

\* A post starts with the flag down: nobody else of the adapter waits for an
\* answer.
LEMMA StartStep ==
  ASSUME HelloInv, NEW a \in Adapters, a \in Running, ~delivered[a],
         NEW who \in Posters, StartPost(a, who),
         turn' \in [Adapters -> BOOLEAN], resends' \in [Adapters -> Nat],
         fallback' \in [Adapters -> {"none", "waiting", "done"}],
         \A b \in Adapters : /\ turn'[b] => turn[b] /\ (b = a => who # "reply")
                             /\ resends'[b] <= resends[b]
                             /\ b = a /\ who = "reply" => resends'[b] = 0,
         UNCHANGED <<said, phase, pending, bounds>>
  PROVE  HelloInv'
<1> USE DEF HelloInv
<1>1. posting[a] = {} /\ posting' = [posting EXCEPT ![a] = {who}]
      /\ delivered' = [delivered EXCEPT ![a] = TRUE]
  BY DEF StartPost, FlagHeld, HelloTypes
<1>2. HelloTypes'
  BY <1>1 DEF HelloTypes, Posters, bounds
<1>3. OneConnected'
  BY DEF OneConnected, Connected
<1>4. FlagHeld'
  BY <1>1 DEF FlagHeld, Running, HelloTypes
<1>5. OneReply'
  <2> SUFFICES ASSUME NEW b \in Adapters
               PROVE  /\ resends'[b] <= 1 /\ resends'[b] <= MaxResends
                      /\ turn'[b] => resends'[b] = 0 /\ "reply" \notin posting'[b]
                      /\ "reply" \in posting'[b] => resends'[b] = 0
                      /\ phase'[b] \in {"new", "init"} => ~turn'[b] /\ resends'[b] = 0
    BY DEF OneReply
  <2>1. resends[b] \in Nat /\ resends'[b] \in Nat /\ MaxResends \in Nat
    BY FirstHelloAssumption DEF HelloTypes
  <2>2. CASE b = a
    BY <1>1, <2>1, <2>2 DEF OneReply, HelloTypes, Running
  <2>3. CASE b # a
    BY <1>1, <2>1, <2>3 DEF OneReply, HelloTypes
  <2>4. QED
    BY <2>2, <2>3
<1>6. SaidAndLost'
  BY <1>1 DEF SaidAndLost, HelloTypes, bounds
<1>7. QED
  BY <1>2, <1>3, <1>4, <1>5, <1>6

\* A step that posts nothing, and takes a reply at most.
LEMMA NoPostStep ==
  ASSUME HelloInv, PostsNothing,
         turn' \in [Adapters -> BOOLEAN], resends' \in [Adapters -> Nat],
         fallback' \in [Adapters -> {"none", "waiting", "done"}],
         \A b \in Adapters : (turn'[b] => turn[b]) /\ resends'[b] <= resends[b],
         UNCHANGED <<said, phase, pending, bounds>>
  PROVE  HelloInv'
<1> USE DEF HelloInv, PostsNothing
<1>1. HelloTypes'
  BY DEF HelloTypes, bounds
<1>2. OneConnected' /\ FlagHeld' /\ SaidAndLost'
  BY DEF OneConnected, Connected, FlagHeld, Running, SaidAndLost, bounds
<1>3. OneReply'
  <2> SUFFICES ASSUME NEW b \in Adapters
               PROVE  /\ resends'[b] <= 1 /\ resends'[b] <= MaxResends
                      /\ turn'[b] => resends'[b] = 0 /\ "reply" \notin posting'[b]
                      /\ "reply" \in posting'[b] => resends'[b] = 0
                      /\ phase'[b] \in {"new", "init"} => ~turn'[b] /\ resends'[b] = 0
    BY DEF OneReply
  <2>1. resends[b] \in Nat /\ resends'[b] \in Nat /\ MaxResends \in Nat
    BY FirstHelloAssumption DEF HelloTypes
  <2>2. QED
    BY <2>1 DEF OneReply
<1>4. QED
  BY <1>1, <1>2, <1>3

\* The reply, the canned hello, and the fallback that sees the flag.
LEMMA SpeakStep ==
  ASSUME HelloInv, NEW a \in Adapters,
         TurnReplies(a) \/ TurnFails(a) \/ FallbackSees(a) \/ FallbackTimesOut(a)
  PROVE  HelloInv'
<1>t. HelloTypes /\ OneReply
  BY DEF HelloInv
<1>1. CASE TurnReplies(a)
  <2>1. /\ a \in Running /\ UNCHANGED <<said, phase, pending, fallback, bounds>>
        /\ turn' \in [Adapters -> BOOLEAN] /\ resends' \in [Adapters -> Nat]
    <3>1. turn \in [Adapters -> BOOLEAN] /\ resends \in [Adapters -> Nat]
      BY <1>t DEF HelloTypes
    <3>2. resends[a] > 0 => resends[a] - 1 \in Nat
      BY <3>1
    <3>3. QED
      BY <1>1, <3>1, <3>2 DEF TurnReplies
  <2>2. \A b \in Adapters : /\ turn'[b] => turn[b] /\ b # a
                            /\ resends'[b] <= resends[b]
                            /\ b = a => resends'[b] = 0
    <3>1. CASE turn[a] /\ turn' = [turn EXCEPT ![a] = FALSE] /\ UNCHANGED resends
      BY <1>t, <3>1 DEF HelloTypes, OneReply
    <3>2. CASE resends[a] > 0 /\ resends' = [resends EXCEPT ![a] = @ - 1] /\ UNCHANGED turn
      BY <1>t, <3>2 DEF HelloTypes, OneReply
    <3>3. QED
      BY <1>1, <3>1, <3>2 DEF TurnReplies
  <2>3. CASE delivered[a]
    <3>1. PostsNothing
      BY <1>1, <2>3 DEF TurnReplies
    <3>2. fallback' \in [Adapters -> {"none", "waiting", "done"}]
      BY <1>t, <2>1 DEF HelloTypes
    <3>3. QED
      BY <2>1, <2>2, <3>1, <3>2, NoPostStep
  <2>4. CASE ~delivered[a]
    <3>1. StartPost(a, "reply") /\ "reply" \in Posters
      BY <1>1, <2>4 DEF TurnReplies, Posters
    <3>2. fallback' \in [Adapters -> {"none", "waiting", "done"}]
      BY <1>t, <2>1 DEF HelloTypes
    <3>3. QED
      BY <2>1, <2>2, <2>4, <3>1, <3>2, StartStep
  <2>5. QED
    BY <2>3, <2>4
<1>2. CASE TurnFails(a) \/ FallbackTimesOut(a)
  <2>1. /\ a \in Running /\ UNCHANGED <<said, phase, pending, resends, bounds>>
        /\ turn' \in [Adapters -> BOOLEAN] /\ resends' \in [Adapters -> Nat]
        /\ fallback' \in [Adapters -> {"none", "waiting", "done"}]
        /\ PostCanned(a)
    BY <1>t, <1>2 DEF TurnFails, FallbackTimesOut, EndsWaiting, HelloTypes
  <2>2. \A b \in Adapters : (turn'[b] => turn[b]) /\ resends'[b] <= resends[b]
    BY <1>t, <1>2 DEF TurnFails, FallbackTimesOut, EndsWaiting, HelloTypes
  <2>3. CASE delivered[a]
    BY <2>1, <2>2, <2>3, NoPostStep DEF PostCanned, CannedWanted
  <2>4. CASE ~delivered[a]
    <3>1. StartPost(a, "canned") /\ "canned" \in Posters /\ "canned" # "reply"
      BY <2>1, <2>4 DEF PostCanned, CannedWanted, Posters
    <3>2. QED
      BY <2>1, <2>2, <2>4, <3>1, StartStep
  <2>5. QED
    BY <2>3, <2>4
<1>3. CASE FallbackSees(a)
  <2>1. /\ PostsNothing /\ UNCHANGED <<said, phase, pending, turn, resends, bounds>>
        /\ fallback' \in [Adapters -> {"none", "waiting", "done"}]
    BY <1>t, <1>3 DEF FallbackSees, EndsWaiting, HelloTypes
  <2>2. QED
    BY <1>t, <2>1, NoPostStep DEF HelloTypes
<1>4. QED
  BY <1>1, <1>2, <1>3

\* A reply that failed may be sent again: it is the only one there is.
LEMMA ResentOnce ==
  ASSUME HelloInv, NEW a \in Adapters, "reply" \in posting[a], Resent(a)
  PROVE  /\ resends' \in [Adapters -> Nat] /\ resends'[a] <= 1 /\ resends'[a] <= MaxResends
         /\ \A b \in Adapters \ {a} : resends'[b] = resends[b]
<1>1. resends[a] = 0 /\ resends \in [Adapters -> Nat] /\ rejects \in Nat /\ losts \in Nat
      /\ MaxResends \in Nat
  BY FirstHelloAssumption DEF HelloInv, HelloTypes, OneReply
<1>2. CASE UNCHANGED resends
  BY <1>1, <1>2
<1>3. CASE rejects + losts < MaxResends /\ resends' = [resends EXCEPT ![a] = @ + 1]
  <2>1. MaxResends >= 1
    BY <1>1, <1>3
  <2>2. QED
    BY <1>1, <1>3, <2>1
<1>4. QED
  BY <1>2, <1>3 DEF Resent

\* An answer ends the only post there is.
LEMMA AnswerStep ==
  ASSUME HelloInv, NEW a \in Adapters, NEW who \in Posters,
         PostLands(a, who) \/ PostRejected(a, who) \/ AnswerLost(a, who)
  PROVE  HelloInv'
<1> USE DEF HelloInv
<1>1. /\ posting[a] = {who} /\ posting' = [posting EXCEPT ![a] = {}]
      /\ a \in Running /\ delivered[a] /\ said[a] <= losts
      /\ UNCHANGED <<flags, reconnects, crashes>>
  <2>1. who \in posting[a] /\ posting' = [posting EXCEPT ![a] = @ \ {who}]
        /\ UNCHANGED <<flags, reconnects, crashes>>
    BY DEF PostLands, PostRejected, AnswerLost, Failed, Answered
  <2>2. posting[a] = {who}
    BY <2>1 DEF HelloTypes
  <2>3. QED
    BY <2>1, <2>2 DEF FlagHeld, SaidAndLost
<1>2. /\ said' \in [Adapters -> Nat] /\ rejects' \in Nat /\ losts' \in Nat
      /\ delivered' \in [Adapters -> BOOLEAN] /\ losts <= losts'
      /\ \A b \in Adapters \ {a} : said'[b] = said[b] /\ delivered'[b] = delivered[b]
      /\ said'[a] <= 1 + losts' /\ (~delivered'[a] => said'[a] <= losts')
  <2>1. CASE PostLands(a, who)
    BY <1>1, <2>1 DEF PostLands, HelloTypes
  <2>2. CASE PostRejected(a, who)
    BY <1>1, <2>2 DEF PostRejected, Failed, HelloTypes
  <2>3. CASE AnswerLost(a, who)
    BY <1>1, <2>3 DEF AnswerLost, Failed, HelloTypes
  <2>4. QED
    BY <2>1, <2>2, <2>3
<1>3. /\ resends' \in [Adapters -> Nat] /\ resends'[a] <= 1 /\ resends'[a] <= MaxResends
      /\ \A b \in Adapters \ {a} : resends'[b] = resends[b]
      /\ ~turn[a] \/ resends'[a] = 0
  <2>1. CASE UNCHANGED resends
    BY <2>1 DEF HelloTypes, OneReply
  <2>2. CASE who = "reply" /\ Resent(a)
    BY <1>1, <2>2, ResentOnce DEF OneReply
  <2>3. QED
    BY <2>1, <2>2 DEF PostLands, PostRejected, AnswerLost, Failed
<1>4. HelloTypes'
  BY <1>1, <1>2, <1>3 DEF HelloTypes, flags
<1>5. OneConnected'
  BY <1>1 DEF OneConnected, Connected, flags
<1>6. FlagHeld'
  BY <1>1, <1>2 DEF FlagHeld, Running, flags, HelloTypes
<1>7. OneReply'
  BY <1>1, <1>3 DEF OneReply, flags, HelloTypes, Running
<1>8. SaidAndLost'
  BY <1>1, <1>2 DEF SaidAndLost, HelloTypes
<1>9. QED
  BY <1>4, <1>5, <1>6, <1>7, <1>8

\* disconnect() fails the post on the wire, and takes the flag back with it.
LEMMA ReconnectStep ==
  ASSUME HelloInv, NEW a \in Adapters, Reconnect(a)
  PROVE  HelloInv'
<1> USE DEF HelloInv
<1>1. /\ phase[a] = "on" /\ phase' = [phase EXCEPT ![a] = "gone"]
      /\ posting' = [posting EXCEPT ![a] = {}]
      /\ delivered' = [delivered EXCEPT ![a] = delivered[a] /\ posting[a] = {}]
      /\ reconnects' = reconnects + 1
      /\ UNCHANGED <<pending, fallback, turn, rejects, crashes>>
  BY DEF Reconnect
<1>2. /\ said' \in [Adapters -> Nat] /\ losts' \in Nat /\ losts <= losts'
      /\ \A b \in Adapters \ {a} : said'[b] = said[b]
      /\ said'[a] <= 1 + losts' /\ (~delivered'[a] => said'[a] <= losts')
  <2>1. PICK landed \in IF posting[a] = {} THEN {0} ELSE {0, 1} :
          said' = [said EXCEPT ![a] = @ + landed] /\ losts' = losts + landed
    BY DEF Reconnect
  <2>2. CASE posting[a] = {}
    BY <1>1, <2>1, <2>2 DEF HelloTypes, SaidAndLost
  <2>3. CASE posting[a] # {}
    BY <1>1, <2>1, <2>3 DEF HelloTypes, SaidAndLost
  <2>4. QED
    BY <2>2, <2>3
<1>3. /\ resends' \in [Adapters -> Nat] /\ resends'[a] <= 1 /\ resends'[a] <= MaxResends
      /\ \A b \in Adapters \ {a} : resends'[b] = resends[b]
      /\ ~turn[a] \/ resends'[a] = 0
  <2>1. CASE "reply" \in posting[a]
    BY <2>1, ResentOnce DEF Reconnect, OneReply
  <2>2. CASE "reply" \notin posting[a]
    BY <2>2 DEF Reconnect, OneReply, HelloTypes
  <2>3. QED
    BY <2>1, <2>2
<1>4. HelloTypes'
  <2>1. (delivered[a] /\ posting[a] = {}) \in BOOLEAN
    OBVIOUS
  <2>2. delivered' \in [Adapters -> BOOLEAN]
    BY <1>1, <2>1 DEF HelloTypes
  <2>3. posting' \in [Adapters -> {{}, {"reply"}, {"canned"}}] /\ phase' \in [Adapters -> Phases]
    BY <1>1 DEF HelloTypes, Phases
  <2>4. QED
    BY <1>1, <1>2, <1>3, <2>2, <2>3 DEF HelloTypes
<1>5. OneConnected'
  BY <1>1 DEF OneConnected, Connected, HelloTypes
<1>6. FlagHeld'
  BY <1>1 DEF FlagHeld, Running, HelloTypes
<1>7. OneReply'
  BY <1>1, <1>3 DEF OneReply, HelloTypes
<1>8. SaidAndLost'
  BY <1>1, <1>2 DEF SaidAndLost, HelloTypes
<1>9. QED
  BY <1>4, <1>5, <1>6, <1>7, <1>8

\* A crash leaves no adapter to post; what was on the wire landed or was cut.
LEMMA CrashStep ==
  ASSUME HelloInv, Crash
  PROVE  HelloInv'
<1> USE DEF HelloInv
<1>1. /\ phase' = [a \in Adapters |-> IF a \in Running \cup Connected THEN "dead" ELSE phase[a]]
      /\ posting' = [a \in Adapters |-> {}] /\ crashes' = crashes + 1
      /\ UNCHANGED <<pending, delivered, fallback, turn, resends, rejects, losts, reconnects>>
  BY DEF Crash
<1>2. said' \in [Adapters -> Nat]
      /\ \A a \in Adapters : said'[a] = said[a] \/ (said'[a] = said[a] + 1 /\ posting[a] # {})
  BY DEF Crash, HelloTypes
<1>3. HelloTypes'
  BY <1>1, <1>2 DEF HelloTypes, Phases
<1>4. OneConnected' /\ FlagHeld'
  BY <1>1 DEF OneConnected, Connected, FlagHeld
<1>5. OneReply'
  BY <1>1 DEF OneReply
<1>6. SaidAndLost'
  BY <1>1, <1>2 DEF SaidAndLost, HelloTypes, FlagHeld
<1>7. QED
  BY <1>3, <1>4, <1>5, <1>6

\* The rest of a connect does not touch the hello.
LEMMA HelloQuiet ==
  ASSUME HelloInv, UNCHANGED vars
  PROVE  HelloInv'
  BY DEF HelloInv, HelloTypes, OneConnected, Connected, FlagHeld, Running, OneReply,
         SaidAndLost, vars, flags, bounds

\* Every step of a connect keeps the invariant of the hello.
LEMMA HelloStepInv ==
  ASSUME HelloInv, [ConnectNext]_allVars
  PROVE  HelloInv'
<1>1. ASSUME NEW a \in Adapters, StageStep(a)
      PROVE  HelloInv'
  <2>1. CASE OpenSession(a)
    <3>1. /\ Connected = {} /\ phase[a] = "new" /\ phase' = [phase EXCEPT ![a] = "init"]
          /\ pending' \in [Adapters -> BOOLEAN]
          /\ UNCHANGED <<said, delivered, fallback, posting, turn, resends, bounds>>
      BY <2>1 DEF OpenSession, Initialize, HelloInv, HelloTypes, Silent
    <3>2. QED
      BY <3>1, OpenStep
  <2>2. CASE NotFinalized(a)
    BY <2>2, GiveUpStep DEF NotFinalized, At
  <2>3. CASE Greet(a)
    BY <2>3, GreetStep DEF Greet
  <2>4. CASE \E l \in Vouched : SweepNext(a, l)
    BY <2>4, HelloQuiet DEF SweepNext
  <2>5. CASE \/ GetSelf(a) \/ SweepInvites(a) \/ RegisterFCM(a) \/ RegisterPusher(a)
             \/ SkipFCM(a) \/ StartListener(a) \/ ListVouches(a)
    BY <2>5, HelloQuiet DEF GetSelf, SweepInvites, RegisterFCM, RegisterPusher, SkipFCM,
       StartListener, ListVouches, GoTo
  <2>6. QED
    BY <1>1, <2>1, <2>2, <2>3, <2>4, <2>5 DEF StageStep
<1>2. ASSUME NEW a \in Adapters,
             OpenUnasked(a) \/ StageFails(a) \/ ListFails(a) \/ HelloStep(a) \/ Disconnects(a)
      PROVE  HelloInv'
  <2>1. CASE OpenUnasked(a)
    <3>1. /\ Connected = {} /\ phase[a] = "new" /\ phase' = [phase EXCEPT ![a] = "init"]
          /\ pending' \in [Adapters -> BOOLEAN]
          /\ UNCHANGED <<said, delivered, fallback, posting, turn, resends, bounds>>
      BY <2>1 DEF OpenUnasked, HelloInv, HelloTypes
    <3>2. QED
      BY <3>1, OpenStep
  <2>2. CASE StageFails(a)
    BY <2>2, GiveUpStep DEF StageFails
  <2>3. CASE ListFails(a)
    BY <2>3, HelloQuiet DEF ListFails, GoTo
  <2>4. CASE HelloStep(a)
    BY <2>4, SpeakStep, AnswerStep DEF HelloStep
  <2>5. CASE Disconnects(a)
    BY <2>5, ReconnectStep DEF Disconnects
  <2>6. QED
    BY <1>2, <2>1, <2>2, <2>3, <2>4, <2>5
<1>3. ASSUME NEW l \in Loops, Comes(l) \/ PushStep(l)
      PROVE  HelloInv'
  BY <1>3, HelloQuiet DEF Comes, PushStep, InvitePushed, VouchPushed
<1>4. ASSUME NEW t \in accepts, AcceptAnswered(t) \/ AcceptFails(t)
      PROVE  HelloInv'
  BY <1>4, HelloQuiet DEF AcceptAnswered, AcceptFails
<1>5. CASE AuthRefused \/ Finalize
  BY <1>5, HelloQuiet DEF AuthRefused, Finalize
<1>6. CASE Dies
  BY <1>6, CrashStep DEF Dies
<1>7. CASE UNCHANGED allVars
  BY <1>7, HelloQuiet DEF allVars
<1>8. QED
  BY <1>1, <1>2, <1>3, <1>4, <1>5, <1>6, <1>7 DEF ConnectNext

-----------------------------------------------------------------------------
(* The accepts.                                                            *)

\* The bound on troubles: a step that fails has room for one more.
LEMMA Counted ==
  ASSUME HelloInv, AcceptTypes, UNCHANGED <<rejects, losts, reconnects, crashes>>,
         UNCHANGED troubles \/ Fails
  PROVE  troubles' \in Nat /\ AllTroubles' <= MaxTroubles
<1>1. /\ rejects \in Nat /\ losts \in Nat /\ reconnects \in Nat /\ crashes \in Nat
      /\ troubles \in Nat /\ AllTroubles <= MaxTroubles /\ MaxTroubles \in Nat
  BY ConnectAssumption DEF HelloInv, HelloTypes, AcceptTypes
<1>2. CASE UNCHANGED troubles
  BY <1>1, <1>2 DEF AllTroubles
<1>3. CASE Fails
  BY <1>1, <1>3 DEF AllTroubles, Fails
<1>4. QED
  BY <1>2, <1>3

\* The steps that leave the accepts and their marks alone.
LEMMA GuardedQuiet ==
  ASSUME Guarded, UNCHANGED <<guard, accepts>>
  PROVE  Guarded'
  BY DEF Guarded, AcceptsOf

\* An accept starts where none is marked.
LEMMA AcceptStarts ==
  ASSUME AcceptTypes, Guarded, NEW a \in Adapters, NEW l \in Vouched,
         NEW by \in {"sweep", "push"}, AcceptVouch(a, l, by)
  PROVE  /\ Guarded' /\ guard' \in [Adapters -> SUBSET Vouched]
         /\ accepts' \subseteq [adapter : Adapters, loop : Vouched, by : {"sweep", "push"},
                                attempt : 1 .. Attempts]
<1>t. /\ guard \in [Adapters -> SUBSET Vouched]
      /\ accepts \subseteq [adapter : Adapters, loop : Vouched, by : {"sweep", "push"},
                            attempt : 1 .. Attempts]
  BY DEF AcceptTypes
<1>1. CASE UNCHANGED <<guard, accepts>>
  BY <1>t, <1>1, GuardedQuiet
<1>2. CASE /\ l \notin guard[a] /\ guard' = [guard EXCEPT ![a] = @ \cup {l}]
           /\ accepts' = accepts \cup {[adapter |-> a, loop |-> l, by |-> by, attempt |-> 1]}
  <2> DEFINE new == [adapter |-> a, loop |-> l, by |-> by, attempt |-> 1]
  <2>1. 1 \in 1 .. Attempts
    BY ConnectAssumption
  <2>2. /\ new \in [adapter : Adapters, loop : Vouched, by : {"sweep", "push"},
                    attempt : 1 .. Attempts]
        /\ new.adapter = a /\ new.loop = l /\ accepts' = accepts \cup {new}
    BY <1>2, <2>1
  <2> HIDE DEF new
  <2>3. \A t \in accepts : ~(t.adapter = a /\ t.loop = l)
    BY <1>2 DEF Guarded
  <2>4. \A t \in accepts' : t.loop \in guard'[t.adapter]
    BY <1>t, <1>2, <2>2 DEF Guarded
  <2>5. \A t, u \in accepts' : t.adapter = u.adapter /\ t.loop = u.loop => t = u
    BY <2>2, <2>3 DEF Guarded
  <2>6. ASSUME NEW b \in Adapters, NEW k \in guard'[b]
        PROVE  \E t \in accepts' : t.adapter = b /\ t.loop = k
    <3>1. CASE b = a /\ k = l
      BY <2>2, <3>1
    <3>2. CASE ~(b = a /\ k = l)
      <4>1. k \in guard[b]
        BY <1>t, <1>2, <2>6, <3>2
      <4>2. PICK t \in accepts : t.adapter = b /\ t.loop = k
        BY <4>1 DEF Guarded, AcceptsOf
      <4>3. QED
        BY <2>2, <4>2
    <3>3. QED
      BY <3>1, <3>2
  <2>7. Guarded'
    BY <2>4, <2>5, <2>6 DEF Guarded, AcceptsOf
  <2>8. QED
    BY <1>t, <1>2, <2>2, <2>7
<1>3. QED
  BY <1>1, <1>2 DEF AcceptVouch, Skip

\* It ends with its mark.
LEMMA AcceptEnds ==
  ASSUME AcceptTypes, Guarded, NEW t \in accepts, EndsAccept(t)
  PROVE  /\ Guarded' /\ guard' \in [Adapters -> SUBSET Vouched]
         /\ accepts' \subseteq [adapter : Adapters, loop : Vouched, by : {"sweep", "push"},
                                attempt : 1 .. Attempts]
<1>t. /\ guard \in [Adapters -> SUBSET Vouched] /\ t.adapter \in Adapters /\ t.loop \in Vouched
      /\ \A u \in accepts : u.adapter \in Adapters
      /\ accepts \subseteq [adapter : Adapters, loop : Vouched, by : {"sweep", "push"},
                            attempt : 1 .. Attempts]
  BY DEF AcceptTypes
<1>1. accepts' = accepts \ {t} /\ guard' = [guard EXCEPT ![t.adapter] = @ \ {t.loop}]
  BY DEF EndsAccept
<1>2. \A u \in accepts' : u.loop \in guard'[u.adapter]
  BY <1>t, <1>1 DEF Guarded
<1>3. \A u, v \in accepts' : u.adapter = v.adapter /\ u.loop = v.loop => u = v
  BY <1>1 DEF Guarded
<1>4. ASSUME NEW b \in Adapters, NEW k \in guard'[b]
      PROVE  \E u \in accepts' : u.adapter = b /\ u.loop = k
  <2>1. k \in guard[b] /\ ~(b = t.adapter /\ k = t.loop)
    BY <1>t, <1>1, <1>4
  <2>2. PICK u \in accepts : u.adapter = b /\ u.loop = k
    BY <2>1 DEF Guarded, AcceptsOf
  <2>3. QED
    BY <1>1, <2>1, <2>2
<1>5. Guarded'
  BY <1>2, <1>3, <1>4 DEF Guarded, AcceptsOf
<1>6. QED
  BY <1>t, <1>1, <1>5

\* Another attempt is the same accept, under the same mark.
LEMMA AcceptRetried ==
  ASSUME AcceptTypes, Guarded, NEW t \in accepts, t.attempt < Attempts, UNCHANGED guard,
         accepts' = (accepts \ {t}) \cup {[t EXCEPT !.attempt = @ + 1]}
  PROVE  /\ Guarded'
         /\ accepts' \subseteq [adapter : Adapters, loop : Vouched, by : {"sweep", "push"},
                                attempt : 1 .. Attempts]
<1> DEFINE next == [t EXCEPT !.attempt = @ + 1]
<1>1. /\ t \in [adapter : Adapters, loop : Vouched, by : {"sweep", "push"},
                attempt : 1 .. Attempts]
      /\ accepts \subseteq [adapter : Adapters, loop : Vouched, by : {"sweep", "push"},
                            attempt : 1 .. Attempts]
      /\ Attempts \in Nat
  BY ConnectAssumption DEF AcceptTypes
<1>2. t.attempt + 1 \in 1 .. Attempts
  BY <1>1
<1>3. /\ next \in [adapter : Adapters, loop : Vouched, by : {"sweep", "push"},
                   attempt : 1 .. Attempts]
      /\ next.adapter = t.adapter /\ next.loop = t.loop
      /\ accepts' = (accepts \ {t}) \cup {next}
  BY <1>1, <1>2
<1> HIDE DEF next
<1>4. \A u \in accepts' : u.loop \in guard'[u.adapter]
  BY <1>3 DEF Guarded
<1>5. \A u, v \in accepts' : u.adapter = v.adapter /\ u.loop = v.loop => u = v
  BY <1>3 DEF Guarded
<1>6. ASSUME NEW b \in Adapters, NEW k \in guard[b]
      PROVE  \E u \in accepts' : u.adapter = b /\ u.loop = k
  <2>1. PICK u \in accepts : u.adapter = b /\ u.loop = k
    BY <1>6 DEF Guarded, AcceptsOf
  <2>2. QED
    BY <1>3, <2>1
<1>7. Guarded'
  BY <1>4, <1>5, <1>6 DEF Guarded, AcceptsOf
<1>8. QED
  BY <1>1, <1>3, <1>7

\* What the server holds stays in its type.
LEMMA TakenType ==
  ASSUME AcceptTypes, NEW S, Taken(S)
  PROVE  waiting' \in [Loops -> {"none", "pending", "taken", "refused"}]
  BY DEF AcceptTypes, Taken

\* Steps that touch neither the accepts nor their marks.
LEMMA AcceptQuiet ==
  ASSUME HelloInv, AcceptTypes, Guarded, UNCHANGED <<guard, accepts>>,
         UNCHANGED <<rejects, losts, reconnects, crashes>>, UNCHANGED troubles \/ Fails,
         stage' \in {"down", "session", "known", "joined", "token", "registered",
                     "listening", "sweeping", "refused"},
         finalized' \in BOOLEAN, missed' \in BOOLEAN, unasked' \in BOOLEAN,
         waiting' \in [Loops -> {"none", "pending", "taken", "refused"}],
         pushes' \subseteq Loops, sweep' \subseteq Vouched
  PROVE  AcceptTypes' /\ Guarded'
<1>1. troubles' \in Nat /\ AllTroubles' <= MaxTroubles
  BY Counted
<1>2. QED
  BY <1>1, GuardedQuiet DEF AcceptTypes

\* Steps of the hello, which bound their own troubles.
LEMMA AcceptApart ==
  ASSUME AcceptTypes, Guarded, UNCHANGED connectVars, AllTroubles' <= MaxTroubles
  PROVE  AcceptTypes' /\ Guarded'
  BY GuardedQuiet DEF AcceptTypes, connectVars, mail

\* Every step of a connect keeps the types and the marks.
LEMMA AcceptStepInv ==
  ASSUME HelloInv, AcceptTypes, Guarded, [ConnectNext]_allVars
  PROVE  AcceptTypes' /\ Guarded'
<1> USE DEF mail, bounds
<1>t. /\ stage \in {"down", "session", "known", "joined", "token", "registered",
                    "listening", "sweeping", "refused"}
      /\ finalized \in BOOLEAN /\ missed \in BOOLEAN /\ unasked \in BOOLEAN
      /\ waiting \in [Loops -> {"none", "pending", "taken", "refused"}]
      /\ pushes \subseteq Loops /\ sweep \subseteq Vouched
      /\ troubles \in Nat /\ AllTroubles <= MaxTroubles
  BY DEF AcceptTypes
<1>1. ASSUME NEW a \in Adapters, StageStep(a)
      PROVE  AcceptTypes' /\ Guarded'
  <2>1. CASE OpenSession(a)
    BY <1>t, <2>1, AcceptQuiet DEF OpenSession, Initialize
  <2>2. CASE NotFinalized(a)
    BY <1>t, <2>2, AcceptQuiet DEF NotFinalized, GiveUp
  <2>3. CASE Greet(a)
    BY <1>t, <2>3, AcceptQuiet DEF Greet, MaybeGreet
  <2>4. ASSUME NEW l \in Vouched, SweepNext(a, l)
        PROVE  AcceptTypes' /\ Guarded'
    <3>1. /\ AcceptVouch(a, l, "sweep") /\ sweep' = sweep \ {l}
          /\ UNCHANGED <<vars, stage, finalized, unasked, waiting, pushes, missed, troubles>>
      BY <2>4 DEF SweepNext
    <3>2. /\ Guarded' /\ guard' \in [Adapters -> SUBSET Vouched]
          /\ accepts' \subseteq [adapter : Adapters, loop : Vouched, by : {"sweep", "push"},
                                 attempt : 1 .. Attempts]
      BY <3>1, AcceptStarts
    <3>3. AllTroubles' <= MaxTroubles
      BY <1>t, <3>1 DEF AllTroubles, vars
    <3>4. QED
      BY <1>t, <3>1, <3>2, <3>3 DEF AcceptTypes
  <2>5. CASE SweepInvites(a)
    <3>1. waiting' \in [Loops -> {"none", "pending", "taken", "refused"}]
      BY <2>5, TakenType DEF SweepInvites
    <3>2. QED
      BY <1>t, <2>5, <3>1, AcceptQuiet DEF SweepInvites, GoTo, vars
  <2>6. CASE ListVouches(a)
    <3>1. sweep' \subseteq Vouched
      BY <2>6 DEF ListVouches
    <3>2. QED
      BY <1>t, <2>6, <3>1, AcceptQuiet DEF ListVouches, GoTo, vars
  <2>7. CASE GetSelf(a) \/ RegisterFCM(a) \/ RegisterPusher(a) \/ SkipFCM(a) \/ StartListener(a)
    <3>1. /\ UNCHANGED <<vars, finalized, unasked, troubles, mail>>
          /\ stage' \in {"known", "token", "registered", "listening"}
      BY <2>7 DEF GetSelf, RegisterFCM, RegisterPusher, SkipFCM, StartListener, GoTo
    <3>2. QED
      BY <1>t, <3>1, AcceptQuiet DEF vars
  <2>8. QED
    BY <1>1, <2>1, <2>2, <2>3, <2>4, <2>5, <2>6, <2>7 DEF StageStep
<1>2. ASSUME NEW a \in Adapters,
             OpenUnasked(a) \/ StageFails(a) \/ ListFails(a) \/ HelloStep(a) \/ Disconnects(a)
      PROVE  AcceptTypes' /\ Guarded'
  <2>1. CASE OpenUnasked(a)
    BY <1>t, <2>1, AcceptQuiet DEF OpenUnasked
  <2>2. CASE StageFails(a)
    BY <1>t, <2>2, AcceptQuiet DEF StageFails, GiveUp
  <2>3. CASE ListFails(a)
    <3>1. missed' \in BOOLEAN
      BY <2>3 DEF ListFails
    <3>2. QED
      BY <1>t, <2>3, <3>1, AcceptQuiet DEF ListFails, GoTo, vars
  <2>4. CASE HelloStep(a)
    BY <2>4, AcceptApart DEF HelloStep
  <2>5. CASE Disconnects(a)
    <3>1. /\ UNCHANGED <<stage, finalized, unasked, waiting, sweep, guard, accepts, missed, troubles>>
          /\ pushes' \subseteq Loops /\ AllTroubles' <= MaxTroubles
      BY <1>t, <2>5 DEF Disconnects
    <3>2. QED
      BY <3>1, GuardedQuiet DEF AcceptTypes
  <2>6. QED
    BY <1>2, <2>1, <2>2, <2>3, <2>4, <2>5
<1>3. ASSUME NEW l \in Loops, Comes(l) \/ PushStep(l)
      PROVE  AcceptTypes' /\ Guarded'
  <2>1. CASE Comes(l)
    <3>1. /\ waiting' \in [Loops -> {"none", "pending", "taken", "refused"}]
          /\ pushes' \subseteq Loops
      BY <1>t, <2>1 DEF Comes
    <3>2. QED
      BY <1>t, <2>1, <3>1, AcceptQuiet DEF Comes, vars
  <2>2. CASE InvitePushed(l)
    <3>1. /\ waiting' \in [Loops -> {"none", "pending", "taken", "refused"}]
          /\ pushes' \subseteq Loops /\ (UNCHANGED troubles \/ Fails)
      BY <1>t, <2>2, TakenType DEF InvitePushed
    <3>2. QED
      BY <1>t, <2>2, <3>1, AcceptQuiet DEF InvitePushed, vars
  <2>3. ASSUME NEW a \in Adapters, VouchPushed(a, l)
        PROVE  AcceptTypes' /\ Guarded'
    <3>1. /\ l \in Vouched /\ AcceptVouch(a, l, "push") /\ pushes' \subseteq Loops
          /\ UNCHANGED <<vars, stage, finalized, unasked, waiting, sweep, missed, troubles>>
      BY <1>t, <2>3 DEF VouchPushed
    <3>2. /\ Guarded' /\ guard' \in [Adapters -> SUBSET Vouched]
          /\ accepts' \subseteq [adapter : Adapters, loop : Vouched, by : {"sweep", "push"},
                                 attempt : 1 .. Attempts]
      BY <3>1, AcceptStarts
    <3>3. AllTroubles' <= MaxTroubles
      BY <1>t, <3>1 DEF AllTroubles, vars
    <3>4. QED
      BY <1>t, <3>1, <3>2, <3>3 DEF AcceptTypes
  <2>4. QED
    BY <1>3, <2>1, <2>2, <2>3 DEF PushStep
<1>4. ASSUME NEW t \in accepts, AcceptAnswered(t) \/ AcceptFails(t)
      PROVE  AcceptTypes' /\ Guarded'
  <2>1. CASE AcceptAnswered(t)
    <3>1. /\ EndsAccept(t)
          /\ UNCHANGED <<vars, stage, finalized, unasked, pushes, sweep, missed, troubles>>
          /\ waiting' \in [Loops -> {"none", "pending", "taken", "refused"}]
      BY <1>t, <2>1 DEF AcceptAnswered
    <3>2. /\ Guarded' /\ guard' \in [Adapters -> SUBSET Vouched]
          /\ accepts' \subseteq [adapter : Adapters, loop : Vouched, by : {"sweep", "push"},
                                 attempt : 1 .. Attempts]
      BY <3>1, AcceptEnds
    <3>3. AllTroubles' <= MaxTroubles
      BY <1>t, <3>1 DEF AllTroubles, vars
    <3>4. QED
      BY <1>t, <3>1, <3>2, <3>3 DEF AcceptTypes
  <2>2. CASE AcceptFails(t)
    <3>1. /\ UNCHANGED <<vars, stage, finalized, unasked, pushes, sweep>>
          /\ UNCHANGED troubles \/ Fails
          /\ Taken({}) \/ Taken({t.loop})
      BY <2>2 DEF AcceptFails
    <3>2. waiting' \in [Loops -> {"none", "pending", "taken", "refused"}]
      BY <3>1, TakenType
    <3>3. troubles' \in Nat /\ AllTroubles' <= MaxTroubles
      BY <3>1, Counted DEF vars
    <3>4. /\ Guarded' /\ guard' \in [Adapters -> SUBSET Vouched] /\ missed' \in BOOLEAN
          /\ accepts' \subseteq [adapter : Adapters, loop : Vouched, by : {"sweep", "push"},
                                 attempt : 1 .. Attempts]
      <4>1. CASE t.attempt < Attempts
        <5>1. /\ accepts' = (accepts \ {t}) \cup {[t EXCEPT !.attempt = @ + 1]}
              /\ UNCHANGED <<guard, missed>>
          BY <2>2, <4>1 DEF AcceptFails
        <5>2. QED
          BY <1>t, <4>1, <5>1, AcceptRetried DEF AcceptTypes
      <4>2. CASE ~(t.attempt < Attempts)
        <5>1. EndsAccept(t) /\ missed' = (missed \/ waiting'[t.loop] = "pending")
          BY <2>2, <4>2 DEF AcceptFails
        <5>2. QED
          BY <1>t, <5>1, AcceptEnds
      <4>3. QED
        BY <4>1, <4>2
    <3>5. QED
      BY <1>t, <3>1, <3>2, <3>3, <3>4 DEF AcceptTypes
  <2>3. QED
    BY <1>4, <2>1, <2>2
<1>5. CASE AuthRefused
  BY <1>t, <1>5, AcceptQuiet DEF AuthRefused, vars
<1>6. CASE Finalize
  BY <1>t, <1>6, AcceptQuiet DEF Finalize, vars
<1>7. CASE Dies
  <2>1. /\ stage' = "down" /\ sweep' = {} /\ pushes' \subseteq Loops
        /\ guard' = [a \in Adapters |-> {}] /\ accepts' = {}
        /\ UNCHANGED <<finalized, unasked, waiting, missed, troubles>>
        /\ AllTroubles' <= MaxTroubles
    BY <1>t, <1>7 DEF Dies
  <2>2. Guarded'
    BY <2>1 DEF Guarded
  <2>3. guard' \in [Adapters -> SUBSET Vouched]
    BY <2>1
  <2>4. QED
    BY <1>t, <2>1, <2>2, <2>3 DEF AcceptTypes
<1>8. CASE UNCHANGED allVars
  BY <1>t, <1>8, AcceptQuiet DEF allVars, connectVars, vars
<1>9. QED
  BY <1>1, <1>2, <1>3, <1>4, <1>5, <1>6, <1>7, <1>8 DEF ConnectNext

\* A mark stands for one accept, and none for no accept.
LEMMA OneMarkOneAccept ==
  ASSUME ConnectInv, NEW a \in Adapters, NEW l \in Vouched
  PROVE  Cardinality(AcceptsOf(a, l)) = IF l \in guard[a] THEN 1 ELSE 0
<1> USE DEF ConnectInv, Guarded
<1>1. CASE l \in guard[a]
  <2>1. PICK t \in AcceptsOf(a, l) : TRUE
    BY <1>1
  <2>2. AcceptsOf(a, l) = {t}
    BY <2>1 DEF AcceptsOf
  <2>3. QED
    BY <1>1, <2>2, FS_Singleton
<1>2. CASE l \notin guard[a]
  <2>1. AcceptsOf(a, l) = {}
    BY <1>2 DEF AcceptsOf
  <2>2. QED
    BY <1>2, <2>1, FS_EmptySet
<1>3. QED
  BY <1>1, <1>2

\* The types of the hello, with their cardinalities.
LEMMA ConnectTyped ==
  ASSUME ConnectInv
  PROVE  TypeOK
<1> USE DEF ConnectInv, HelloInv
<1>1. Cardinality(Connected) <= 1
  <2>1. CASE Connected = {}
    BY <2>1, FS_EmptySet
  <2>2. CASE Connected # {}
    <3>1. PICK a \in Connected : TRUE
      BY <2>2
    <3>2. Connected = {a}
      BY <3>1 DEF OneConnected
    <3>3. QED
      BY <3>2, FS_Singleton
  <2>3. QED
    BY <2>1, <2>2
<1>2. ASSUME NEW a \in Adapters, posting[a] # {}
      PROVE  a \in Running /\ delivered[a] /\ Cardinality(posting[a]) = 1
  <2>1. posting[a] = {"reply"} \/ posting[a] = {"canned"}
    BY <1>2 DEF HelloTypes
  <2>2. Cardinality(posting[a]) = 1
    BY <2>1, FS_Singleton
  <2>3. QED
    BY <1>2, <2>2 DEF FlagHeld
<1>3. resends \in [Adapters -> 0 .. MaxResends]
  <2>1. \A a \in Adapters : resends[a] \in 0 .. MaxResends
    BY FirstHelloAssumption DEF HelloTypes, OneReply
  <2>2. resends = [a \in Adapters |-> resends[a]]
    BY DEF HelloTypes
  <2>3. QED
    BY <2>1, <2>2
<1>4. posting \in [Adapters -> SUBSET Posters]
  <2>1. \A a \in Adapters : posting[a] \in SUBSET Posters
    BY DEF HelloTypes, Posters
  <2>2. posting = [a \in Adapters |-> posting[a]]
    BY DEF HelloTypes
  <2>3. QED
    BY <2>1, <2>2
<1>5. QED
  BY <1>1, <1>2, <1>3, <1>4 DEF TypeOK, HelloTypes, Phases

-----------------------------------------------------------------------------
(* The theorems.                                                           *)

\* It holds before the first connect.
LEMMA ConnectInitInv == ConnectInit => ConnectInv
<1> SUFFICES ASSUME ConnectInit PROVE ConnectInv
  OBVIOUS
<1>1. HelloTypes /\ OneConnected /\ FlagHeld /\ SaidAndLost
  BY DEF ConnectInit, Init, HelloTypes, Phases, OneConnected, Connected, FlagHeld, SaidAndLost
<1>2. OneReply
  BY FirstHelloAssumption DEF ConnectInit, Init, OneReply
<1>3. AllTroubles <= MaxTroubles
  BY ConnectAssumption DEF ConnectInit, Init, AllTroubles
<1>4. AcceptTypes /\ Guarded
  BY <1>3 DEF ConnectInit, AcceptTypes, Guarded
<1>5. QED
  BY <1>1, <1>2, <1>4 DEF ConnectInv, HelloInv

\* Every reachable state of a connect satisfies the invariant.
THEOREM ConnectInductive == ConnectSpec => []ConnectInv
<1>1. ConnectInv /\ [ConnectNext]_allVars => ConnectInv'
  BY HelloStepInv, AcceptStepInv DEF ConnectInv
<1>2. QED
  BY ConnectInitInv, <1>1, PTL DEF ConnectSpec

\* Whichever of the reply, its retry, the failed turn, the deadline, a disconnect
\* and a crash comes first, an adapter says one hello, but for posts whose answer
\* was lost (_send_hello, _post_canned_hello, _hello_delivered).
THEOREM HelloOnce == ConnectSpec => []OneHelloEach
<1>1. ConnectInv => OneHelloEach
  BY DEF ConnectInv, HelloInv, SaidAndLost, OneHelloEach
<1>2. QED
  BY ConnectInductive, <1>1, PTL

\* Sweep and push never accept one loop side by side, and a loop marked as in
\* flight has an accept that will take its mark off (_accept_vouch and its
\* finally, _vouch_accepts_in_flight).
THEOREM AcceptsAreGuarded == ConnectSpec => []OneAcceptAtATime
<1>1. ConnectInv => OneAcceptAtATime
  BY OneMarkOneAccept DEF OneAcceptAtATime
<1>2. QED
  BY ConnectInductive, <1>1, PTL

\* Every variable of a connect stays in its type, one adapter is connected at a
\* time, and it waits for one post at most, with the flag up.
THEOREM ConnectTypes == ConnectSpec => [](TypeOK /\ ConnectTypeOK)
<1>1. ConnectInv => ConnectTypeOK
  BY DEF ConnectInv, AcceptTypes, ConnectTypeOK
<1>2. ConnectInv => TypeOK /\ ConnectTypeOK
  BY <1>1, ConnectTyped
<1>3. QED
  BY ConnectInductive, <1>2, PTL
=============================================================================
