------------------------------ MODULE SeenHistory ------------------------------
(***************************************************************************)
(* What a reactive turn has been shown of its channel.  Each wake inlines  *)
(* the messages its conversation has not seen yet, and a mark per          *)
(* conversation (reactive.SeenHistoryStore, keyed by reactive.history_key) *)
(* remembers how far that went.  Wakes of one channel run concurrently,    *)
(* each with awaits between the choice of its key, the read of the         *)
(* history, the dispatch and the record of the mark; the model reads       *)
(* history of its own meanwhile, and the flag that decides whether a       *)
(* channel is one session or one per sender can be flipped at any time.    *)
(*                                                                         *)
(* Messages are the positions of the channel's timeline; a position is     *)
(* also the message's timestamp.  A session of the gateway is named by the *)
(* history_key of the turns that join it.                                  *)
(***************************************************************************)
EXTENDS Naturals, Sequences, FiniteSets, FiniteSetsExt

CONSTANTS
  Senders,      \* who writes in the channel, the agent apart
  Principal,    \* the agent's owner
  Me,           \* the agent
  ReplyStyle,   \* "thread" or "channel" (WakePolicyStore.reply_style)
  Window,       \* BREADCRUMB_LIMIT
  MaxPosts, MaxFlips, MaxExpiries, MaxReads  \* bounds

Positions == 1 .. MaxPosts  \* of the channel's timeline
NoMark   == 0     \* no mark, no message
NoThread == 0     \* the thread of a top-level message

ASSUME SeenHistoryAssumption ==
  /\ Principal \in Senders /\ Me \notin Senders
  /\ ReplyStyle \in {"thread", "channel"}
  /\ Window \in Nat \ {0}
  /\ MaxPosts \in Nat /\ MaxFlips \in Nat /\ MaxExpiries \in Nat
  /\ MaxReads \in Nat

VARIABLES
  posts,     \* the channel's timeline: <<[by, thread], ...>>
  shared,    \* does the channel key to one session (shared_channel_sessions)?
  marks,     \* seen_history.json: key -> newest message shown
  fresh,     \* the marks younger than SEEN_HISTORY_TTL_SECONDS
  shown,     \* session -> the messages its context holds
  wakes,     \* message -> the turn it triggers
  reads,     \* history reads of the model, served and not yet returned
  misled,    \* keys with a mark of a turn that joined another session (history)
  flips, expiries

seenVars ==
  <<posts, shared, marks, fresh, shown, wakes, reads, misled, flips, expiries>>

HistoryKey(thread, sender, sh) ==
  IF thread # NoThread THEN <<"thread", thread>>
  ELSE IF sh THEN <<"channel">> ELSE <<"channel", sender>>

Keys == {<<"thread", m>> : m \in Positions} \cup {<<"channel">>}
        \cup {<<"channel", s>> : s \in Senders}

\* A thread keys when it is real, or when replies root one at the trigger.
KeyingThread(m, sh) ==
  IF posts[m].thread # NoThread \/ sh \/ ReplyStyle = "channel"
  THEN posts[m].thread ELSE m

NoWake == [pc |-> "none", key |-> <<>>, thread |-> NoThread, session |-> <<>>,
           asOf |-> 0, unseen |-> {}, newest |-> NoMark]

-----------------------------------------------------------------------------
(* Reading history.                                                        *)

Newest(S) == IF S = {} THEN NoMark ELSE Max(S)

\* What get_thread or get_recent_messages returns of the first n messages.
Served(thread, n) ==
  IF thread # NoThread THEN {i \in 1 .. n : i = thread \/ posts[i].thread = thread}
  ELSE LET tops == {i \in 1 .. n : posts[i].thread = NoThread}
       IN {i \in tops : Cardinality({j \in tops : j > i}) < Window}

\* Mutant: the newest message there is instead of the newest one read.
NewestPosted(S) == Len(posts)
NewestOf(S) == Newest(S)

MarkFor(k) == IF k \in fresh THEN marks[k] ELSE NoMark

\* Mutant: compare with the mark instead of looking it up among the messages.
LaterThanMark(S, trigger, seen) ==
  {i \in S : i > seen /\ posts[i].by # Me /\ i # trigger}
UnseenMessages(S, trigger, seen) ==
  {i \in S : (seen \in S => i > seen) /\ posts[i].by # Me /\ i # trigger}

\* A provably stale read never rewinds a mark, not even an expired one.
RecordMark(k, newest) ==
  IF newest = NoMark \/ newest < marks[k] THEN UNCHANGED <<marks, fresh>>
  ELSE marks' = [marks EXCEPT ![k] = newest] /\ fresh' = fresh \cup {k}

-----------------------------------------------------------------------------
(* The channel.                                                            *)

Post ==
  /\ Len(posts) < MaxPosts
  /\ \E by \in Senders \cup {Me} :
     \E thread \in {NoThread} \cup {i \in DOMAIN posts : posts[i].thread = NoThread} :
       posts' = Append(posts, [by |-> by, thread |-> thread])
  /\ UNCHANGED <<shared, marks, fresh, shown, wakes, reads, misled, flips, expiries>>

OnItsWay(m) == wakes[m].pc \in {"reading", "served", "ready", "dispatched"}

FlipFlag ==
  /\ flips < MaxFlips /\ flips' = flips + 1 /\ shared' = ~shared
  /\ UNCHANGED <<posts, marks, fresh, shown, wakes, reads, misled, expiries>>

\* A day without a turn: the marks are no longer trusted, and Hermes may have
\* reset the sessions.
DayPasses ==
  /\ expiries < MaxExpiries /\ expiries' = expiries + 1
  /\ reads = {} /\ \A m \in Positions : ~OnItsWay(m)
  /\ fresh' = {} /\ misled' = {}
  /\ \/ shown' = [k \in Keys |-> {}]
     \/ UNCHANGED shown
  /\ UNCHANGED <<posts, shared, marks, wakes, reads, flips>>

-----------------------------------------------------------------------------
(* A wake: FCMFilamentAdapter._handle_push_message_turn and _wake.         *)

\* The wake gate admits a message of someone other than the principal: its key
\* is chosen here, before the history is read.
Admit(m) ==
  /\ m \in DOMAIN posts /\ wakes[m].pc = "none"
  /\ posts[m].by \notin {Me, Principal}
  /\ LET thread == KeyingThread(m, shared)
     IN wakes' = [wakes EXCEPT ![m].pc = "reading", ![m].thread = thread,
                    ![m].key = HistoryKey(thread, posts[m].by, shared)]
  /\ UNCHANGED <<posts, shared, marks, fresh, shown, reads, misled, flips, expiries>>

\* _history_for_wake reads the real thread of the message, or the channel.
ServeHistory(m) ==
  /\ wakes[m].pc = "reading"
  /\ wakes' = [wakes EXCEPT ![m].pc = "served", ![m].asOf = Len(posts)]
  /\ UNCHANGED <<posts, shared, marks, fresh, shown, reads, misled, flips, expiries>>

HistoryFails(m) ==
  /\ wakes[m].pc = "reading"
  /\ wakes' = [wakes EXCEPT ![m].pc = "ready"]
  /\ UNCHANGED <<posts, shared, marks, fresh, shown, reads, misled, flips, expiries>>

HistoryReady(m) ==
  /\ wakes[m].pc = "served"
  /\ LET read == Served(posts[m].thread, wakes[m].asOf)
     IN wakes' = [wakes EXCEPT ![m].pc = "ready", ![m].newest = NewestOf(read),
          ![m].unseen = UnseenMessages(read, m, MarkFor(wakes[m].key))]
  /\ UNCHANGED <<posts, shared, marks, fresh, shown, reads, misled, flips, expiries>>

\* The keying flag is read again, in the same step as handle_message.
Dispatch(m) ==
  /\ wakes[m].pc = "ready"
  /\ LET session == HistoryKey(wakes[m].thread, posts[m].by, shared)
     IN /\ wakes' = [wakes EXCEPT ![m].pc = "dispatched", ![m].session = session]
        /\ shown' = [shown EXCEPT ![session] = @ \cup wakes[m].unseen \cup {m}]
  /\ UNCHANGED <<posts, shared, marks, fresh, reads, misled, flips, expiries>>

Record(m) ==
  /\ wakes[m].pc = "dispatched"
  /\ wakes' = [wakes EXCEPT ![m].pc = "done"]
  /\ RecordMark(wakes[m].key, wakes[m].newest)
  /\ misled' = IF wakes[m].newest # NoMark /\ wakes[m].key # wakes[m].session
               THEN misled \cup {wakes[m].key} ELSE misled
  /\ UNCHANGED <<posts, shared, shown, reads, flips, expiries>>

\* The principal's message is a control turn: it joins the session of its own
\* thread or channel, inlines no history and records no mark.
ControlTurn(m) ==
  /\ m \in DOMAIN posts /\ wakes[m].pc = "none" /\ posts[m].by = Principal
  /\ LET session == HistoryKey(posts[m].thread, Principal, shared)
     IN /\ wakes' = [wakes EXCEPT ![m].pc = "done", ![m].session = session,
                       ![m].key = session, ![m].thread = posts[m].thread]
        /\ shown' = [shown EXCEPT ![session] = @ \cup {m}]
  /\ UNCHANGED <<posts, shared, marks, fresh, reads, misled, flips, expiries>>

\* A turn's model reads its own conversation; reads overlap and return in any
\* order, and each return is recorded under the turn's history_key.
ModelReads(m) ==
  /\ wakes[m].pc \in {"dispatched", "done"} /\ Cardinality(reads) < MaxReads
  /\ reads' = reads \cup {[session |-> wakes[m].session,
                           got |-> Served(wakes[m].thread, Len(posts))]}
  /\ UNCHANGED <<posts, shared, marks, fresh, shown, wakes, misled, flips, expiries>>

ReadReturns(r) ==
  /\ r \in reads /\ reads' = reads \ {r}
  /\ shown' = [shown EXCEPT ![r.session] = @ \cup r.got]
  /\ RecordMark(r.session, NewestOf(r.got))
  /\ UNCHANGED <<posts, shared, wakes, misled, flips, expiries>>

-----------------------------------------------------------------------------
SeenInit ==
  /\ posts = <<>> /\ shared \in BOOLEAN
  /\ marks = [k \in Keys |-> NoMark] /\ fresh = {}
  /\ shown = [k \in Keys |-> {}]
  /\ wakes = [m \in Positions |-> NoWake] /\ reads = {} /\ misled = {}
  /\ flips = 0 /\ expiries = 0

SeenNext ==
  \/ Post \/ FlipFlag \/ DayPasses
  \/ \E m \in Positions :
       \/ Admit(m) \/ ServeHistory(m) \/ HistoryFails(m) \/ HistoryReady(m)
       \/ Dispatch(m) \/ Record(m) \/ ControlTurn(m) \/ ModelReads(m)
  \/ \E r \in reads : ReadReturns(r)

SeenSpec == SeenInit /\ [][SeenNext]_seenVars

-----------------------------------------------------------------------------
\* The variables stay in their types; a wake under way has its message and key.
SeenTypeOK ==
  /\ posts \in Seq([by : Senders \cup {Me}, thread : Positions \cup {NoThread}])
  /\ shared \in BOOLEAN /\ fresh \subseteq Keys /\ misled \subseteq Keys
  /\ marks \in [Keys -> Positions \cup {NoMark}]
  /\ shown \in [Keys -> SUBSET Positions]
  /\ \A m \in Positions :
       /\ wakes[m].pc \in {"none", "reading", "served", "ready", "dispatched", "done"}
       /\ wakes[m].pc # "none" => m \in DOMAIN posts /\ wakes[m].key \in Keys
       /\ wakes[m].pc \in {"dispatched", "done"} => wakes[m].session \in Keys

\* A mark never hides a message from the session it speaks for: of the history
\* up to the mark that a read of this conversation may return (the thread, or
\* the channel's last Window messages), everything is the agent's own or in
\* that session's context.  Excepted are keys under which a turn recorded its
\* mark that a flip of the flag, between the choice of its key and its dispatch,
\* sent to another session (SameKeySameContext).
MarkMeansShown ==
  \A k \in Keys \ misled :
    LET hidden == Served(IF k[1] = "thread" THEN k[2] ELSE NoThread, MarkFor(k))
    IN MarkFor(k) \in hidden =>
         {i \in hidden : posts[i].by # Me} \subseteq shown[k]

\* A wake whose history was read starts with a session that holds, the agent's
\* own posts apart, all of the history it read, whatever other wakes, reads of
\* the model, flips and expiries did between its read and its dispatch.  It may
\* miss some only where a flip sent it, or sent an earlier wake under its key,
\* to another session than its key names.
WakeKnowsItsHistory ==
  [][\A m \in Positions :
       (/\ wakes[m].pc = "ready" /\ wakes'[m].pc = "dispatched"
        /\ wakes[m].newest # NoMark
        /\ wakes[m].key \notin misled /\ wakes'[m].session = wakes[m].key)
       => \A i \in Served(posts[m].thread, wakes[m].asOf) :
            posts[i].by # Me => i \in shown'[wakes'[m].session]]_seenVars

\* What the docstring of history_key says: two wakes with the same key land in
\* the same model context.  A flip of the flag between a wake's choice of its
\* key and its dispatch breaks it.
SameKeySameContext ==
  \A m, n \in Positions :
    (/\ wakes[m].pc \in {"dispatched", "done"} /\ wakes[n].pc \in {"dispatched", "done"}
     /\ wakes[m].key = wakes[n].key) => wakes[m].session = wakes[n].session
=============================================================================
