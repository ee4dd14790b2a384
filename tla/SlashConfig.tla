------------------------------- MODULE SlashConfig -------------------------------
(***************************************************************************)
(* The principal's /fil- messages: the adapter takes one out of the        *)
(* backchannel before the model sees it, asks the server for the channels, *)
(* parses it (SlashParse), compiles it to new store documents, writes them, *)
(* mirrors the sections to the server and answers.  Each message has a task *)
(* of its own, which lets others run while it waits for the channels and   *)
(* for the write-back.  Meanwhile the tools of a control turn edit the same *)
(* files from their own thread, and wakes resolve what they find (ToolGate). *)
(***************************************************************************)
EXTENDS ToolGate, SlashParse

CONSTANTS
  Messages,      \* [command, words, owner]
  SlashFlag,     \* FEATURE_SLASH_COMMANDS
  Handlers,      \* /fil- messages handled at a time
  MaxWriteFaults \* bound on files that cannot be written

ASSUME SlashAssumption ==
  /\ {c.room : c \in Channels} \subseteq Rooms /\ SlashFlag \in Features
  /\ Rows \cup Aliases \subseteq DOMAIN Members /\ Range(Servers) \cup Range(Sources) \subseteq Autos
  /\ IsFiniteSet(Channels) /\ \A m \in Messages : m.words \in Seq(Range(m.words))
  /\ DOMAIN Shape \cap Fillers = {} /\ \A w \in DOMAIN Shape : Shape[w].slot \in {"channel", "target"}
  /\ MaxWriteFaults \in Nat

VARIABLES
  handling,   \* by task: the /fil- message, or what is left of its change, or NoCommand
  echo,       \* the change last confirmed and whether a null was written for it;
              \* None after another edit (history)
  writeFaults

slashVars == <<handling, echo, writeFaults>>
vars      == <<bundleVars, gateVars, slashVars>>

NoCommand  == [phase |-> "idle"]
Writing(h) == handling[h].phase = "writing"

\* From the answer of list_channels to the last file a handler awaits nothing, so
\* that nothing else runs on its loop.
LoopFree == waking = None /\ \A h \in Handlers : Writing(h) => handling[h].writes = <<>>

\* What is in a file and not at the server yet: the edits of the handlers H and of
\* the tools that have still to be written back.
Owing(H) ==
  (UNION {handling[h].sections : h \in {g \in H : Writing(g)}}) \cup (UNION {turns[t].unsent : t \in Turns})

\* What a command has read and written is no longer what the files hold.
Disturbed(c) == IF stores' # stores /\ c.phase = "writing" THEN [c EXCEPT !.undisturbed = FALSE] ELSE c

Becomes(h, c) == handling' = [g \in Handlers |-> IF g = h THEN c ELSE Disturbed(handling[g])]
AllDisturbed  == handling' = [g \in Handlers |-> Disturbed(handling[g])]

-----------------------------------------------------------------------------
(* Compiling a parsed change to the documents to write, in their order.    *)

Write(section, holds) == <<[section |-> section, holds |-> holds]>>

\* Mutant: a first edit starts from nothing, not from the default list.
MaterializeEmpty(r) == IF r \in DOMAIN policy.channel THEN policy.channel[r] ELSE {}
\* A channel's first edit starts from the list that was in force there.
Materialize(r) == GrantsFor(policy, r)

\* Mutant: the gate stays as it is.
NoGate == <<>>
\* Whatever the principal asks for a channel's tools is to apply: the gate goes on.
GateToo == IF GateOn THEN <<>> ELSE Write("feature_flags", {With(flags, Gate, TRUE)})

\* apply_tools, _tools_state_matches.  A mutation that changes the flags alone has
\* no policy, and the handler writes that as well.
ApplyTools(r) ==
  LET had == Materialize(r.room)
      has == IF r.verb = "grant" THEN had \cup {r.target} ELSE had \ {r.target}
      new == [policy EXCEPT !.channel = With(policy.channel, r.room, has)]
  IN  IF has = had /\ GateOn THEN <<>>
      ELSE Write("capability_policy", IF has = had THEN {} ELSE {new}) \o GateToo

\* apply_wake, apply_guidance, apply_feature: nothing when it is so already.
ApplyWake(r) ==
  LET modes == Held("wake_policy")
  IN  IF r.room \in DOMAIN modes /\ modes[r.room] = r.mode THEN <<>>
      ELSE Write("wake_policy", {With(modes, r.room, r.mode)})

ApplyGuidance(r) ==
  LET texts == Held("channel_instructions")
  IN  IF r.text # <<>> THEN Write("channel_instructions", {With(texts, r.room, r.text)})
      ELSE IF r.room \in DOMAIN texts
      THEN Write("channel_instructions", {Without(texts, r.room)}) ELSE <<>>

ApplyFeature(r) ==
  IF (r.feature \in DOMAIN flags /\ flags[r.feature]) = r.on THEN <<>>
  ELSE Write("feature_flags", {With(flags, r.feature, r.on)})

Changes == {"tools", "wake", "guidance", "feature"}

Compiled(r) ==
  CASE r.kind = "tools"    -> ApplyTools(r)
    [] r.kind = "wake"     -> ApplyWake(r)
    [] r.kind = "guidance" -> ApplyGuidance(r)
    [] r.kind = "feature"  -> ApplyFeature(r)

-----------------------------------------------------------------------------
(* Handling a message.                                                     *)

\* _handle_control_message: with the surface off, /fil-help and /fil-upgrade are
\* the principal's, and everything else goes to the model.
Intercepts(m) == IsOn(SlashFlag) \/ (AlwaysOn(m) /\ m.owner)

FreeHandler == CHOOSE h \in Handlers : handling[h] = NoCommand

Receive(m, h) ==
  /\ LoopFree /\ handling[h] = NoCommand /\ h = FreeHandler /\ Intercepts(m) /\ Counted
  /\ handling' = [handling EXCEPT ![h] = [phase |-> "listing", message |-> m]]
  /\ UNCHANGED <<bundleVars, config, toolsets, turns, waking, woken, echo, writeFaults>>

\* The policy file holds null, and the server's copy a policy: a null was written,
\* and no write-back has put the policy back yet.
Blanked == stores.capability_policy = {} /\ server.capability_policy # {}

\* Only what a mutation holds is among its sections: not a null.
Compilation(r) ==
  LET writes == Compiled(r)
  IN  [phase |-> "writing", result |-> r, writes |-> writes,
       sections |-> {w.section : w \in {v \in Range(writes) : v.holds # {}}},
       wipes |-> \E w \in Range(writes) : w.holds = {} /\ stores[w.section] # {},
       undisturbed |-> ~Blanked]

\* list_channels has answered, or failed and left no channel to name.  The policy
\* and the store of the change are read now.
Compile(h, chans) ==
  /\ LoopFree /\ handling[h].phase = "listing" /\ UNCHANGED <<bundleVars, gateVars, writeFaults>>
  /\ LET r == Parse(handling[h].message, chans, DOMAIN policy.custom)
     IN  IF r.kind \in Changes
         THEN Becomes(h, Compilation(r)) /\ echo' = None
         ELSE Becomes(h, NoCommand) /\ UNCHANGED echo

MayWrite(h) == waking = None /\ Writing(h) /\ handling[h].writes # <<>>

WriteNext(h) ==
  /\ MayWrite(h)
  /\ LET w == Head(handling[h].writes)
     IN  stores' = [stores EXCEPT ![w.section] = w.holds]
  /\ Becomes(h, [handling[h] EXCEPT !.writes = Tail(@)])
  /\ UNCHANGED <<bundleVars, server, pending, synced, toolsets, turns, waking, woken, edits,
                 echo, writeFaults>>

\* The exception ends the handler: no write-back, and no answer.
WriteFails(h) ==
  /\ MayWrite(h) /\ writeFaults < MaxWriteFaults /\ writeFaults' = writeFaults + 1
  /\ UNCHANGED <<bundleVars, gateVars, echo>> /\ Becomes(h, NoCommand)

\* Mutant: the sections are written back one after the other.
MirrorFirst(sections) ==
  \E s \in sections : WriteBack({s})
\* One batched write-back of all that the change wrote.
MirrorAll(sections) == WriteBack(sections)

Mirror(sections) ==
  IF sections = {} THEN UNCHANGED config ELSE MirrorAll(sections)

\* The write-back, and the answer.  It counts as an answer to rely on unless the
\* files were changed under the command, or hold what others have not pushed.
Confirm(h) ==
  LET c == handling[h]
  IN  /\ LoopFree /\ Writing(h) /\ Mirror(c.sections) /\ Becomes(h, NoCommand)
      /\ echo' = IF c.undisturbed /\ Owing(Handlers \ {h}) = {}
                 THEN [change |-> c.result, wiped |-> c.wipes] ELSE echo
      /\ UNCHANGED <<bundleVars, toolsets, turns, waking, woken, edits, writeFaults>>

\* A tool of a control turn edits meanwhile, and writes its edit back.
ToolEdits == AnEdit /\ AllDisturbed /\ echo' = None /\ UNCHANGED writeFaults
ToolSends == ASend /\ AllDisturbed /\ UNCHANGED <<echo, writeFaults>>

\* Another message's sync.  It may lay the server's copy over what is pending.
Syncs ==
  /\ LoopFree /\ Sync /\ AllDisturbed /\ UNCHANGED writeFaults
  /\ echo' = IF \E s \in pending : stores'[s] # stores[s] THEN None ELSE echo

-----------------------------------------------------------------------------
Init ==
  /\ GateInit /\ handling = [h \in Handlers |-> NoCommand] /\ echo = None /\ writeFaults = 0

ACommand ==
  \E h \in Handlers :
    \/ (\E m \in Messages : Receive(m, h)) \/ (\E chans \in {{}, Channels} : Compile(h, chans))
    \/ WriteNext(h) \/ WriteFails(h) \/ Confirm(h)

Alone(A) == A /\ UNCHANGED slashVars

Next ==
  \/ ACommand \/ ToolEdits \/ ToolSends \/ Syncs
  \/ Alone(LoopFree /\ ATurn) \/ Alone(ResolveStep) \/ Alone(Dispatch)
  \/ \E L \in Toolsets : Alone(ToolsetsChange(L))

Spec == Init /\ [][Next]_vars

\* Neither the walk nor its dispatch waits for anything.
FairSpec == Spec /\ WF_vars(Alone(ResolveStep)) /\ WF_vars(Alone(Dispatch))

-----------------------------------------------------------------------------
\* Mutant: a row's name counts even where a custom bundle has taken it.
ShadowIgnored(r, row) ==
  row \in NamesGranted(policy, r) \/ Members[row] \subseteq PolicyGrants(policy, GrantsFor(policy, r))
\* _tools_status_lines: the rows a channel's view shows as on.
RowShown(r, row) ==
  LET listed == In(KnownIn(policy), MergedOf(policy), [a \in Autos |-> {}])!Granted(GrantsFor(policy, r))
  IN  \/ row \in NamesGranted(policy, r) /\ row \notin DOMAIN policy.custom
      \/ Members[row] \subseteq listed

Applies(r) ==
  CASE r.kind = "tools" ->
         /\ GateOn
         /\ IF r.verb = "grant"
            THEN PolicyGrants(policy, {r.target}) \subseteq PolicyGrants(policy, GrantsFor(policy, r.room))
            ELSE r.target \notin GrantsFor(policy, r.room)
    [] r.kind = "wake" -> r.room \in DOMAIN Held("wake_policy") /\ Held("wake_policy")[r.room] = r.mode
    [] r.kind = "guidance" ->
         LET texts == Held("channel_instructions")
         IN  IF r.text = <<>> THEN r.room \notin DOMAIN texts
             ELSE r.room \in DOMAIN texts /\ texts[r.room] = r.text
    [] r.kind = "feature" -> r.feature \in DefaultOn \/ IsOn(r.feature) = r.on

\* A change the principal was told of applies: what was granted is granted and
\* enforced, what was revoked is no longer in the channel's list, and a mode, a
\* text or a flag is as it was said to be, until somebody edits again; whatever
\* other messages and syncs push and fetch.  A file that could not be written takes
\* that away, and so does a null that was written over the policy, until it is back.
EchoHolds ==
  echo # None /\ writeFaults = 0 /\ ~(echo.wiped /\ stores.capability_policy = {}) => Applies(echo.change)

\* A grant that was there already applies once it is said to, "so if
\* advanced_tool_controls is still off the same write turns it on" (slash.py:1523).
MatchedIsEnforced ==
  echo # None /\ writeFaults = 0 /\ echo.change.kind = "tools" => Applies(echo.change)

\* A feature the principal was told is on, or off, is so (_apply_feature's answer,
\* of flags that have a default).
FlagAsSaid == echo # None /\ echo.change.kind = "feature" => IsOn(echo.change.feature) = echo.change.on

\* A tools change of one channel grants or takes away one name there, whatever
\* its list was made from, and leaves every other channel what it had; unless it
\* writes a null over the policy.
EditsOneChannel ==
  [][ \A h \in Handlers :
        (/\ Writing(h) /\ Writing(h)' /\ handling'[h].undisturbed
         /\ policy' # policy /\ stores'.capability_policy # {}) =>
          LET r == handling[h].result
          IN  \A c \in Rooms :
                GrantsFor(policy', c) =
                  IF c # r.room THEN GrantsFor(policy, c)
                  ELSE IF r.verb = "grant" THEN GrantsFor(policy, c) \cup {r.target}
                  ELSE GrantsFor(policy, c) \ {r.target} ]_vars

\* At any moment a file is what the server holds, or the section is one that a
\* later write-back is to push, because it failed or is still owed; whatever is
\* pushed and laid over other files meanwhile.  Again while files can be written,
\* and but for a policy that holds null.
StaleIsOwed ==
  writeFaults = 0 =>
    \A s \in Sections :
      \/ stores[s] = server[s] \/ s \in pending \cup Owing(Handlers)
      \/ s = "capability_policy" /\ Blanked

\* The views that messages being handled ask for.
Asked ==
  {Parse(handling[h].message, Channels, DOMAIN policy.custom) :
     h \in {g \in Handlers : handling[g].phase = "listing"}} \cap {Show(r) : r \in Rooms}

\* The view a principal is shown agrees with the gate, through aliases, custom
\* bundles and a custom bundle that takes a row's name: a row that is on is granted,
\* and one whose tools are granted is on, or has some of them from a live toolset.
ViewAgrees ==
  \A view \in Asked, row \in Rows :
    LET r       == view.room
        granted == Members[row] \subseteq PolicyGrants(policy, GrantsFor(policy, r))
        lent    == \E a \in Autos \cap NamesGranted(policy, r) : toolsets[a] \cap Members[row] # {}
    IN  /\ RowShown(r, row) => granted
        /\ granted => RowShown(r, row) \/ lent

\* A word means m and nothing else: m is all that it is exactly, its shape, if it
\* has one, is m's, and it is near no keyword.
Means(w, m) ==
  /\ ExactHits(<<w>>, ConfigEntries(Channels, {})) = {m}
  /\ IsForced(w) => ShapeOf(w).slot = m.slot
  /\ ~IsKeyword(w, "feature") /\ ~IsKeyword(w, "guidance")

\* The words mean one thing each, but for fillers, and each for a slot of its own.
Plain(words) ==
  LET read == {i \in DOMAIN words : words[i] \notin Fillers}
  IN  \E meaning \in [read -> UNION {ExactHits(<<words[i]>>, ConfigEntries(Channels, {})) : i \in read}] :
        /\ \A i \in read : Means(words[i], meaning[i])
        /\ \A i, j \in read : i # j => meaning[i].slot # meaning[j].slot

Reorderings(words) ==
  {[i \in DOMAIN words |-> words[p[i]]] : p \in Bijection(DOMAIN words, DOMAIN words)}

\* A run of words that is a channel's longer name is read as that channel.  Where
\* the words spell one, none of its own words is passed over, has a shape, or is
\* the whole name of a channel.
NamesApart(words) ==
  LET spoken == Range(words) \cup {ShapeOf(w).bare : w \in Range(words)}
  IN  \A c \in Channels : Len(c.name) > 1 /\ Range(c.name) \subseteq spoken =>
        \A w \in Range(c.name) : /\ w \notin Fillers \cup DOMAIN Shape
                                 /\ \A e \in ChannelEntries(Channels) : e.key # <<w>>

\* Every order of a message that changes anything changes the same.
OneChange(m) ==
  LET results == {Parse([command |-> "config", words |-> w], Channels, {}) : w \in Reorderings(m.words)}
  IN  Cardinality({r \in results : r.kind \in Changes}) <= 1

PlainMessages == {m \in Messages : m.command = "config" /\ Plain(m.words)}
OrderIsFree   == \A m \in PlainMessages : NamesApart(m.words) => OneChange(m)
AnyOrder      == \A m \in PlainMessages : OneChange(m)

\* In whatever order such words come, every order that changes anything changes
\* the same, and an order in which they also spell a name is a question; if a name
\* they spell is apart from the others and from the words that are passed over.
SameInEveryOrder == (\E h \in Handlers : Writing(h)) => OrderIsFree

\* "Order-free classification" (slash.py:679), whatever the channels are called.
AnyOrderIsFree == (\E h \in Handlers : Writing(h)) => AnyOrder
=============================================================================
