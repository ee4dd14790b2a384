-------------------------------- MODULE ToolGate --------------------------------
(***************************************************************************)
(* What an agent may do in a shared channel: the capability policy and the *)
(* feature flags, the tools of the backchannel that edit them, a wake that *)
(* resolves its channel's grants into the turn's context, and the hook that *)
(* is asked before every tool call.                                        *)
(*                                                                         *)
(* The policy file and the flags file are read fresh at every wake, a turn *)
(* keeps what its wake resolved, and whoever edits replaces a whole file.  *)
(* The walk of BundleExpansion works on what it has read and awaits        *)
(* nothing, so no other step is interleaved with it.                       *)
(***************************************************************************)
EXTENDS BundleExpansion

CONSTANTS
  Rooms,     \* shared channels
  Members,   \* BUILTIN_BUNDLES: a function from their names to sets of tools
  Default,   \* DEFAULT_CAPABILITIES
  Features,  \* KNOWN_FEATURES
  Gate,      \* FEATURE_ADVANCED_TOOL_CONTROLS
  DefaultOn, \* DEFAULT_ON_FEATURES
  Alias,     \* CAPABILITY_ALIASES: a function from tools to the tool they need
  Ungated,   \* UNGATED_TOOLS
  FirstFiles, \* what a process may find in the files at its start, by section
  Turns,     \* turns at a time
  Policies,  \* documents a set_capabilities call may come with
  Documents, \* [section, value]: those a set_agent_config call may, of the others
  Toolsets,  \* what the live tools of the toolsets may be
  MaxEdits,  \* bound on edits, by whoever makes them
  MaxInputs, \* bound on turns and edits
  None       \* nobody, nothing

\* A policy has three parts; grants are names, and a custom bundle has a name and
\* entries that are tools and names.
PolicyOK(p) ==
  /\ p = [custom |-> p.custom, channel |-> p.channel, default |-> p.default]
  /\ DOMAIN p.custom \subseteq Names
  /\ p.default \in SUBSET Names
  /\ \A r \in DOMAIN p.channel : p.channel[r] \in SUBSET Names
  /\ \A b \in DOMAIN p.custom : p.custom[b] \in SUBSET Entries

\* A flag's value counts as true or false (is_enabled).
FlagsOK(f) == f \in [DOMAIN f -> BOOLEAN]

\* The sections of the configuration that are files of objects.
Sections == {"capability_policy", "feature_flags", "wake_policy", "channel_instructions"}

ASSUME GateAssumption ==
  /\ DOMAIN Members \subseteq Bundles /\ Gate \in Features /\ Gate \notin DefaultOn
  /\ MaxInputs \in Nat /\ MaxEdits \in Nat

ASSUME PolicyAssumption ==
  /\ Default \subseteq DOMAIN Members /\ \A b \in DOMAIN Members : Members[b] \in SUBSET Tools
  /\ \A p \in Policies : PolicyOK(p)
  /\ \A d \in Documents :
       /\ d.section \in Sections \ {"capability_policy"}
       /\ d.section = "feature_flags" => FlagsOK(d.value)
  /\ Toolsets \subseteq [Autos -> SUBSET Tools]

VARIABLES
  stores,    \* what the files hold, by section of the config document: an object,
             \* in a set, or {} when the file is absent or holds null
  server,    \* the server's copy, likewise
  pending,   \* sections whose write-back failed
  synced,    \* has this process learnt the revision of the server's copy?
  toolsets,  \* the live tools of each toolset now
  turns,     \* zone, caps (None when ungated), promised (history), and the
             \* section, if any, it has edited and not written back yet
  waking,    \* the turn whose grants are being resolved
  woken,     \* turns so far
  edits      \* edits so far

config   == <<stores, server, pending, synced>>
gateVars == <<config, toolsets, turns, waking, woken, edits>>

StartedTurn(zone, promised) ==
  [zone |-> zone, caps |-> None, promised |-> promised, unsent |-> {}]
NoTurn == StartedTurn("none", None)

-----------------------------------------------------------------------------
(* Reading the stores.                                                     *)

\* A policy holds custom definitions by name, grant lists by room and the default
\* list; flags, wake modes and guidance are values by feature or room.
Blank ==
  [capability_policy |-> [custom |-> <<>>, channel |-> <<>>, default |-> Default],
   feature_flags |-> <<>>, wake_policy |-> <<>>, channel_instructions |-> <<>>]

\* What holds no object reads as the defaults.
ReadAs(s, holds) == IF holds = {} THEN Blank[s] ELSE CHOOSE value \in holds : TRUE
Held(s) == ReadAs(s, stores[s])
policy  == Held("capability_policy")
flags   == Held("feature_flags")

IsOn(f) == IF f \in DOMAIN flags THEN flags[f] ELSE f \in DefaultOn
GateOn  == IsOn(Gate)

\* A custom definition replaces the built-in bundle of its name.
Definition(p, b) ==
  IF b \in DOMAIN p.custom THEN p.custom[b]
  ELSE IF b \in DOMAIN Members THEN Members[b] ELSE {}

KnownIn(p)    == Bundles \cap (DOMAIN p.custom \cup DOMAIN Members)
MergedOf(p)   == [b \in Bundles |-> Definition(p, b)]
GrantsFor(p, r) == IF r \in DOMAIN p.channel THEN p.channel[r] ELSE p.default

\* What the policy p grants, by the reference of BundleExpansion: the tools, and
\* the names a channel's list leads to.
In(K, I, L) == INSTANCE BundleExpansion WITH known <- K, includes <- I, live <- L

PolicyGrants(p, G) == In(KnownIn(p), MergedOf(p), toolsets)!Granted(G)
NamesGranted(p, r) == In(KnownIn(p), MergedOf(p), toolsets)!Reach(GrantsFor(p, r))

CapabilityOf(x) == IF x \in DOMAIN Alias THEN Alias[x] ELSE x

\* Mutant: a tool that another governs is looked up under its own name.
DeniesByName(caps, x) == caps # None /\ x \notin Ungated /\ x \notin caps
\* capability_denies.  The pre_tool_call hook asks it of the calling turn's context
\* before every call, and keeps nothing.
CapabilityDenies(caps, x) ==
  caps # None /\ x \notin Ungated /\ CapabilityOf(x) \notin caps

-----------------------------------------------------------------------------
(* Wakes and tool calls.                                                   *)

MoreInput == woken + edits < MaxInputs

\* Turns are alike: one that starts takes the first free place.
FreeTurn == CHOOSE t \in Turns : turns[t] = NoTurn
StartTurn(t, turn) ==
  /\ waking = None /\ turns[t] = NoTurn /\ t = FreeTurn /\ MoreInput /\ woken' = woken + 1
  /\ turns' = [turns EXCEPT ![t] = turn]

\* A shared-channel wake with the flag off: the turn is not gated.
WakeUngated(t) ==
  /\ ~GateOn /\ StartTurn(t, StartedTurn("data", None))
  /\ UNCHANGED <<bundleVars, config, toolsets, waking, edits>>

\* With the flag on, the channel's grants are read and resolved.
WakeGated(t, r) ==
  /\ GateOn
  /\ StartTurn(t, StartedTurn("data", Ungateable \cup PolicyGrants(policy, GrantsFor(policy, r))))
  /\ waking' = t
  /\ Begin(KnownIn(policy), MergedOf(policy), toolsets, GrantsFor(policy, r))
  /\ UNCHANGED <<config, toolsets, edits>>

ResolveStep == WalkStep /\ UNCHANGED gateVars

\* The resolved set is pinned in the turn's context.
Dispatch ==
  /\ waking # None /\ stage = "resolved" /\ waking' = None
  /\ turns' = [turns EXCEPT ![waking].caps = allowed] /\ Discard
  /\ UNCHANGED <<config, toolsets, woken, edits>>

\* A turn of the principal, in the backchannel or wherever it follows them, is not
\* gated.
ControlTurn(t) ==
  /\ StartTurn(t, StartedTurn("control", None))
  /\ UNCHANGED <<bundleVars, config, toolsets, waking, edits>>

InTurn(t) == waking = None /\ turns[t].zone # "none"

EndTurn(t) ==
  /\ InTurn(t) /\ turns[t].unsent = {} /\ turns' = [turns EXCEPT ![t] = NoTurn]
  /\ UNCHANGED <<bundleVars, config, toolsets, waking, woken, edits>>

\* A toolset of the host comes, goes or changes: nothing tells the plugin.
ToolsetsChange(L) ==
  /\ waking = None /\ toolsets' = L /\ toolsets # L
  /\ UNCHANGED <<bundleVars, config, turns, waking, woken, edits>>

-----------------------------------------------------------------------------
(* The server's copy of the files, each step under the lock of the sync     *)
(* (ServerConfig has what happens within one).                             *)

\* The server's copy is laid over the files other than those of S; what it does
\* not hold, or holds as no object, leaves the file alone.
Laid(S) == [s \in Sections |-> IF s \in S \/ server[s] = {} THEN stores[s] ELSE server[s]]

\* ServerConfigSync.write_back pushes the sections S and the pending ones, and lays
\* the rest of the server's copy over the other files.  A file that holds no
\* object takes its section out of the server's copy.
WriteBack(S) ==
  LET batch == S \cup pending
  IN  \/ /\ server' = [s \in Sections |-> IF s \in batch THEN stores[s] ELSE server[s]]
         /\ stores' = Laid(batch) /\ pending' = {} /\ synced' = TRUE
      \/ pending' = batch /\ UNCHANGED <<stores, server, synced>>

\* ServerConfigSync.sync, for every message that arrives: what is pending is pushed
\* again, and where the revision is not known yet the server's copy is fetched and
\* laid over all files.
Sync ==
  /\ waking = None
  /\ \/ pending # {} /\ WriteBack({})
     \/ ~synced /\ stores' = Laid({}) /\ synced' = TRUE /\ UNCHANGED <<server, pending>>
  /\ UNCHANGED <<bundleVars, toolsets, turns, waking, woken, edits>>

-----------------------------------------------------------------------------
(* The editing tools.  Each writes a file and then the section to the      *)
(* server, and is refused outside of a control turn.  A turn makes one such *)
(* call at a time, on a thread of its own.                                 *)

Counted == MoreInput /\ edits < MaxEdits /\ edits' = edits + 1

Edit(t, section, value) ==
  /\ InTurn(t) /\ turns[t].zone = "control" /\ turns[t].unsent = {} /\ Counted
  /\ stores' = [stores EXCEPT ![section] = {value}]
  /\ turns' = [turns EXCEPT ![t].unsent = {section}]
  /\ UNCHANGED <<bundleVars, server, pending, synced, toolsets, waking, woken>>

SendEdit(t) ==
  /\ InTurn(t) /\ turns[t].unsent # {} /\ WriteBack(turns[t].unsent)
  /\ turns' = [turns EXCEPT ![t].unsent = {}]
  /\ UNCHANGED <<bundleVars, toolsets, waking, woken, edits>>

\* Mutant: what a custom bundle includes is not looked at.
GrantsAreKnown(p) ==
  LET Known == Autos \cup KnownIn(p)
  IN  /\ DOMAIN p.custom \cap Autos = {} /\ p.default \subseteq Known
      /\ \A r \in DOMAIN p.channel : p.channel[r] \subseteq Known
\* _capability_policy_error: no reserved name is defined, and whatever is named
\* by a grant or included by a bundle is known.
ValidPolicy(p) ==
  LET Known == Autos \cup KnownIn(p)
  IN  /\ DOMAIN p.custom \cap Autos = {} /\ p.default \subseteq Known
      /\ \A r \in DOMAIN p.channel : p.channel[r] \subseteq Known
      /\ \A b \in DOMAIN p.custom : p.custom[b] \cap Bundles \subseteq Known

\* Files an earlier process has left.
ASSUME FilesAssumption ==
  \A d \in FirstFiles :
    /\ d = [s \in Sections |-> d[s]]
    /\ \A p \in d.capability_policy : PolicyOK(p) /\ ValidPolicy(p)
    /\ \A f \in d.feature_flags : FlagsOK(f)

\* set_capabilities and set_agent_config("capability_policy"), which have nothing
\* to say while the flag is off.
SetCapabilities(t, p) ==
  GateOn /\ ValidPolicy(p) /\ Edit(t, "capability_policy", p)

With(f, x, v) == [y \in DOMAIN f \cup {x} |-> IF y = x THEN v ELSE f[y]]
Without(f, x) == [y \in DOMAIN f \ {x} |-> f[y]]

\* set_feature sets one flag; set_wake_policy and set_agent_config replace a file.
SetFeature(t, f, on) == Edit(t, "feature_flags", With(flags, f, on))
SetDocument(t, d)    == Edit(t, d.section, d.value)

-----------------------------------------------------------------------------
\* A process starts in step with the server, and may or may not reach it then.
GateInit ==
  /\ ExpandInit
  /\ stores \in FirstFiles /\ server = stores /\ pending = {} /\ synced \in BOOLEAN
  /\ toolsets \in Toolsets /\ turns = [t \in Turns |-> NoTurn]
  /\ waking = None /\ woken = 0 /\ edits = 0

ATurn ==
  \E t \in Turns :
    \/ WakeUngated(t) \/ (\E r \in Rooms : WakeGated(t, r))
    \/ ControlTurn(t) \/ EndTurn(t)

AnEdit ==
  \E t \in Turns :
    \/ \E p \in Policies : SetCapabilities(t, p)
    \/ \E f \in Features, on \in BOOLEAN : SetFeature(t, f, on)
    \/ \E d \in Documents : SetDocument(t, d)

ASend == \E t \in Turns : SendEdit(t)

GateNext ==
  \/ ATurn \/ AnEdit \/ ASend \/ Sync \/ ResolveStep \/ Dispatch \/ \E L \in Toolsets : ToolsetsChange(L)

GateSpec == GateInit /\ [][GateNext]_<<bundleVars, gateVars>>

-----------------------------------------------------------------------------
\* Whatever tool a turn calls, and whenever: it runs just when the policy its wake
\* read grants it to its channel, by its own name or the one that governs it, or no
\* grant is needed; whoever edits the policy or the flags, and whatever toolsets
\* come and go, while the turn runs.
AnsweredAsPromised ==
  \A t \in Turns :
    LET caps == turns[t].caps
    IN  caps # None =>
          \A x \in Tools :
            CapabilityDenies(caps, x) <=> x \notin Ungated /\ CapabilityOf(x) \notin turns[t].promised

AllGrantsKnown ==
  /\ DOMAIN policy.custom \cap Autos = {}
  /\ \A r \in Rooms : NamesGranted(policy, r) \subseteq KnownIn(policy) \cup Autos

\* No edit leaves a channel with a grant that leads to a name which means nothing,
\* or a policy whose bundles hide a reserved name.
NoDanglingGrant == [][policy' # policy => AllGrantsKnown']_<<bundleVars, gateVars>>

\* A walk ends, and the turn it was for is dispatched, on every include graph.
WakesDispatch == waking # None ~> waking = None
=============================================================================
