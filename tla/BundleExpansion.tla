---------------------------- MODULE BundleExpansion ----------------------------
(***************************************************************************)
(* CapabilityPolicyStore.resolve: the grants of a channel are expanded, one *)
(* by one, to tool names.  A bundle lists tools and other bundles, the     *)
(* include graph is whatever the policy document says, cycles included, and *)
(* expand_bundle walks it with an explicit stack.                          *)
(*                                                                         *)
(* The walk works on what it read when it began: the merged definitions and *)
(* the grant list.  Here an entry that is a name stands for "@name", and a *)
(* list is a set: its entries are visited in any order.                    *)
(***************************************************************************)
EXTENDS Naturals, Sequences, FiniteSets

CONSTANTS
  Bundles,    \* names of bundles, built-in or custom, defined or not
  Autos,      \* names with a reserved prefix: mcp:<server>, toolset:<name>
  Tools,
  Ungateable  \* UNGATEABLE: what no grant can remove

ASSUME BundleAssumption ==
  /\ Bundles \cap Autos = {} /\ (Bundles \cup Autos) \cap Tools = {}
  /\ Ungateable \subseteq Tools

Names   == Bundles \cup Autos
Entries == Tools \cup Names

VARIABLES
  known,     \* bundles with a definition
  includes,  \* their entries
  live,      \* the live tools of each toolset, empty when the lookup fails
  grants,    \* the grant list being expanded
  todo,      \* grants not yet expanded
  frames,    \* the names on the current path, outermost first
  left,      \* entries of a framed bundle not yet visited
  expanded,  \* bundles entered for the grant under way
  tools,     \* tools collected
  entered,   \* history: names entered so far, for any grant
  stage      \* "idle", "walking" or "resolved"

snapshot   == <<known, includes, live, grants>>
registers  == <<frames, left, expanded, tools>>
bundleVars == <<snapshot, registers, todo, entered, stage>>

EntriesOf(n) == IF n \in known THEN includes[n] ELSE {}
ToolsOf(n)   == IF n \in Autos THEN live[n] ELSE EntriesOf(n) \cap Tools
NamesOf(n)   == IF n \in Autos THEN {} ELSE EntriesOf(n) \cap Names

\* The reference: the names a set of names leads to is the least set that holds
\* them and what its members include.
Closed(C)   == \A n \in C : NamesOf(n) \subseteq C
Reach(G)    == LET above == {C \in SUBSET Names : G \subseteq C /\ Closed(C)}
               IN  {n \in Names : \A C \in above : n \in C}
ToolsIn(C)  == UNION {ToolsOf(n) : n \in C}
Granted(G)  == ToolsIn(Reach(G))

OnPath  == {frames[i] : i \in 1 .. Len(frames)}
Top     == frames[Len(frames)]
allowed == tools \cup Ungateable

-----------------------------------------------------------------------------
(* The nested _enter of expand_bundle, met with the registers path, done   *)
(* (expanded) and rest (left).                                             *)

EnterAuto(n, done, rest) ==
  /\ n \in Autos /\ tools' = tools \cup live[n]
  /\ expanded' = done /\ left' = rest /\ UNCHANGED frames

\* Mutants: a name met again on its own path ends the bundle that names it, or is
\* not got past.
CycleEndsBundle(n, path, done, rest) ==
  /\ n \in Bundles \cap path /\ expanded' = done
  /\ left' = [rest EXCEPT ![Top] = {}] /\ UNCHANGED <<frames, tools>>
CycleNotPassed(n, path, done, rest) ==
  /\ n \in Bundles \cap path
  /\ expanded' = done /\ UNCHANGED <<frames, tools, left>>
\* A cycle: warned of in the log and passed.
EnterCycle(n, path, done, rest) ==
  /\ n \in Bundles \cap path
  /\ expanded' = done /\ left' = rest /\ UNCHANGED <<frames, tools>>

\* A diamond: its second visit has nothing to add.
EnterAgain(n, path, done, rest) ==
  /\ n \in (Bundles \cap done) \ path
  /\ expanded' = done /\ left' = rest /\ UNCHANGED <<frames, tools>>

\* An unknown name is logged and grants nothing.
EnterUnknown(n, path, done, rest) ==
  /\ n \in Bundles \ (known \cup path \cup done) /\ expanded' = done \cup {n}
  /\ left' = rest /\ UNCHANGED <<frames, tools>>

EnterBundle(n, path, done, rest) ==
  /\ n \in (Bundles \cap known) \ (path \cup done) /\ expanded' = done \cup {n}
  /\ frames' = Append(frames, n) /\ left' = [rest EXCEPT ![n] = EntriesOf(n)]
  /\ UNCHANGED tools

Enter(n, path, done, rest) ==
  /\ entered' = entered \cup {n}
  /\ \/ EnterAuto(n, done, rest)
     \/ EnterCycle(n, path, done, rest)
     \/ EnterAgain(n, path, done, rest)
     \/ EnterUnknown(n, path, done, rest)
     \/ EnterBundle(n, path, done, rest)

-----------------------------------------------------------------------------
\* resolve has read the policy: the definitions K with the entries I, the live
\* tools L, and the grant list G.
Begin(K, I, L, G) ==
  /\ stage # "walking" /\ stage' = "walking"
  /\ known' = K /\ includes' = I /\ live' = L /\ grants' = G /\ todo' = G
  /\ tools' = {} /\ entered' = {} /\ expanded' = {}
  /\ frames' = <<>> /\ left' = [b \in Bundles |-> {}]

\* expand_capabilities: the next grant, with fresh registers.
NextGrant(n) ==
  /\ stage = "walking" /\ frames = <<>> /\ n \in todo /\ todo' = todo \ {n}
  /\ Enter(n, {}, {}, left) /\ UNCHANGED <<snapshot, stage>>

\* The next entry of the bundle on top of the stack.
Visit(e) ==
  /\ stage = "walking" /\ frames # <<>> /\ e \in left[Top]
  /\ LET rest == [left EXCEPT ![Top] = @ \ {e}]
     IN  \/ /\ e \in Tools /\ tools' = tools \cup {e} /\ left' = rest
            /\ UNCHANGED <<frames, expanded, entered>>
         \/ e \in Names /\ Enter(e, OnPath, expanded, rest)
  /\ UNCHANGED <<snapshot, todo, stage>>

\* An exhausted bundle is popped and taken off the path.
Leave ==
  /\ stage = "walking" /\ frames # <<>> /\ left[Top] = {}
  /\ frames' = SubSeq(frames, 1, Len(frames) - 1)
  /\ UNCHANGED <<snapshot, todo, left, expanded, tools, entered, stage>>

Resolved ==
  /\ stage = "walking" /\ frames = <<>> /\ todo = {} /\ stage' = "resolved"
  /\ UNCHANGED <<snapshot, registers, todo, entered>>

\* The walk's locals go with its return.
Discard ==
  /\ stage' = "idle" /\ known' = {} /\ includes' = [b \in Bundles |-> {}]
  /\ live' = [a \in Autos |-> {}] /\ grants' = {} /\ todo' = {} /\ frames' = <<>>
  /\ left' = [b \in Bundles |-> {}] /\ expanded' = {} /\ tools' = {} /\ entered' = {}

WalkStep ==
  \/ \E n \in Names : NextGrant(n)
  \/ \E e \in Entries : Visit(e)
  \/ Leave \/ Resolved

-----------------------------------------------------------------------------
ExpandInit ==
  /\ known = {} /\ includes = [b \in Bundles |-> {}] /\ live = [a \in Autos |-> {}]
  /\ grants = {} /\ todo = {} /\ frames = <<>> /\ left = [b \in Bundles |-> {}]
  /\ expanded = {} /\ tools = {} /\ entered = {} /\ stage = "idle"

\* Whatever the policy and the toolsets are at a wake.
BeginAny ==
  \E K \in SUBSET Bundles, I \in [Bundles -> SUBSET Entries],
     L \in [Autos -> SUBSET Tools], G \in SUBSET Names : Begin(K, I, L, G)

ExpandNext == BeginAny \/ WalkStep \/ (stage = "resolved" /\ Discard)
ExpandSpec == ExpandInit /\ [][ExpandNext]_bundleVars

-----------------------------------------------------------------------------
BundleTypeOK ==
  /\ known \in SUBSET Bundles /\ includes \in [Bundles -> SUBSET Entries]
  /\ live \in [Autos -> SUBSET Tools] /\ {grants, todo, entered} \subseteq SUBSET Names
  /\ frames \in Seq(Bundles) /\ left \in [Bundles -> SUBSET Entries]
  /\ expanded \in SUBSET Bundles /\ tools \in SUBSET Tools
  /\ stage \in {"idle", "walking", "resolved"}

\* Whatever the include graph, in whatever order its lists name things: the walk
\* ends with the tools of all that the grants lead to, and with nothing else but
\* the ungateable tools.
ResolvedAsGranted == stage = "resolved" => allowed = Ungateable \cup Granted(grants)
=============================================================================
