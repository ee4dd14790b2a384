--------------------------- MODULE CapabilityProofs ---------------------------
(***************************************************************************)
(* The capability policy, from the walk over its bundles (BundleExpansion) *)
(* to the gate of the tool calls (ToolGate) and to the principal's         *)
(* commands that edit it (SlashConfig), for every vocabulary, policy, set  *)
(* of rooms, turns, tools and toolsets.                                    *)
(*                                                                         *)
(* A resolved walk is exact for two reasons.  It never enters a name that  *)
(* the grants do not lead to, so that it collects no more than it should.  *)
(* And no entry gets lost: an entry of a bundle entered so far is met, or  *)
(* it is left to visit on the path; when the path is empty, the names      *)
(* entered are closed, and what the grants lead to is the least such set.  *)
(*                                                                         *)
(* The gate needs of its files only that they stay readable and the policy *)
(* valid, whoever writes: a tool, the server's copy laid over the files, or *)
(* a command, of which the parser shows what a word can stand for.         *)
(*                                                                         *)
(* What a command tells holds because it will, from its compilation on:    *)
(* with what it has still to write, the files serve what it is going to    *)
(* say, and so does the server's copy wherever that may be laid over them. *)
(* The two are alike but for what some handler or tool has still to push,  *)
(* for what is pending, and for a null that was written over the policy.   *)
(***************************************************************************)
EXTENDS SlashConfig, SequenceTheorems, FiniteSetTheorems, WellFoundedInduction, TLAPS

-----------------------------------------------------------------------------
(* Reach is the least closed set over its argument.                        *)

LEMMA ReachHolds == ASSUME NEW G \in SUBSET Names PROVE G \subseteq Reach(G)
  BY DEF Reach

LEMMA ReachClosed ==
  ASSUME NEW G, NEW n \in Reach(G) PROVE NamesOf(n) \subseteq Reach(G)
<1>1. NamesOf(n) \subseteq Names  BY DEF NamesOf
<1>2. SUFFICES ASSUME NEW m \in NamesOf(n), NEW C \in SUBSET Names, G \subseteq C, Closed(C)
               PROVE  m \in C
  BY <1>1 DEF Reach
<1>3. n \in C  BY <1>2 DEF Reach
<1>4. QED  BY <1>2, <1>3 DEF Closed

LEMMA ReachLeast ==
  ASSUME NEW G, NEW C \in SUBSET Names, G \subseteq C, Closed(C)
  PROVE  Reach(G) \subseteq C
  BY DEF Reach

\* A toolset is no bundle, and has no entries.
LEMMA NamesOfBundle ==
  ASSUME NEW b \in Bundles PROVE NamesOf(b) = EntriesOf(b) \cap Names /\ ToolsOf(b) = EntriesOf(b) \cap Tools
  BY BundleAssumption DEF NamesOf, ToolsOf

-----------------------------------------------------------------------------
(* The path.                                                               *)

LEMMA PathAppended ==
  ASSUME frames \in Seq(Bundles), NEW n \in Bundles, frames' = Append(frames, n)
  PROVE  frames' \in Seq(Bundles) /\ OnPath' = OnPath \cup {n}
<1>1. frames' \in Seq(Bundles)  OBVIOUS
<1>2. Len(frames') = Len(frames) + 1 /\ Len(frames) \in Nat  OBVIOUS
<1>3. \A i \in 1 .. Len(frames) : frames'[i] = frames[i]  OBVIOUS
<1>4. frames'[Len(frames) + 1] = n  OBVIOUS
<1>5. 1 .. Len(frames') = (1 .. Len(frames)) \cup {Len(frames) + 1}  BY <1>2
<1>6. OnPath' = OnPath \cup {n}  BY <1>3, <1>4, <1>5 DEF OnPath
<1>7. QED  BY <1>1, <1>6

LEMMA PathShortened ==
  ASSUME frames \in Seq(Bundles), frames # <<>>,
         frames' = SubSeq(frames, 1, Len(frames) - 1)
  PROVE  /\ frames' \in Seq(Bundles)
         /\ OnPath' \subseteq OnPath /\ OnPath \ {Top} \subseteq OnPath'
<1>1. Len(frames) \in Nat \ {0}  OBVIOUS
<1>2. /\ frames' \in Seq(Bundles) /\ Len(frames') = Len(frames) - 1
      /\ \A i \in 1 .. Len(frames) - 1 : frames'[i] = frames[i]
  <2> DEFINE k == Len(frames) - 1
  <2>1. k \in Int /\ 1 <= k + 1 /\ 1 \in Int  BY <1>1
  <2>2. \A i \in 1 .. k : frames[i] \in Bundles  BY <1>1
  <2>3. k = Len(frames) - 1  OBVIOUS
  <2> HIDE DEF k
  <2>4. /\ SubSeq(frames, 1, k) \in Seq(Bundles)
        /\ Len(SubSeq(frames, 1, k)) = IF 1 <= k THEN k - 1 + 1 ELSE 0
        /\ \A i \in 1 .. k - 1 + 1 : SubSeq(frames, 1, k)[i] = frames[1 + i - 1]
    BY <2>1, <2>2, SubSeqProperties
  <2>5. \A i \in 1 .. k : SubSeq(frames, 1, k)[i] = frames[i]
    BY <2>1, <2>4
  <2>6. Len(SubSeq(frames, 1, k)) = k  BY <2>1, <2>4
  <2>7. QED  BY <2>3, <2>4, <2>5, <2>6
<1>3. 1 .. Len(frames) = (1 .. Len(frames')) \cup {Len(frames)}  BY <1>1, <1>2
<1>4. OnPath' \subseteq OnPath  BY <1>2, <1>3 DEF OnPath
<1>5. OnPath \ {Top} \subseteq OnPath'  BY <1>2, <1>3 DEF OnPath, Top
<1>6. QED  BY <1>2, <1>4, <1>5

LEMMA TopOnPath ==
  ASSUME frames \in Seq(Bundles), frames # <<>> PROVE Top \in OnPath /\ Top \in Bundles
<1>1. Len(frames) \in 1 .. Len(frames)  OBVIOUS
<1>2. QED  BY <1>1 DEF Top, OnPath

LEMMA EmptyPath == ASSUME frames = <<>> PROVE OnPath = {}
  BY DEF OnPath

-----------------------------------------------------------------------------
(* The invariant.                                                          *)

Met == tools \cup entered

\* Nothing of an entered name is lost.
Whole(n) ==
  /\ n \in Autos => live[n] \subseteq tools
  /\ \A e \in EntriesOf(n) : e \in Met \/ (n \in OnPath /\ e \in left[n])

GrantsMet   == todo \subseteq grants /\ grants \ todo \subseteq entered
PathEntered == expanded \subseteq entered /\ OnPath \subseteq entered
LeftIsOwn   == \A b \in Bundles : left[b] \subseteq EntriesOf(b)
NothingLost == \A n \in entered : Whole(n)
NothingMore == entered \subseteq Reach(grants) /\ tools \subseteq Granted(grants)
EndsEmpty   == stage = "resolved" => frames = <<>> /\ todo = {}

Inv == /\ BundleTypeOK /\ GrantsMet /\ PathEntered /\ LeftIsOwn
       /\ NothingLost /\ NothingMore /\ EndsEmpty

-----------------------------------------------------------------------------
(* What every step keeps.                                                  *)

LEMMA SnapshotKept ==
  ASSUME UNCHANGED snapshot
  PROVE  /\ Reach(grants)' = Reach(grants) /\ Granted(grants)' = Granted(grants)
         /\ \A n : EntriesOf(n)' = EntriesOf(n)
<1>1. \A n : EntriesOf(n)' = EntriesOf(n)  BY DEF snapshot, EntriesOf
<1>2. \A n : NamesOf(n)' = NamesOf(n)  BY <1>1 DEF NamesOf
<1>3. \A n : ToolsOf(n)' = ToolsOf(n)  BY <1>1 DEF ToolsOf, snapshot
<1>4. \A C : Closed(C)' = Closed(C)  BY <1>2 DEF Closed
<1>5. Reach(grants)' = Reach(grants)  BY <1>4 DEF Reach, snapshot
<1>6. Granted(grants)' = Granted(grants)  BY <1>3, <1>5 DEF Granted, ToolsIn
<1>7. QED  BY <1>1, <1>5, <1>6

\* An entry on the path is lost to none of the bundles entered when it is met or
\* still left to visit after the step.
LEMMA KeptWhole ==
  ASSUME UNCHANGED snapshot, NEW n, Whole(n), tools \subseteq tools', entered \subseteq entered',
         \A b \in OnPath : \A e \in left[b] : e \in Met' \/ (b \in OnPath' /\ e \in left'[b])
  PROVE  Whole(n)'
<1>1. EntriesOf(n)' = EntriesOf(n)  BY SnapshotKept
<1>2. Met \subseteq Met'  BY DEF Met
<1>3. n \in Autos => live'[n] \subseteq tools'  BY DEF Whole, snapshot
<1>4. \A e \in EntriesOf(n)' : e \in Met' \/ (n \in OnPath' /\ e \in left'[n])
  BY <1>1, <1>2 DEF Whole
<1>5. QED  BY <1>3, <1>4 DEF Whole

\* What a name that the grants lead to has to give is granted.
LEMMA GivesGranted ==
  ASSUME NEW n \in Reach(grants) PROVE ToolsOf(n) \subseteq Granted(grants)
  BY DEF Granted, ToolsIn
-----------------------------------------------------------------------------
(* One entry of a name, from the path it is met on.                        *)

Walked == /\ frames \in Seq(Bundles) /\ left \in [Bundles -> SUBSET Entries]
          /\ expanded \in SUBSET Bundles /\ tools \in SUBSET Tools
          /\ entered \in SUBSET Names
          /\ PathEntered /\ LeftIsOwn /\ NothingLost /\ NothingMore

LEMMA EnterKeeps ==
  ASSUME BundleTypeOK, Walked, UNCHANGED snapshot,
         NEW n \in Names, n \in Reach(grants),
         NEW done, done \subseteq expanded,
         NEW rest \in [Bundles -> SUBSET Entries],
         \A b \in Bundles : rest[b] \subseteq left[b] /\ left[b] \ {n} \subseteq rest[b],
         Enter(n, OnPath, done, rest)
  PROVE  Walked'
<1>1. /\ entered' = entered \cup {n} /\ entered' \in SUBSET Names /\ n \in Met'
      /\ entered' \subseteq Reach(grants)' /\ Granted(grants)' = Granted(grants)
  BY SnapshotKept DEF Enter, Met, Walked, NothingMore
<1>2. OnPath \subseteq Bundles  BY DEF Walked, OnPath
<1>3. n \in Autos => EntriesOf(n) = {} /\ ToolsOf(n) = live[n]
  BY BundleAssumption DEF BundleTypeOK, EntriesOf, ToolsOf
<1>4. n \in Bundles => n \notin Autos  BY BundleAssumption
<1>5. \A b \in Bundles : EntriesOf(b)' = EntriesOf(b)  BY SnapshotKept
<1>. DEFINE Kept == \A b \in OnPath : \A e \in left[b] : e \in Met' \/ (b \in OnPath' /\ e \in left'[b])
<1>6. ASSUME UNCHANGED frames, left' = rest, expanded' \in SUBSET Bundles,
             expanded' \subseteq entered', tools' \in SUBSET Tools, tools \subseteq tools',
             tools' \subseteq tools \cup ToolsOf(n),
             n \in entered \/ EntriesOf(n) = {},
             n \in Autos => live[n] \subseteq tools'
      PROVE  Walked'
  <2>1. OnPath' = OnPath  BY <1>6 DEF OnPath
  <2>2. Kept  BY <1>1, <1>2, <1>6, <2>1
  <2>3. ASSUME NEW m \in entered PROVE Whole(m)'
    <3>1. Whole(m)  BY DEF Walked, NothingLost
    <3>2. entered \subseteq entered'  BY <1>1
    <3>3. QED  BY <1>6, <2>2, <3>1, <3>2, KeptWhole
  <2>4. ASSUME n \notin entered PROVE Whole(n)'
    <3>1. EntriesOf(n)' = {}  BY <1>6, <2>4, SnapshotKept
    <3>2. n \in Autos => live'[n] \subseteq tools'  BY <1>6 DEF snapshot
    <3>3. QED  BY <3>1, <3>2 DEF Whole
  <2>5. NothingLost'  BY <1>1, <2>3, <2>4 DEF NothingLost
  <2>6. PathEntered'  BY <1>1, <1>6, <2>1 DEF Walked, PathEntered
  <2>7. LeftIsOwn'  BY <1>5, <1>6 DEF Walked, LeftIsOwn
  <2>8. NothingMore'
    <3>1. tools' \subseteq Granted(grants)  BY <1>6, GivesGranted DEF Walked, NothingMore
    <3>2. QED  BY <1>1, <3>1 DEF NothingMore
  <2>9. QED  BY <1>1, <1>6, <2>5, <2>6, <2>7, <2>8 DEF Walked
<1>7. CASE EnterAuto(n, done, rest)
  <2>1. live[n] \in SUBSET Tools  BY <1>7 DEF BundleTypeOK, EnterAuto
  <2>2. QED  BY <1>1, <1>3, <1>6, <1>7, <2>1 DEF EnterAuto, Walked, PathEntered
<1>8. CASE EnterCycle(n, OnPath, done, rest)
  BY <1>1, <1>4, <1>6, <1>8 DEF EnterCycle, Walked, PathEntered
<1>9. CASE EnterAgain(n, OnPath, done, rest)
  BY <1>1, <1>4, <1>6, <1>9 DEF EnterAgain, Walked, PathEntered
<1>10. CASE EnterUnknown(n, OnPath, done, rest)
  <2>1. EntriesOf(n) = {}  BY <1>10 DEF EnterUnknown, EntriesOf
  <2>2. QED  BY <1>1, <1>4, <1>6, <1>10, <2>1 DEF EnterUnknown, Walked, PathEntered
<1>11. CASE EnterBundle(n, OnPath, done, rest)
  <2>1. n \in Bundles /\ n \notin Autos /\ frames' = Append(frames, n) /\ tools' = tools
    BY <1>4, <1>11 DEF EnterBundle
  <2>2. frames' \in Seq(Bundles) /\ OnPath' = OnPath \cup {n}
    BY <2>1, PathAppended DEF Walked
  <2>3. EntriesOf(n) \in SUBSET Entries  BY <2>1 DEF BundleTypeOK, EntriesOf
  <2>4. /\ left' \in [Bundles -> SUBSET Entries] /\ left'[n] = EntriesOf(n)
        /\ \A b \in Bundles \ {n} : left'[b] = rest[b]
    BY <1>11, <2>1, <2>3 DEF EnterBundle
  <2>5. Kept
    <3>1. SUFFICES ASSUME NEW b \in OnPath, NEW e \in left[b], e # n PROVE e \in left'[b]
      BY <1>1, <2>2
    <3>2. b # n  BY <1>11 DEF EnterBundle
    <3>3. QED  BY <1>2, <2>4, <3>1, <3>2
  <2>6. ASSUME NEW m \in entered PROVE Whole(m)'
    <3>1. Whole(m)  BY DEF Walked, NothingLost
    <3>2. entered \subseteq entered' /\ tools \subseteq tools'  BY <1>1, <2>1
    <3>3. QED  BY <2>5, <3>1, <3>2, KeptWhole
  <2>7. Whole(n)'  BY <1>5, <2>1, <2>2, <2>4 DEF Whole
  <2>8. NothingLost'  BY <1>1, <2>6, <2>7 DEF NothingLost
  <2>9. PathEntered'  BY <1>1, <1>11, <2>2 DEF EnterBundle, Walked, PathEntered
  <2>10. LeftIsOwn'  BY <1>5, <2>1, <2>4 DEF Walked, LeftIsOwn
  <2>11. NothingMore'  BY <1>1, <2>1 DEF Walked, NothingMore
  <2>12. expanded' \in SUBSET Bundles  BY <1>11, <2>1 DEF EnterBundle, Walked
  <2>13. QED  BY <1>1, <2>1, <2>2, <2>4, <2>8, <2>9, <2>10, <2>11, <2>12 DEF Walked
<1>12. QED  BY <1>7, <1>8, <1>9, <1>10, <1>11 DEF Enter
-----------------------------------------------------------------------------
(* One lemma per step of the walk.                                         *)

LEMMA Fresh ==
  ASSUME BundleTypeOK', todo' = grants', tools' = {}, entered' = {}, expanded' = {}, frames' = <<>>,
         left' = [b \in Bundles |-> {}], stage' # "resolved"
  PROVE  Inv'
<1>1. OnPath' = {}  BY DEF OnPath
<1>2. QED
  BY <1>1 DEF Inv, GrantsMet, PathEntered, LeftIsOwn, NothingLost, NothingMore, EndsEmpty

LEMMA BeginKeeps == ASSUME BeginAny PROVE Inv'
<1>1. PICK K \in SUBSET Bundles, I \in [Bundles -> SUBSET Entries],
           L \in [Autos -> SUBSET Tools], G \in SUBSET Names : Begin(K, I, L, G)
  BY DEF BeginAny
<1>2. frames' \in Seq(Bundles)  BY <1>1 DEF Begin
<1>3. left' \in [Bundles -> SUBSET Entries]  BY <1>1 DEF Begin
<1>4. BundleTypeOK'  BY <1>1, <1>2, <1>3 DEF Begin, BundleTypeOK
<1>5. QED  BY <1>1, <1>4, Fresh DEF Begin

LEMMA DiscardKeeps == ASSUME Discard PROVE Inv'
<1>1. frames' \in Seq(Bundles)  BY DEF Discard
<1>2. /\ left' \in [Bundles -> SUBSET Entries] /\ includes' \in [Bundles -> SUBSET Entries]
      /\ live' \in [Autos -> SUBSET Tools]
  BY DEF Discard
<1>3. BundleTypeOK'  BY <1>1, <1>2 DEF Discard, BundleTypeOK
<1>4. QED  BY <1>3, Fresh DEF Discard

LEMMA InvFromWalked ==
  ASSUME Inv, Walked', UNCHANGED snapshot, GrantsMet', stage' = stage, stage = "walking"
  PROVE  Inv'
<1>1. todo' \in SUBSET Names
  BY DEF Inv, BundleTypeOK, GrantsMet, snapshot
<1>2. BundleTypeOK'  BY <1>1 DEF Inv, BundleTypeOK, Walked, snapshot
<1>3. QED  BY <1>2 DEF Inv, Walked, EndsEmpty

LEMMA NextGrantKeeps == ASSUME Inv, NEW n \in Names, NextGrant(n) PROVE Inv'
<1>1. /\ n \in todo /\ todo' = todo \ {n} /\ Enter(n, {}, {}, left) /\ UNCHANGED snapshot
      /\ stage' = stage /\ stage = "walking" /\ frames = <<>>
  BY DEF NextGrant
<1>2. Enter(n, OnPath, {}, left)  BY <1>1, EmptyPath
<1>3. n \in Reach(grants)  BY <1>1, ReachHolds DEF Inv, GrantsMet, BundleTypeOK
<1>4. BundleTypeOK /\ Walked  BY DEF Inv, Walked, BundleTypeOK
<1>5. left \in [Bundles -> SUBSET Entries]  BY <1>4 DEF Walked
<1>6. Walked'  BY <1>1, <1>2, <1>3, <1>4, <1>5, EnterKeeps
<1>7. entered' = entered \cup {n}  BY <1>2 DEF Enter
<1>8. GrantsMet'  BY <1>1, <1>7 DEF Inv, GrantsMet, snapshot
<1>9. QED  BY <1>1, <1>6, <1>8, InvFromWalked

LEMMA VisitKeeps == ASSUME Inv, NEW e \in Entries, Visit(e) PROVE Inv'
<1>. DEFINE rest == [left EXCEPT ![Top] = @ \ {e}]
<1>1. /\ e \in left[Top] /\ frames # <<>> /\ UNCHANGED <<snapshot, todo, stage>>
      /\ stage = "walking"
      /\ \/ /\ e \in Tools /\ tools' = tools \cup {e} /\ left' = rest
            /\ UNCHANGED <<frames, expanded, entered>>
         \/ e \in Names /\ Enter(e, OnPath, expanded, rest)
  BY DEF Visit
<1>2. BundleTypeOK /\ Walked  BY DEF Inv, Walked, BundleTypeOK
<1>3. Top \in OnPath /\ Top \in Bundles  BY <1>1, <1>2, TopOnPath DEF Walked
<1>4. Top \in Reach(grants)  BY <1>2, <1>3 DEF Walked, PathEntered, NothingMore
<1>5. e \in EntriesOf(Top)  BY <1>1, <1>2, <1>3 DEF Walked, LeftIsOwn
<1>6. /\ rest \in [Bundles -> SUBSET Entries]
      /\ \A b \in Bundles : rest[b] \subseteq left[b] /\ left[b] \ {e} \subseteq rest[b]
  BY <1>2, <1>3 DEF Walked
<1>. HIDE DEF rest
<1>7. CASE e \in Names /\ Enter(e, OnPath, expanded, rest)
  <2>1. e \in Reach(grants)  BY <1>3, <1>4, <1>5, <1>7, ReachClosed, NamesOfBundle
  <2>2. Walked'  BY <1>1, <1>2, <1>6, <1>7, <2>1, EnterKeeps
  <2>3. entered \subseteq entered'  BY <1>7 DEF Enter
  <2>4. GrantsMet'  BY <1>1, <2>3 DEF Inv, GrantsMet, snapshot
  <2>5. QED  BY <1>1, <2>2, <2>4, InvFromWalked
<1>8. CASE e \in Tools /\ tools' = tools \cup {e} /\ left' = rest
           /\ UNCHANGED <<frames, expanded, entered>>
  <2>1. OnPath' = OnPath  BY <1>8 DEF OnPath
  <2>2. \A b \in OnPath : \A x \in left[b] : x \in Met' \/ (b \in OnPath' /\ x \in left'[b])
    <3>1. OnPath \subseteq Bundles  BY <1>2 DEF Walked, OnPath
    <3>2. e \in Met'  BY <1>8 DEF Met
    <3>3. QED  BY <1>6, <1>8, <2>1, <3>1, <3>2
  <2>3. NothingLost'
    <3>1. UNCHANGED snapshot /\ tools \subseteq tools' /\ entered \subseteq entered'  BY <1>1, <1>8
    <3>2. ASSUME NEW n \in entered PROVE Whole(n)'
      BY <1>2, <2>2, <3>1, <3>2, KeptWhole DEF Walked, NothingLost
    <3>3. QED  BY <1>8, <3>2 DEF NothingLost
  <2>4. NothingMore'
    <3>1. e \in Granted(grants)  BY <1>3, <1>4, <1>5, <1>8, NamesOfBundle, GivesGranted
    <3>2. QED  BY <1>1, <1>2, <1>8, <3>1, SnapshotKept DEF Walked, NothingMore
  <2>5. LeftIsOwn'
    <3>1. \A b \in Bundles : EntriesOf(b)' = EntriesOf(b)  BY <1>1, SnapshotKept
    <3>2. QED  BY <1>2, <1>6, <1>8, <3>1 DEF Walked, LeftIsOwn
  <2>6. PathEntered'  BY <1>2, <1>8, <2>1 DEF Walked, PathEntered
  <2>7. Walked'  BY <1>2, <1>6, <1>8, <2>3, <2>4, <2>5, <2>6 DEF Walked
  <2>8. GrantsMet'  BY <1>1, <1>8 DEF Inv, GrantsMet, snapshot
  <2>9. QED  BY <1>1, <2>7, <2>8, InvFromWalked
<1>9. QED  BY <1>1, <1>7, <1>8

LEMMA LeaveKeeps == ASSUME Inv, Leave PROVE Inv'
<1>1. /\ frames # <<>> /\ left[Top] = {} /\ frames' = SubSeq(frames, 1, Len(frames) - 1)
      /\ UNCHANGED <<snapshot, todo, left, expanded, tools, entered, stage>>
      /\ stage = "walking"
  BY DEF Leave
<1>2. Walked  BY DEF Inv, Walked, BundleTypeOK
<1>3. /\ frames' \in Seq(Bundles) /\ OnPath' \subseteq OnPath /\ OnPath \ {Top} \subseteq OnPath'
  BY <1>1, <1>2, PathShortened DEF Walked
\* What leaves the path has nothing left.
<1>4. \A b \in OnPath : \A e \in left[b] : e \in Met' \/ (b \in OnPath' /\ e \in left'[b])
  BY <1>1, <1>3
<1>5. NothingLost'
  <2>1. UNCHANGED snapshot /\ tools \subseteq tools' /\ entered \subseteq entered'  BY <1>1
  <2>2. ASSUME NEW n \in entered PROVE Whole(n)'
    BY <1>2, <1>4, <2>1, <2>2, KeptWhole DEF Walked, NothingLost
  <2>3. QED  BY <1>1, <2>2 DEF NothingLost
<1>6. NothingMore'  BY <1>1, <1>2, SnapshotKept DEF Walked, NothingMore
<1>7. LeftIsOwn'
  <2>1. \A b \in Bundles : EntriesOf(b)' = EntriesOf(b)  BY <1>1, SnapshotKept
  <2>2. QED  BY <1>1, <1>2, <2>1 DEF Walked, LeftIsOwn
<1>8. PathEntered'  BY <1>1, <1>2, <1>3 DEF Walked, PathEntered
<1>9. Walked'  BY <1>1, <1>2, <1>3, <1>5, <1>6, <1>7, <1>8 DEF Walked
<1>10. GrantsMet'  BY <1>1 DEF Inv, GrantsMet, snapshot
<1>11. QED  BY <1>1, <1>9, <1>10, InvFromWalked

\* A step that touches neither the snapshot nor the walk keeps the invariant.
LEMMA RestKeeps ==
  ASSUME Inv, UNCHANGED <<snapshot, registers, todo, entered>>,
         stage' \in {"idle", "walking", "resolved"},
         stage' = "resolved" => frames = <<>> /\ todo = {}
  PROVE  Inv'
<1>1. OnPath' = OnPath  BY DEF OnPath, registers
<1>2. BundleTypeOK'  BY DEF Inv, BundleTypeOK, snapshot, registers
<1>3. GrantsMet' /\ PathEntered'
  BY <1>1 DEF Inv, GrantsMet, PathEntered, snapshot, registers
<1>4. LeftIsOwn'
  <2>1. \A b \in Bundles : EntriesOf(b)' = EntriesOf(b)  BY SnapshotKept
  <2>2. QED  BY <2>1 DEF Inv, LeftIsOwn, registers
<1>5. NothingMore'  BY SnapshotKept DEF Inv, NothingMore, registers
<1>6. NothingLost'
  <2>1. \A b \in OnPath : \A e \in left[b] : e \in Met' \/ (b \in OnPath' /\ e \in left'[b])
    BY <1>1 DEF registers
  <2>2. tools \subseteq tools' /\ entered \subseteq entered'  BY DEF registers
  <2>3. ASSUME NEW n \in entered PROVE Whole(n)'
    BY <2>1, <2>2, <2>3, KeptWhole DEF Inv, NothingLost
  <2>4. QED  BY <2>3 DEF NothingLost
<1>7. EndsEmpty'  BY DEF EndsEmpty, registers
<1>8. QED  BY <1>2, <1>3, <1>4, <1>5, <1>6, <1>7 DEF Inv

-----------------------------------------------------------------------------
(* The expansion resolves to what the grants lead to.                      *)

\* Init establishes the invariant and every step keeps it.
LEMMA InitInv == ASSUME ExpandInit PROVE Inv
<1>1. OnPath = {}  BY EmptyPath DEF ExpandInit
<1>2. frames \in Seq(Bundles)  BY DEF ExpandInit
<1>3. /\ left \in [Bundles -> SUBSET Entries] /\ includes \in [Bundles -> SUBSET Entries]
      /\ live \in [Autos -> SUBSET Tools]
  BY DEF ExpandInit
<1>4. BundleTypeOK  BY <1>2, <1>3 DEF ExpandInit, BundleTypeOK
<1>5. QED
  BY <1>1, <1>4 DEF ExpandInit, Inv, GrantsMet, PathEntered, LeftIsOwn, NothingLost,
                    NothingMore, EndsEmpty

LEMMA StepInv == ASSUME Inv, [ExpandNext]_bundleVars PROVE Inv'
<1>1. CASE BeginAny  BY <1>1, BeginKeeps
<1>2. ASSUME NEW n \in Names, NextGrant(n) PROVE Inv'  BY <1>2, NextGrantKeeps
<1>3. ASSUME NEW e \in Entries, Visit(e) PROVE Inv'  BY <1>3, VisitKeeps
<1>4. CASE Leave  BY <1>4, LeaveKeeps
<1>5. CASE Resolved
  BY <1>5, RestKeeps DEF Resolved
<1>6. CASE Discard  BY <1>6, DiscardKeeps
<1>7. CASE UNCHANGED bundleVars
  BY <1>7, RestKeeps DEF bundleVars, Inv, BundleTypeOK, EndsEmpty
<1>8. QED  BY <1>1, <1>2, <1>3, <1>4, <1>5, <1>6, <1>7 DEF ExpandNext, WalkStep

\* When the path is empty the names entered are closed: nothing is left to visit.
LEMMA InvResolves == ASSUME Inv PROVE ResolvedAsGranted
<1>1. SUFFICES ASSUME stage = "resolved" PROVE tools = Granted(grants)
  BY DEF ResolvedAsGranted, allowed
<1>2. frames = <<>> /\ todo = {} /\ OnPath = {}  BY <1>1, EmptyPath DEF Inv, EndsEmpty
<1>3. grants \subseteq entered /\ entered \in SUBSET Names
  BY <1>2 DEF Inv, GrantsMet, BundleTypeOK
<1>4. \A n \in entered : EntriesOf(n) \subseteq Met  BY <1>2 DEF Inv, NothingLost, Whole
<1>5. Closed(entered)
  <2>1. SUFFICES ASSUME NEW n \in entered, NEW m \in NamesOf(n) PROVE m \in entered
    BY DEF Closed
  <2>2. m \in EntriesOf(n) /\ m \in Names  BY DEF NamesOf
  <2>3. m \notin tools  BY <2>2, BundleAssumption DEF Inv, BundleTypeOK, Names
  <2>4. QED  BY <1>4, <2>2, <2>3 DEF Met
<1>6. Reach(grants) \subseteq entered  BY <1>3, <1>5, ReachLeast
<1>7. ASSUME NEW n \in Reach(grants) PROVE ToolsOf(n) \subseteq tools
  <2>1. n \in entered  BY <1>6
  <2>2. CASE n \in Autos  BY <2>1, <2>2 DEF Inv, NothingLost, Whole, ToolsOf
  <2>3. CASE n \notin Autos
    <3>1. EntriesOf(n) \cap Tools \subseteq tools
      BY <1>3, <1>4, <2>1, BundleAssumption DEF Met, Names
    <3>2. QED  BY <2>3, <3>1 DEF ToolsOf
  <2>4. QED  BY <2>2, <2>3
<1>8. Granted(grants) \subseteq tools  BY <1>7 DEF Granted, ToolsIn
<1>9. QED  BY <1>8 DEF Inv, NothingMore

\* The invariant holds of every walk.
THEOREM ExpandInv == ExpandSpec => []Inv
<1>1. ExpandInit => Inv  BY InitInv
<1>2. Inv /\ [ExpandNext]_bundleVars => Inv'  BY StepInv
<1>3. QED  BY <1>1, <1>2, PTL DEF ExpandSpec

\* What the walk holds has its type: a path of bundles, names and tools of the
\* policy, whatever the grants and the definitions it read.
THEOREM ExpandTypeCorrect == ExpandSpec => []BundleTypeOK
<1>1. Inv => BundleTypeOK  BY DEF Inv
<1>2. QED  BY <1>1, ExpandInv, PTL

\* For every set of bundles, toolsets and tools and whatever includes what, cycles
\* and diamonds too: a resolution that ends allows the tools of all that the grants
\* lead to, the ungateable ones, and nothing else.
THEOREM ExpandResolves == ExpandSpec => []ResolvedAsGranted
<1>1. Inv => ResolvedAsGranted  BY InvResolves
<1>2. QED  BY <1>1, ExpandInv, PTL
-----------------------------------------------------------------------------
(* The files stay readable: what a wake finds is a valid policy.           *)

\* What a section may hold: nothing, or an object of its type.
ValueOK(section, holds) ==
  \A value \in holds :
    /\ section = "capability_policy" => PolicyOK(value) /\ ValidPolicy(value)
    /\ section = "feature_flags" => FlagsOK(value)

DocsOK(d) ==
  /\ d = [s \in Sections |-> d[s]]
  /\ \A s \in Sections : ValueOK(s, d[s])

FilesOK == DocsOK(stores) /\ DocsOK(server) /\ toolsets \in [Autos -> SUBSET Tools]

\* What is blank is of its type as well: the default list is of built-in bundles.
LEMMA BlankOK ==
  /\ PolicyOK(Blank.capability_policy) /\ ValidPolicy(Blank.capability_policy)
  /\ FlagsOK(Blank.feature_flags)
<1>. DEFINE first == [custom |-> <<>>, channel |-> <<>>, default |-> Default]
<1>1. Blank.capability_policy = first /\ Blank.feature_flags = <<>>  BY DEF Blank
<1>2. DOMAIN first.custom = {} /\ DOMAIN first.channel = {} /\ first.default = Default  OBVIOUS
<1>3. Default \subseteq Names /\ Default \subseteq KnownIn(first)
  BY GateAssumption, PolicyAssumption DEF Names, KnownIn
<1>4. PolicyOK(first)  BY <1>2, <1>3 DEF PolicyOK
<1>5. ValidPolicy(first)  BY <1>2, <1>3 DEF ValidPolicy
<1>6. FlagsOK(<<>>)  BY DEF FlagsOK
<1>7. QED  BY <1>1, <1>4, <1>5, <1>6

LEMMA ReadIsHeld ==
  ASSUME NEW s, NEW holds PROVE (holds = {} /\ ReadAs(s, holds) = Blank[s]) \/ ReadAs(s, holds) \in holds
  BY DEF ReadAs

LEMMA ReadOne == ASSUME NEW s, NEW value PROVE ReadAs(s, {value}) = value
  BY DEF ReadAs

LEMMA DocsDomain == ASSUME NEW d, DocsOK(d) PROVE DOMAIN d = Sections
  BY DEF DocsOK

LEMMA DocsHold ==
  ASSUME NEW d, DocsOK(d)
  PROVE  /\ PolicyOK(ReadAs("capability_policy", d.capability_policy))
         /\ ValidPolicy(ReadAs("capability_policy", d.capability_policy))
         /\ FlagsOK(ReadAs("feature_flags", d.feature_flags))
<1>1. "capability_policy" \in Sections /\ "feature_flags" \in Sections  BY DEF Sections
<1>2. /\ \A value \in d.capability_policy : PolicyOK(value) /\ ValidPolicy(value)
      /\ \A value \in d.feature_flags : FlagsOK(value)
  BY <1>1 DEF DocsOK, ValueOK
<1>3. QED  BY <1>2, ReadIsHeld, BlankOK

LEMMA DocWritten ==
  ASSUME NEW d, DocsOK(d), NEW section \in Sections, NEW value, ValueOK(section, value)
  PROVE  DocsOK([d EXCEPT ![section] = value])
<1>1. DOMAIN d = Sections  BY DEF DocsOK
<1>2. \A s \in Sections :
        [d EXCEPT ![section] = value][s] = IF s = section THEN value ELSE d[s]
  BY <1>1
<1>3. QED  BY <1>1, <1>2 DEF DocsOK

LEMMA GrantsAreNames == ASSUME NEW p, PolicyOK(p), NEW r PROVE GrantsFor(p, r) \in SUBSET Names
  BY DEF PolicyOK, GrantsFor

LEMMA MergedTypes ==
  ASSUME NEW p, PolicyOK(p)
  PROVE  KnownIn(p) \in SUBSET Bundles /\ MergedOf(p) \in [Bundles -> SUBSET Entries]
<1>1. \A b \in Bundles : Definition(p, b) \in SUBSET Entries
  BY PolicyAssumption DEF PolicyOK, Definition, Entries
<1>2. QED  BY <1>1 DEF KnownIn, MergedOf

\* Files the server's copy is laid over hold what they held, or what the server does.
LEMMA LaidIs ==
  ASSUME NEW S
  PROVE  /\ Laid(S) = [s \in Sections |-> Laid(S)[s]]
         /\ \A s \in Sections : Laid(S)[s] = IF s \in S \/ server[s] = {} THEN stores[s] ELSE server[s]
  BY DEF Laid

LEMMA LaidOK == ASSUME FilesOK, NEW S PROVE DocsOK(Laid(S))
<1>1. \A s \in Sections : Laid(S)[s] = stores[s] \/ Laid(S)[s] = server[s]  BY LaidIs
<1>2. QED  BY <1>1, LaidIs DEF DocsOK, FilesOK

\* A write-back leaves each file what it was or the server's copy.
LEMMA WriteBackKeeps == ASSUME NEW S, FilesOK, WriteBack(S), UNCHANGED toolsets PROVE FilesOK'
<1>. DEFINE batch == S \cup pending
<1>1. CASE UNCHANGED <<stores, server>>  BY <1>1 DEF FilesOK
<1>2. CASE /\ server' = [s \in Sections |-> IF s \in batch THEN stores[s] ELSE server[s]]
           /\ stores' = Laid(batch)
  <2>1. DocsOK(stores')  BY <1>2, LaidOK
  <2>2. /\ server' = [s \in Sections |-> server'[s]]
        /\ \A s \in Sections : server'[s] = stores[s] \/ server'[s] = server[s]
    BY <1>2
  <2>3. DocsOK(server')  BY <2>2 DEF DocsOK, FilesOK
  <2>4. QED  BY <2>1, <2>3 DEF FilesOK
<1>3. QED  BY <1>1, <1>2 DEF WriteBack

LEMMA SyncKeeps == ASSUME FilesOK, Sync PROVE FilesOK'
<1>1. CASE WriteBack({})  BY <1>1, WriteBackKeeps DEF Sync
<1>2. CASE stores' = Laid({}) /\ UNCHANGED server
  <2>1. UNCHANGED toolsets  BY DEF Sync
  <2>2. QED  BY <1>2, <2>1, LaidOK DEF FilesOK
<1>3. QED  BY <1>1, <1>2 DEF Sync

LEMMA SendKeeps == ASSUME FilesOK, ASend PROVE FilesOK'
  BY WriteBackKeeps DEF ASend, SendEdit

LEMMA EditKeeps ==
  ASSUME FilesOK, NEW t, NEW section \in Sections, NEW value, Edit(t, section, value),
         ValueOK(section, {value})
  PROVE  FilesOK'
<1>1. DocsOK([stores EXCEPT ![section] = {value}])  BY DocWritten DEF FilesOK
<1>2. stores' = [stores EXCEPT ![section] = {value}] /\ UNCHANGED <<server, toolsets>>  BY DEF Edit
<1>3. DocsOK(stores')  BY <1>1, <1>2
<1>4. QED  BY <1>2, <1>3 DEF FilesOK

LEMMA FlagSet ==
  ASSUME NEW f, FlagsOK(f), NEW x, NEW on \in BOOLEAN PROVE FlagsOK(With(f, x, on))
  BY DEF FlagsOK, With

LEMMA AnEditKeeps == ASSUME FilesOK, AnEdit PROVE FilesOK'
<1>1. PICK t \in Turns :
        \/ \E p \in Policies : SetCapabilities(t, p)
        \/ \E f \in Features, on \in BOOLEAN : SetFeature(t, f, on)
        \/ \E d \in Documents : SetDocument(t, d)
  BY DEF AnEdit
<1>2. ASSUME NEW p \in Policies, SetCapabilities(t, p) PROVE FilesOK'
  <2>1. ValueOK("capability_policy", {p})
    BY <1>2, PolicyAssumption DEF SetCapabilities, ValueOK
  <2>2. QED  BY <1>2, <2>1, EditKeeps DEF SetCapabilities, Sections
<1>3. ASSUME NEW f \in Features, NEW on \in BOOLEAN, SetFeature(t, f, on) PROVE FilesOK'
  <2>1. ValueOK("feature_flags", {With(flags, f, on)})
    BY FlagSet, DocsHold DEF FilesOK, ValueOK, flags, Held
  <2>2. QED  BY <1>3, <2>1, EditKeeps DEF SetFeature, Sections
<1>4. ASSUME NEW d \in Documents, SetDocument(t, d) PROVE FilesOK'
  <2>1. d.section \in Sections /\ ValueOK(d.section, {d.value})  BY PolicyAssumption DEF ValueOK
  <2>2. QED  BY <1>4, <2>1, EditKeeps DEF SetDocument
<1>5. QED  BY <1>1, <1>2, <1>3, <1>4

\* A process starts with files an earlier one has left.
LEMMA FilesInit == ASSUME GateInit PROVE FilesOK
<1>1. DocsOK(stores)  BY FilesAssumption DEF GateInit, DocsOK, ValueOK
<1>2. toolsets \in [Autos -> SUBSET Tools] /\ server = stores  BY PolicyAssumption DEF GateInit
<1>3. QED  BY <1>1, <1>2 DEF FilesOK

LEMMA FilesUnchanged == ASSUME FilesOK, UNCHANGED <<stores, server, toolsets>> PROVE FilesOK'
  BY DEF FilesOK

LEMMA FilesStep == ASSUME FilesOK, GateNext PROVE FilesOK'
<1>1. ASSUME UNCHANGED <<config, toolsets>> PROVE FilesOK'
  BY <1>1, FilesUnchanged DEF config
<1>2. CASE ATurn
  BY <1>1, <1>2 DEF ATurn, WakeUngated, WakeGated, ControlTurn, EndTurn
<1>3. CASE AnEdit  BY <1>3, AnEditKeeps
<1>4. CASE ResolveStep  BY <1>1, <1>4 DEF ResolveStep, gateVars
<1>5. CASE Dispatch  BY <1>1, <1>5 DEF Dispatch
<1>6. ASSUME NEW L \in Toolsets, ToolsetsChange(L) PROVE FilesOK'
  <2>1. toolsets' \in [Autos -> SUBSET Tools]  BY <1>6, PolicyAssumption DEF ToolsetsChange
  <2>2. UNCHANGED <<stores, server>>  BY <1>6 DEF ToolsetsChange, config
  <2>3. QED  BY <2>1, <2>2 DEF FilesOK
<1>7. QED  BY <1>2, <1>3, <1>4, <1>5, <1>6, SendKeeps, SyncKeeps DEF GateNext
-----------------------------------------------------------------------------
(* A wake begins, walks and discards as BundleExpansion does.              *)

LEMMA PolicyReadable == ASSUME FilesOK PROVE PolicyOK(policy) /\ ValidPolicy(policy) /\ FlagsOK(flags)
  BY DocsHold DEF FilesOK, policy, flags, Held

\* A step that leaves the walk and the turns as they are, whatever it does to the files.
Beside == UNCHANGED <<bundleVars, toolsets, turns, waking>>

LEMMA WakeBegins ==
  ASSUME FilesOK, NEW r, Begin(KnownIn(policy), MergedOf(policy), toolsets, GrantsFor(policy, r))
  PROVE  BeginAny
<1>1. KnownIn(policy) \in SUBSET Bundles /\ MergedOf(policy) \in [Bundles -> SUBSET Entries]
  BY MergedTypes, PolicyReadable
<1>2. GrantsFor(policy, r) \in SUBSET Names  BY GrantsAreNames, PolicyReadable
<1>3. toolsets \in [Autos -> SUBSET Tools]  BY DEF FilesOK
<1>4. QED  BY <1>1, <1>2, <1>3 DEF BeginAny

LEMMA StepsExpand ==
  ASSUME FilesOK, GateNext \/ Beside PROVE [ExpandNext]_bundleVars
<1>1. ASSUME NEW t \in Turns, NEW r \in Rooms, WakeGated(t, r) PROVE ExpandNext
  BY <1>1, WakeBegins DEF WakeGated, ExpandNext
<1>2. ASSUME NEW t \in Turns, WakeUngated(t) \/ ControlTurn(t) \/ EndTurn(t)
      PROVE UNCHANGED bundleVars
  BY <1>2 DEF WakeUngated, ControlTurn, EndTurn
<1>3. CASE ATurn  BY <1>1, <1>2, <1>3 DEF ATurn
<1>4. CASE AnEdit
  BY <1>4 DEF AnEdit, SetCapabilities, SetFeature, SetDocument, Edit
<1>5. CASE ResolveStep  BY <1>5 DEF ResolveStep, ExpandNext
<1>6. CASE Dispatch  BY <1>6 DEF Dispatch, ExpandNext
<1>7. ASSUME NEW L \in Toolsets, ToolsetsChange(L) PROVE UNCHANGED bundleVars
  BY <1>7 DEF ToolsetsChange
<1>8. CASE ASend \/ Sync  BY <1>8 DEF ASend, SendEdit, Sync
<1>9. CASE Beside  BY <1>9 DEF Beside
<1>10. QED  BY <1>3, <1>4, <1>5, <1>6, <1>7, <1>8, <1>9 DEF GateNext

\* The gate implements the expansion: whatever is edited, and whatever toolsets come
\* and go, a wake's resolution is one undisturbed walk of what it read.
THEOREM GateExpands == GateSpec => ExpandSpec
<1>1. GateInit => ExpandInit /\ FilesOK  BY FilesInit DEF GateInit
<1>2. FilesOK /\ [GateNext]_<<bundleVars, gateVars>> => FilesOK'
  BY FilesStep, FilesUnchanged DEF gateVars, config
<1>3. FilesOK /\ [GateNext]_<<bundleVars, gateVars>> => [ExpandNext]_bundleVars
  BY StepsExpand DEF Beside, gateVars
<1>4. QED  BY <1>1, <1>2, <1>3, PTL DEF GateSpec, ExpandSpec

-----------------------------------------------------------------------------
(* What a turn was promised.                                               *)

Sets == (SUBSET Tools) \cup {None}
TurnType == [zone : {"none", "data", "control"}, caps : Sets, promised : Sets, unsent : SUBSET Sections]

\* The turn being resolved is promised what the grants of the walk lead to, and a
\* turn that is resolved has got what it was promised.
Promised ==
  /\ turns \in [Turns -> TurnType]
  /\ waking # None => waking \in Turns /\ turns[waking].promised = Ungateable \cup Granted(grants)
  /\ \A t \in Turns : turns[t].caps # None => turns[t].caps = turns[t].promised

\* The reference evaluated on a policy is the one evaluated on what a wake has read.
LEMMA PromisedAsRead ==
  ASSUME NEW p, NEW G, known' = KnownIn(p), includes' = MergedOf(p), live' = toolsets, grants' = G
  PROVE  Granted(grants)' = PolicyGrants(p, G)
  BY DEF PolicyGrants, Granted, ToolsIn, ToolsOf, Reach, Closed, NamesOf, EntriesOf,
         In!Granted, In!ToolsIn, In!ToolsOf, In!Reach, In!Closed, In!NamesOf, In!EntriesOf,
         Names, Entries, In!Names, In!Entries

LEMMA GrantedAreTools ==
  ASSUME BundleTypeOK' PROVE Ungateable \cup Granted(grants)' \in SUBSET Tools
<1>1. \A n \in Names : ToolsOf(n)' \in SUBSET Tools
  BY DEF BundleTypeOK, ToolsOf, Names
<1>2. Reach(grants)' \in SUBSET Names  BY DEF Reach
<1>3. Granted(grants)' \in SUBSET Tools  BY <1>1, <1>2 DEF Granted, ToolsIn
<1>4. QED  BY <1>3, BundleAssumption

LEMMA NoTurnType == NoTurn \in TurnType /\ NoTurn.caps = None
  BY DEF NoTurn, StartedTurn, TurnType, Sets

LEMMA StartKeeps ==
  ASSUME Promised, NEW t \in Turns, NEW turn \in TurnType, turn.caps = None, StartTurn(t, turn),
         waking' = None \/ (waking' = t /\ turn.promised = Ungateable \cup Granted(grants)')
  PROVE  Promised'
<1>1. turns' = [turns EXCEPT ![t] = turn]  BY DEF StartTurn
<1>2. turns' \in [Turns -> TurnType]  BY <1>1 DEF Promised
<1>3. \A u \in Turns : turns'[u].caps # None => turns'[u].caps = turns'[u].promised
  BY <1>1 DEF Promised
<1>4. turns'[t] = turn  BY <1>1 DEF Promised
<1>5. QED  BY <1>2, <1>3, <1>4 DEF Promised

\* A turn that edits, or sends its edit, has what it had.
LEMMA UnsentKeeps ==
  ASSUME Promised, UNCHANGED <<bundleVars, waking>>, NEW t \in Turns, NEW S \in SUBSET Sections,
         turns' = [turns EXCEPT ![t].unsent = S]
  PROVE  Promised'
<1>1. Granted(grants)' = Granted(grants)  BY SnapshotKept DEF bundleVars
<1>2. \A u \in Turns : turns[u] \in TurnType  BY DEF Promised
<1>3. \A u \in Turns : turns'[u] = IF u = t THEN [turns[t] EXCEPT !.unsent = S] ELSE turns[u]
  BY DEF Promised
<1>4. /\ [turns[t] EXCEPT !.unsent = S] \in TurnType
      /\ [turns[t] EXCEPT !.unsent = S].caps = turns[t].caps
      /\ [turns[t] EXCEPT !.unsent = S].promised = turns[t].promised
  BY <1>2 DEF TurnType
<1>5. \A u \in Turns : turns'[u] \in TurnType /\ turns'[u].caps = turns[u].caps /\ turns'[u].promised = turns[u].promised
  BY <1>2, <1>3, <1>4
<1>6. turns' \in [Turns -> TurnType]  BY <1>5 DEF Promised
<1>7. QED  BY <1>1, <1>5, <1>6 DEF Promised

LEMMA AnEditWrites ==
  ASSUME AnEdit PROVE \E t \in Turns, section \in Sections : \E value : Edit(t, section, value)
<1>1. PICK t \in Turns :
        \/ \E p \in Policies : SetCapabilities(t, p)
        \/ \E f \in Features, on \in BOOLEAN : SetFeature(t, f, on)
        \/ \E d \in Documents : SetDocument(t, d)
  BY DEF AnEdit
<1>2. "capability_policy" \in Sections /\ "feature_flags" \in Sections  BY DEF Sections
<1>3. \A d \in Documents : d.section \in Sections  BY PolicyAssumption
<1>4. \E section \in Sections : \E value : Edit(t, section, value)
  BY <1>1, <1>2, <1>3 DEF SetCapabilities, SetFeature, SetDocument
<1>5. QED  BY <1>4

LEMMA PromisedStep ==
  ASSUME FilesOK, Inv, Inv', Promised, GateNext \/ Beside PROVE Promised'
<1>1. ASSUME UNCHANGED <<bundleVars, turns, waking>> PROVE Promised'
  <2>1. Granted(grants)' = Granted(grants)  BY <1>1, SnapshotKept DEF bundleVars
  <2>2. QED  BY <1>1, <2>1 DEF Promised
<1>2. ASSUME NEW t \in Turns, WakeUngated(t) PROVE Promised'
  <2>1. /\ StartedTurn("data", None) \in TurnType
        /\ StartedTurn("data", None).caps = None
    BY DEF NoTurn, StartedTurn, TurnType, Sets
  <2>2. waking' = None  BY <1>2 DEF WakeUngated, StartTurn
  <2>3. QED  BY <1>2, <2>1, <2>2, StartKeeps DEF WakeUngated
<1>3. ASSUME NEW t \in Turns, ControlTurn(t) PROVE Promised'
  <2>1. /\ StartedTurn("control", None) \in TurnType
        /\ StartedTurn("control", None).caps = None
    BY DEF NoTurn, StartedTurn, TurnType, Sets
  <2>2. waking' = None  BY <1>3 DEF ControlTurn, StartTurn
  <2>3. QED  BY <1>3, <2>1, <2>2, StartKeeps DEF ControlTurn
<1>4. ASSUME NEW t \in Turns, NEW r \in Rooms, WakeGated(t, r) PROVE Promised'
  <2>. DEFINE owed == Ungateable \cup PolicyGrants(policy, GrantsFor(policy, r))
              turn == StartedTurn("data", owed)
  <2>1. Granted(grants)' = PolicyGrants(policy, GrantsFor(policy, r))
    BY <1>4, PromisedAsRead DEF WakeGated, Begin
  <2>2. owed = Ungateable \cup Granted(grants)'  BY <2>1
  <2>3. owed \in SUBSET Tools
    <3>1. Ungateable \cup Granted(grants)' \in SUBSET Tools  BY GrantedAreTools DEF Inv
    <3>2. QED  BY <2>2, <3>1
  <2>4. StartTurn(t, turn) /\ waking' = t  BY <1>4 DEF WakeGated
  <2>5. turn \in TurnType /\ turn.caps = None /\ turn.promised = owed
    BY <2>3 DEF NoTurn, StartedTurn, TurnType, Sets
  <2>. HIDE DEF turn, owed
  <2>6. QED  BY <2>2, <2>4, <2>5, StartKeeps
<1>5. ASSUME NEW t \in Turns, EndTurn(t) PROVE Promised'
  <2>1. waking' = None /\ turns' = [turns EXCEPT ![t] = NoTurn]
    BY <1>5 DEF EndTurn, InTurn
  <2>2. QED  BY <2>1, NoTurnType DEF Promised
<1>6. CASE AnEdit
  <2>1. PICK t \in Turns, section \in Sections : \E value : Edit(t, section, value)
    BY <1>6, AnEditWrites
  <2>2. turns' = [turns EXCEPT ![t].unsent = {section}] /\ UNCHANGED <<bundleVars, waking>>
    BY <2>1 DEF Edit
  <2>3. {section} \in SUBSET Sections  OBVIOUS
  <2>4. QED  BY <2>2, <2>3, UnsentKeeps
<1>7. CASE ASend
  <2>1. PICK t \in Turns : SendEdit(t)  BY <1>7 DEF ASend
  <2>2. turns' = [turns EXCEPT ![t].unsent = {}] /\ UNCHANGED <<bundleVars, waking>>
    BY <2>1 DEF SendEdit
  <2>3. {} \in SUBSET Sections  OBVIOUS
  <2>4. QED  BY <2>2, <2>3, UnsentKeeps
<1>8. CASE Sync  BY <1>1, <1>8 DEF Sync
<1>9. CASE ResolveStep
  <2>1. UNCHANGED <<snapshot, turns, waking>>
    BY <1>9 DEF ResolveStep, WalkStep, NextGrant, Visit, Leave, Resolved, gateVars
  <2>2. QED  BY <2>1, SnapshotKept DEF Promised
<1>10. CASE Dispatch
  <2>1. waking' = None /\ waking \in Turns /\ stage = "resolved"
        /\ turns' = [turns EXCEPT ![waking].caps = allowed]
    BY <1>10 DEF Dispatch, Promised
  <2>2. allowed = turns[waking].promised
    BY <1>10, <2>1, InvResolves DEF Dispatch, Promised, ResolvedAsGranted
  <2>3. allowed \in SUBSET Tools  BY BundleAssumption DEF Inv, BundleTypeOK, allowed
  <2>4. turns[waking] \in TurnType  BY <2>1 DEF Promised
  <2>5. /\ [turns[waking] EXCEPT !.caps = allowed] \in TurnType
        /\ [turns[waking] EXCEPT !.caps = allowed].caps = [turns[waking] EXCEPT !.caps = allowed].promised
    BY <2>2, <2>3, <2>4 DEF TurnType, Sets
  <2>6. \A t \in Turns : turns'[t] = IF t = waking THEN [turns[waking] EXCEPT !.caps = allowed] ELSE turns[t]
    BY <2>1 DEF Promised
  <2>7. turns' \in [Turns -> TurnType]  BY <2>1, <2>5, <2>6 DEF Promised
  <2>8. QED  BY <2>1, <2>5, <2>6, <2>7 DEF Promised
<1>11. ASSUME NEW L \in Toolsets, ToolsetsChange(L) PROVE Promised'
  BY <1>1, <1>11 DEF ToolsetsChange
<1>12. CASE Beside  BY <1>1, <1>12 DEF Beside
<1>13. QED
  BY <1>2, <1>3, <1>4, <1>5, <1>6, <1>9, <1>10, <1>11, <1>12, <1>7, <1>8 DEF GateNext, ATurn

\* A call is answered by what the turn has got, which is what it was promised.
LEMMA PromisedAnswers == ASSUME Promised PROVE AnsweredAsPromised
  BY DEF Promised, AnsweredAsPromised, CapabilityDenies

\* Every tool call of every turn is answered by the policy that its wake read, for
\* all policies, rooms and tools, and whatever is edited while the turn runs.
THEOREM GateAnswers == GateSpec => []AnsweredAsPromised
<1>1. GateInit => FilesOK /\ Promised
  BY FilesInit, NoTurnType DEF GateInit, Promised
<1>2. FilesOK /\ [GateNext]_<<bundleVars, gateVars>> => FilesOK'
  BY FilesStep, FilesUnchanged DEF gateVars, config
<1>3. FilesOK /\ Inv /\ Inv' /\ Promised /\ [GateNext]_<<bundleVars, gateVars>> => Promised'
  BY PromisedStep DEF Beside, gateVars
<1>4. GateSpec => []Inv  BY GateExpands, ExpandInv, PTL
<1>5. Promised => AnsweredAsPromised  BY PromisedAnswers
<1>6. QED  BY <1>1, <1>2, <1>3, <1>4, <1>5, PTL DEF GateSpec
-----------------------------------------------------------------------------
(* What the parser makes of words: a slot holds what its vocabulary has.   *)

\* Induction up to n, over a set: the smallest number left out would be 0 or follow
\* one that is not.
LEMMA Climb ==
  ASSUME NEW n \in Nat, NEW T, 0 \in T, \A i \in 1 .. n : i - 1 \in T => i \in T
  PROVE  0 .. n \subseteq T
<1>. DEFINE U == (0 .. n) \ T
            R == OpToRel(<, Nat)
<1>1. SUFFICES ASSUME U # {} PROVE FALSE
  OBVIOUS
<1>2. U \subseteq Nat  OBVIOUS
<1>3. PICK x \in U : \A y \in U : ~ (<<y, x>> \in R)
  <2>1. IsWellFoundedOn(R, Nat)  BY NatLessThanWellFounded
  <2>. HIDE DEF U, R
  <2>2. QED  BY <1>1, <1>2, <2>1, WFMin
<1>4. x \in 1 .. n /\ x - 1 \in 0 .. n  OBVIOUS
<1>5. <<x - 1, x>> \in R  BY <1>4 DEF OpToRel
<1>6. x - 1 \in T  BY <1>3, <1>4, <1>5
<1>7. QED  BY <1>4, <1>6

StartOfFill == [next |-> 1, slots |-> {}]
FillsUpTo(g, words, entries, n) ==
  g = [i \in 0 .. n |-> IF i = 0 THEN StartOfFill ELSE ReadWord(words, entries, g[i - 1], i)]

\* The recursion of Fill has a solution: each word's state is made from the one before.
LEMMA FillSolved ==
  ASSUME NEW words, NEW entries, NEW L \in Nat PROVE \E g : FillsUpTo(g, words, entries, L)
<1>. DEFINE T == {n \in 0 .. L : \E g : FillsUpTo(g, words, entries, n)}
<1>1. 0 \in T
  <2>. DEFINE g == [i \in 0 .. 0 |-> StartOfFill]
  <2>1. FillsUpTo(g, words, entries, 0)  BY DEF FillsUpTo
  <2>2. QED  BY <2>1
<1>2. ASSUME NEW n \in 1 .. L, n - 1 \in T PROVE n \in T
  <2>1. PICK g : FillsUpTo(g, words, entries, n - 1)  BY <1>2
  <2>. DEFINE h == [i \in 0 .. n |-> IF i < n THEN g[i] ELSE ReadWord(words, entries, g[n - 1], n)]
  <2>2. \A i \in 0 .. n - 1 : g[i] = IF i = 0 THEN StartOfFill ELSE ReadWord(words, entries, g[i - 1], i)
    BY <2>1 DEF FillsUpTo
  <2>3. \A i \in 0 .. n : h[i] = IF i = 0 THEN StartOfFill ELSE ReadWord(words, entries, h[i - 1], i)
    <3>1. SUFFICES ASSUME NEW i \in 0 .. n
                   PROVE  h[i] = IF i = 0 THEN StartOfFill ELSE ReadWord(words, entries, h[i - 1], i)
      OBVIOUS
    <3>2. CASE i = 0  BY <2>2, <3>2
    <3>3. CASE i \in 1 .. n - 1
      <4>1. i \in 0 .. n - 1 /\ i - 1 \in 0 .. n /\ i < n /\ i - 1 < n /\ i # 0  BY <3>3
      <4>2. h[i] = g[i] /\ h[i - 1] = g[i - 1]  BY <4>1
      <4>3. QED  BY <2>2, <4>1, <4>2
    <3>4. CASE i = n
      <4>1. n - 1 \in 0 .. n /\ n - 1 < n /\ n # 0  OBVIOUS
      <4>2. h[n - 1] = g[n - 1] /\ h[n] = ReadWord(words, entries, g[n - 1], n)  BY <4>1
      <4>3. QED  BY <3>4, <4>1, <4>2
    <3>5. QED  BY <3>2, <3>3, <3>4
  <2>4. h = [i \in 0 .. n |-> h[i]]  OBVIOUS
  <2>. HIDE DEF h
  <2>5. FillsUpTo(h, words, entries, n)  BY <2>3, <2>4 DEF FillsUpTo
  <2>6. QED  BY <2>5
<1>3. 0 .. L \subseteq T
  <2>. HIDE DEF T
  <2>1. QED  BY <1>1, <1>2, Climb
<1>4. QED  BY <1>3

LEMMA FillIs ==
  ASSUME NEW words, NEW entries, Len(words) \in Nat
  PROVE  \E g : FillsUpTo(g, words, entries, Len(words)) /\ Fill(words, entries) = g[Len(words)].slots
<1>. DEFINE g == CHOOSE f : FillsUpTo(f, words, entries, Len(words))
<1>1. FillsUpTo(g, words, entries, Len(words))  BY FillSolved
<1>2. Fill(words, entries) = g[Len(words)].slots
  BY DEF Fill, FillsUpTo, StartOfFill
<1>3. QED  BY <1>1, <1>2

\* A word, or a run of words, means an entry of its vocabulary or nothing to keep.
Meant(m, entries) ==
  (\E e \in entries : m = Meaning(e)) \/ m \in {CommandWords, Filler, Unclear}

LEMMA ExactMeant ==
  ASSUME NEW run, NEW entries, NEW m \in ExactHits(run, entries) PROVE Meant(m, entries)
  BY DEF ExactHits, Meant

LEMMA ChannelsMeant ==
  ASSUME NEW run, NEW entries, NEW m \in ExactChannels(run, entries) PROVE Meant(m, entries)
<1>1. m \in ExactHits(run, ChannelsOf(entries))  BY DEF ExactChannels
<1>2. QED  BY <1>1, ExactMeant DEF ChannelsOf, Meant

LEMMA ScoredMeant ==
  ASSUME NEW runs, NEW entries, NEW s \in Scored(runs, entries) PROVE Meant(s.meaning, entries)
<1>1. \E e \in entries : s.meaning = Meaning(e)  BY DEF Scored
<1>2. QED  BY <1>1 DEF Meant

LEMMA ContendersAreScored == ASSUME NEW scored PROVE Contenders(scored) \subseteq scored
  BY DEF Contenders

LEMMA ScoreMeant ==
  ASSUME NEW run, NEW entries, NEW m \in Score(run, entries) PROVE Meant(m, entries)
<1>. DEFINE pool   == {e \in entries : ShapeOf(run[1]).slot = "none" \/ e.slot = ShapeOf(run[1]).slot}
            scored == Scored(1 :> run, pool)
<1>1. m \in ExactHits(run, pool) \/ m \in {s.meaning : s \in Contenders(scored)}
  BY DEF Score
<1>2. Meant(m, pool)
  <2>. HIDE DEF pool
  <2>1. CASE m \in ExactHits(run, pool)  BY <2>1, ExactMeant
  <2>2. CASE m \in {s.meaning : s \in Contenders(scored)}
    BY <2>2, ContendersAreScored, ScoredMeant
  <2>3. QED  BY <1>1, <2>1, <2>2
<1>3. pool \subseteq entries  OBVIOUS
<1>. HIDE DEF pool
<1>4. QED  BY <1>2, <1>3 DEF Meant

LEMMA FuzzyMeant ==
  ASSUME NEW words, NEW i, NEW least, NEW entries, NEW r \in FuzzyRuns(words, i, least, entries)
  PROVE  Meant(r.meaning, entries)
<1>. DEFINE widths == {n \in WidthsAt(words, i) : n >= least}
            scored == Scored([n \in widths |-> Run(words, i, n)], ChannelsOf(entries))
<1>1. \E s \in Contenders(scored) : r = [width |-> s.width, meaning |-> s.meaning]
  BY DEF FuzzyRuns
<1>2. Meant(r.meaning, ChannelsOf(entries))
  BY <1>1, ContendersAreScored, ScoredMeant
<1>3. QED  BY <1>2 DEF Meant, ChannelsOf

LEMMA ReadingsMeant ==
  ASSUME NEW words, NEW i, NEW entries, NEW r \in ReadingsAt(words, i, entries)
  PROVE  Meant(r.meaning, entries)
<1>. DEFINE n   == ExactWidth(words, i, 2, entries)
            run == Run(words, i, n)
<1>1. \/ r \in {[width |-> n, meaning |-> m] : m \in ExactChannels(run, entries)}
      \/ r \in CommandReading(run, entries)
      \/ r \in {[width |-> 1, meaning |-> Filler]}
      \/ r \in {[width |-> 1, meaning |-> m] : m \in Score(<<words[i]>>, entries)}
      \/ r \in FuzzyRuns(words, i, 2, entries)
  BY DEF ReadingsAt
<1>. HIDE DEF n, run
<1>2. CASE r \in {[width |-> n, meaning |-> m] : m \in ExactChannels(run, entries)}
  BY <1>2, ChannelsMeant
<1>3. CASE r \in CommandReading(run, entries)  BY <1>3 DEF CommandReading, Meant
<1>4. CASE r \in {[width |-> 1, meaning |-> Filler]}  BY <1>4 DEF Meant
<1>5. CASE r \in {[width |-> 1, meaning |-> m] : m \in Score(<<words[i]>>, entries)}
  BY <1>5, ScoreMeant
<1>6. CASE r \in FuzzyRuns(words, i, 2, entries)  BY <1>6, FuzzyMeant
<1>7. QED  BY <1>1, <1>2, <1>3, <1>4, <1>5, <1>6

AllMeant(slots, entries) == \A m \in slots : Meant(m, entries)

LEMMA ReadMeant ==
  ASSUME NEW words, NEW entries, NEW state, NEW i, AllMeant(state.slots, entries)
  PROVE  AllMeant(ReadWord(words, entries, state, i).slots, entries)
<1>. DEFINE open     == OpenFor(state.slots, entries)
            readings == ReadingsAt(words, i, open)
            reading  == CHOOSE r \in readings : TRUE
<1>1. CASE i < state.next  BY <1>1 DEF ReadWord
<1>2. CASE ~(i < state.next)
  <2>1. ReadWord(words, entries, state, i) = Taken(readings, words, state.slots, i)
    BY <1>2 DEF ReadWord
  <2>2. CASE Cardinality(readings) # 1
    <3>1. ReadWord(words, entries, state, i).slots = {Unclear}  BY <2>1, <2>2 DEF Taken
    <3>2. QED  BY <3>1 DEF AllMeant, Meant
  <2>3. CASE Cardinality(readings) = 1
    <3>1. readings # {}  BY <2>3, FS_EmptySet
    <3>2. reading \in readings  BY <3>1
    <3>3. open \subseteq entries  BY DEF OpenFor
    <3>4. Meant(reading.meaning, entries)
      <4>. HIDE DEF open, reading
      <4>1. Meant(reading.meaning, open)  BY <3>2, ReadingsMeant
      <4>2. QED  BY <3>3, <4>1 DEF Meant
    <3>5. ReadWord(words, entries, state, i).slots = state.slots \cup ({reading.meaning} \ {Filler})
      BY <2>1, <2>3 DEF Taken
    <3>. HIDE DEF reading
    <3>6. QED  BY <3>4, <3>5 DEF AllMeant
  <2>4. QED  BY <2>2, <2>3
<1>3. QED  BY <1>1, <1>2

LEMMA FillMeant ==
  ASSUME NEW words, NEW entries, Len(words) \in Nat PROVE AllMeant(Fill(words, entries), entries)
<1>1. PICK g : FillsUpTo(g, words, entries, Len(words)) /\ Fill(words, entries) = g[Len(words)].slots
  BY FillIs
<1>. DEFINE T == {i \in 0 .. Len(words) : AllMeant(g[i].slots, entries)}
<1>2. \A i \in 0 .. Len(words) :
        g[i] = IF i = 0 THEN StartOfFill ELSE ReadWord(words, entries, g[i - 1], i)
  BY <1>1 DEF FillsUpTo
<1>3. 0 \in T  BY <1>2 DEF StartOfFill, AllMeant
<1>4. ASSUME NEW i \in 1 .. Len(words), i - 1 \in T PROVE i \in T
  <2>1. AllMeant(g[i - 1].slots, entries) /\ i \in 0 .. Len(words) /\ i # 0  BY <1>4
  <2>2. QED  BY <1>2, <2>1, ReadMeant
<1>5. 0 .. Len(words) \subseteq T
  <2>. HIDE DEF T
  <2>1. QED  BY <1>3, <1>4, Climb
<1>6. QED  BY <1>1, <1>5

\* A target is a row, an alias, a bundle of the policy, or a live toolset.
LEMMA TargetMeant ==
  ASSUME NEW chans, NEW bundles, NEW m, Meant(m, ConfigEntries(chans, bundles)), m.slot = "target"
  PROVE  m.value \in Rows \cup Aliases \cup bundles \cup Autos
<1>1. m \notin {CommandWords, Filler, Unclear}  BY DEF CommandWords, Filler, Unclear, Pseudo
<1>2. PICK e \in ConfigEntries(chans, bundles) : m = Meaning(e)  BY <1>1 DEF Meant
<1>3. e.slot = "target" /\ m.value = e.value  BY <1>2 DEF Meaning
<1>4. \A x \in ChannelEntries(chans) : x.slot = "channel"  BY DEF ChannelEntries, Entry
<1>5. \A x \in VerbEntries("verb") : x.slot = "verb"  BY DEF VerbEntries, Entry
<1>6. \A slot : \A W : \A x \in Flat(slot, W) : x.slot = slot  BY DEF Flat, Entry
<1>7. e \in TargetEntries(bundles)
  <2>1. e \notin ChannelEntries(chans) /\ e \notin VerbEntries("verb")  BY <1>3, <1>4, <1>5
  <2>2. e \notin Flat("mode", {"mention", "all"})  BY <1>3, <1>6
  <2>3. \A sub \in {"show", "list", "tools", "wake"} : e \notin Flat(sub, {sub})  BY <1>3, <1>6
  <2>4. e \notin UNION {Flat(sub, {sub}) : sub \in {"show", "list", "tools", "wake"}}  BY <2>3
  <2>5. \/ e \in ChannelEntries(chans) \/ e \in TargetEntries(bundles) \/ e \in VerbEntries("verb")
        \/ e \in UNION {Flat(sub, {sub}) : sub \in {"show", "list", "tools", "wake"}}
        \/ e \in Flat("mode", {"mention", "all"})
    BY <1>2 DEF ConfigEntries
  <2>6. QED  BY <2>1, <2>2, <2>4, <2>5
<1>8. \/ e \in Flat("target", Rows \cup Aliases \cup bundles)
      \/ \E s \in DOMAIN Servers : e.value = Servers[s]
      \/ \E s \in DOMAIN Sources : e.value = Sources[s]
  BY <1>7 DEF TargetEntries, Entry
<1>9. QED  BY <1>3, <1>8, SlashAssumption DEF Flat, Entry, Range

\* What a parsed change asks for has its type.
ResultOK(r, bundles) ==
  /\ r.kind = "tools" => r.target \in Rows \cup Aliases \cup bundles \cup Autos
  /\ r.kind = "feature" => r.on \in BOOLEAN

LEMMA RouteOK ==
  ASSUME NEW chans, NEW bundles, NEW slots, AllMeant(slots, ConfigEntries(chans, bundles))
  PROVE  ResultOK(Route(slots), bundles)
<1>1. Route(slots).kind # "feature"  BY DEF Route, Show, Answer
<1>2. ASSUME Route(slots).kind = "tools"
      PROVE  Route(slots).target \in Rows \cup Aliases \cup bundles \cup Autos
  <2>1. IsToolsChange(Slots(slots))  BY <1>2 DEF Route, Show, Answer
  <2>2. Route(slots).target = Filled(slots, "target")  BY <2>1 DEF Route
  <2>3. \E m \in slots : m.slot = "target"  BY <2>1 DEF IsToolsChange, Slots
  <2>4. PICK m \in slots : m.slot = "target" /\ Filled(slots, "target") = m.value
    BY <2>3 DEF Filled
  <2>5. QED  BY <2>2, <2>4, TargetMeant DEF AllMeant
<1>3. QED  BY <1>1, <1>2 DEF ResultOK

LEMMA ParseOK ==
  ASSUME NEW m \in Messages, NEW chans, NEW bundles PROVE ResultOK(Parse(m, chans, bundles), bundles)
<1>. DEFINE entries == ChannelEntries(chans)
            words   == m.words
<1>1. Len(words) \in Nat
  <2>1. words \in Seq(Range(words))  BY SlashAssumption
  <2>2. QED  BY <2>1
<1>2. ResultOK(Answer, bundles) /\ ResultOK([kind |-> "upgrade"], bundles)
  BY DEF ResultOK, Answer
<1>3. ASSUME NEW w PROVE ResultOK(ParseFeature(w), bundles)
  BY DEF ParseFeature, ResultOK, Answer
<1>4. ASSUME NEW room, NEW text PROVE ResultOK(Guide(room, text), bundles)
  BY DEF Guide, ResultOK, Answer
<1>5. ASSUME NEW pos PROVE ResultOK(ParseGuidance(words, pos, entries), bundles)
  BY <1>2, <1>4 DEF ParseGuidance
<1>6. ResultOK(Route(Fill(words, ConfigEntries(chans, bundles))), bundles)
  BY <1>1, FillMeant, RouteOK
<1>7. ResultOK(ParseConfig(words, chans, bundles), bundles)
  BY <1>2, <1>3, <1>5, <1>6 DEF ParseConfig
<1>8. QED  BY <1>2, <1>7 DEF Parse
-----------------------------------------------------------------------------
(* Plain words, in any order that is not a question, fill the same slots.  *)

\* The slots of a /fil-config vocabulary; what fills a channel is a channel's.
SlotNames == {"channel", "target", "verb", "mode", "show", "list", "tools", "wake"}

LEMMA EntrySlots ==
  ASSUME NEW chans, NEW bundles, NEW e \in ConfigEntries(chans, bundles)
  PROVE  /\ e.slot \in SlotNames
         /\ e.slot = "channel" =>
              \E c \in chans : e.value = c.room /\ e.key \in {c.name, <<c.room>>}
                                 /\ e \in ChannelEntries(chans)
<1>1. \A x \in ChannelEntries(chans) :
        x.slot = "channel" /\ \E c \in chans : x.value = c.room /\ x.key \in {c.name, <<c.room>>}
  BY DEF ChannelEntries, Entry
<1>2. \A x \in VerbEntries("verb") : x.slot = "verb"  BY DEF VerbEntries, Entry
<1>3. \A slot : \A W : \A x \in Flat(slot, W) : x.slot = slot  BY DEF Flat, Entry
<1>4. \A x \in TargetEntries(bundles) : x.slot = "target"
  <2>1. ASSUME NEW x \in TargetEntries(bundles)
        PROVE  \/ x \in Flat("target", Rows \cup Aliases \cup bundles)
               \/ \E k, v : x = Entry("target", k, v, TRUE)
    BY DEF TargetEntries
  <2>2. \A k, v : Entry("target", k, v, TRUE).slot = "target"  BY DEF Entry
  <2>3. QED  BY <1>3, <2>1, <2>2
<1>5. \A sub \in {"show", "list", "tools", "wake"} : \A x \in Flat(sub, {sub}) : x.slot = sub
  BY <1>3
<1>6. \/ e \in ChannelEntries(chans) \/ e \in TargetEntries(bundles) \/ e \in VerbEntries("verb")
      \/ e \in Flat("mode", {"mention", "all"})
      \/ \E sub \in {"show", "list", "tools", "wake"} : e \in Flat(sub, {sub})
  BY DEF ConfigEntries
<1>7. CASE e \in ChannelEntries(chans)  BY <1>1, <1>7 DEF SlotNames
<1>8. CASE e \in TargetEntries(bundles)  BY <1>4, <1>8 DEF SlotNames
<1>9. CASE e \in VerbEntries("verb")  BY <1>2, <1>9 DEF SlotNames
<1>10. CASE e \in Flat("mode", {"mention", "all"})
  <2>1. e.slot = "mode"  BY <1>3, <1>10
  <2>2. QED  BY <2>1 DEF SlotNames
<1>11. CASE \E sub \in {"show", "list", "tools", "wake"} : e \in Flat(sub, {sub})
  <2>1. e.slot \in {"show", "list", "tools", "wake"}  BY <1>5, <1>11
  <2>2. QED  BY <2>1 DEF SlotNames
<1>12. QED  BY <1>6, <1>7, <1>8, <1>9, <1>10, <1>11

\* The greatest of a few widths is one of them.
LEMMA WidestIs ==
  ASSUME NEW W \in SUBSET (0 .. 3), 0 \in W PROVE Max(W) \in W
<1>1. \E x \in W : \A y \in W : x >= y
  <2>1. W \subseteq {0, 1, 2, 3}  OBVIOUS
  <2>2. CASE 3 \in W  BY <2>1, <2>2
  <2>3. CASE 3 \notin W /\ 2 \in W  BY <2>1, <2>3
  <2>4. CASE 3 \notin W /\ 2 \notin W /\ 1 \in W  BY <2>1, <2>4
  <2>5. CASE 3 \notin W /\ 2 \notin W /\ 1 \notin W  BY <2>1, <2>5
  <2>6. QED  BY <2>2, <2>3, <2>4, <2>5
<1>2. QED  BY <1>1 DEF Max

LEMMA ExactWidthIs ==
  ASSUME NEW words, Len(words) \in Nat, NEW i \in Nat, NEW least \in Nat, NEW entries,
         NEW n, n = ExactWidth(words, i, least, entries)
  PROVE  /\ n \in 0 .. 3
         /\ n # 0 => n >= least /\ i + n - 1 <= Len(words)
                       /\ ExactChannels(Run(words, i, n), entries) # {}
<1>. DEFINE W == {k \in WidthsAt(words, i) : k >= least /\ ExactChannels(Run(words, i, k), entries) # {}}
<1>1. W \subseteq 1 .. 3  BY DEF WidthsAt, WidestRun
<1>2. Max({0} \cup W) \in {0} \cup W
  <2>1. {0} \cup W \in SUBSET (0 .. 3)  BY <1>1
  <2>. HIDE DEF W
  <2>2. QED  BY <2>1, WidestIs
<1>3. n \in {0} \cup W  BY <1>2 DEF ExactWidth
<1>4. QED  BY <1>1, <1>3 DEF WidthsAt

\* The words of a run; its first word counts without its shape.
LEMMA RunIs ==
  ASSUME NEW S, NEW words \in Seq(S), NEW i \in Nat \ {0}, NEW n \in Nat \ {0}, i + n - 1 <= Len(words)
  PROVE  /\ Len(Run(words, i, n)) = n /\ Len(Norm(Run(words, i, n))) = n
         /\ \A k \in 1 .. n : Run(words, i, n)[k] = words[i + k - 1]
         /\ Norm(Run(words, i, n))[1] = ShapeOf(words[i]).bare
         /\ \A k \in 2 .. n : Norm(Run(words, i, n))[k] = words[i + k - 1]
         /\ Norm(Run(words, i, n)) \in Seq(S \cup {ShapeOf(words[i]).bare})
<1>. DEFINE j == i + n - 1
            T == S \cup {ShapeOf(words[i]).bare}
            run == Run(words, i, n)
<1>1. j \in Int /\ i \in Int /\ i <= j /\ j - i + 1 = n  OBVIOUS
<1>2. \A k \in i .. j : words[k] \in T  OBVIOUS
<1>3. /\ run \in Seq(T) /\ Len(run) = n
      /\ \A k \in 1 .. n : run[k] = words[i + k - 1]
  <2>0. run = SubSeq(words, i, j)  BY DEF Run
  <2>. HIDE DEF j, T, run
  <2>1. /\ SubSeq(words, i, j) \in Seq(T)
        /\ Len(SubSeq(words, i, j)) = IF i <= j THEN j - i + 1 ELSE 0
        /\ \A k \in 1 .. j - i + 1 : SubSeq(words, i, j)[k] = words[i + k - 1]
    BY <1>1, <1>2, SubSeqProperties
  <2>2. QED  BY <1>1, <2>0, <2>1
<1>4. run # <<>> /\ run[1] = words[i]  BY <1>3
<1>. HIDE DEF run
<1>5. /\ Tail(run) \in Seq(T) /\ Len(Tail(run)) = n - 1
      /\ \A k \in 1 .. n - 1 : Tail(run)[k] = run[k + 1]
  BY <1>3, <1>4, HeadTailProperties
<1>6. <<ShapeOf(words[i]).bare>> \in Seq(T) /\ Len(<<ShapeOf(words[i]).bare>>) = 1
  OBVIOUS
<1>7. Norm(run) = <<ShapeOf(words[i]).bare>> \o Tail(run)  BY <1>4 DEF Norm
<1>8. /\ Norm(run) \in Seq(T) /\ Len(Norm(run)) = n
      /\ \A k \in 1 .. n : Norm(run)[k] = IF k <= 1 THEN <<ShapeOf(words[i]).bare>>[k] ELSE Tail(run)[k - 1]
  <2>. HIDE DEF T
  <2>1. PICK s1 \in Seq(T), s2 \in Seq(T) :
          /\ s1 = <<ShapeOf(words[i]).bare>> /\ s2 = Tail(run)
          /\ Len(s1) = 1 /\ Len(s2) = n - 1 /\ Norm(run) = s1 \o s2
    BY <1>5, <1>6, <1>7
  <2>2. /\ s1 \o s2 \in Seq(T) /\ Len(s1 \o s2) = Len(s1) + Len(s2)
        /\ \A k \in 1 .. Len(s1) + Len(s2) :
              (s1 \o s2)[k] = IF k <= Len(s1) THEN s1[k] ELSE s2[k - Len(s1)]
    BY ConcatProperties
  <2>3. Len(s1) + Len(s2) = n  BY <2>1
  <2>4. QED  BY <2>1, <2>2, <2>3
<1>9. Norm(run)[1] = ShapeOf(words[i]).bare  BY <1>8
<1>10. ASSUME NEW k \in 2 .. n PROVE Norm(run)[k] = words[i + k - 1]
  <2>1. k \in 1 .. n /\ ~(k <= 1) /\ k - 1 \in 1 .. n - 1 /\ k - 1 + 1 = k  OBVIOUS
  <2>2. Norm(run)[k] = Tail(run)[k - 1]  BY <1>8, <2>1
  <2>3. Tail(run)[k - 1] = run[k]  BY <1>5, <2>1
  <2>4. run[k] = words[i + k - 1]  BY <1>3, <2>1
  <2>5. QED  BY <2>2, <2>3, <2>4
<1>11. QED  BY <1>3, <1>8, <1>9, <1>10 DEF run

Vocabulary  == ConfigEntries(Channels, {})
Read(words) == {i \in DOMAIN words : words[i] \notin Fillers}
PlainBy(words, M) ==
  /\ \A i \in Read(words) : Means(words[i], M[i])
  /\ \A i, j \in Read(words) : i # j => M[i].slot # M[j].slot
MeantBy(words, M)      == {M[i] : i \in Read(words)}
MeantUpTo(words, M, i) == {M[j] : j \in {k \in Read(words) : k <= i}}

\* What a plain word is, exactly.
LEMMA MeansOne ==
  ASSUME NEW w, NEW m, Means(w, m)
  PROVE  /\ \E e \in Vocabulary : e.key = <<ShapeOf(w).bare>> /\ Meaning(e) = m
         /\ \A e \in Vocabulary : e.key = <<ShapeOf(w).bare>> => Meaning(e) = m
         /\ m.slot \in SlotNames
<1>1. Norm(<<w>>) = <<ShapeOf(w).bare>>
  <2>1. <<w>>[1] = w /\ Tail(<<w>>) = <<>>  OBVIOUS
  <2>2. <<ShapeOf(w).bare>> \o <<>> = <<ShapeOf(w).bare>>  OBVIOUS
  <2>3. QED  BY <2>1, <2>2 DEF Norm
<1>2. {Meaning(e) : e \in {f \in Vocabulary : f.key = <<ShapeOf(w).bare>>}} = {m}
  BY <1>1 DEF Means, ExactHits, Vocabulary
<1>3. \E e \in Vocabulary : e.key = <<ShapeOf(w).bare>> /\ Meaning(e) = m  BY <1>2
<1>4. \A e \in Vocabulary : e.key = <<ShapeOf(w).bare>> => Meaning(e) = m  BY <1>2
<1>5. m.slot \in SlotNames
  <2>1. \A e \in Vocabulary : e.slot \in SlotNames  BY EntrySlots DEF Vocabulary
  <2>2. QED  BY <1>3, <2>1 DEF Meaning
<1>6. QED  BY <1>3, <1>4, <1>5

\* The exact channels of a run are the channels it names.
LEMMA ExactChannelsAre ==
  ASSUME NEW run, NEW slots, NEW m \in ExactChannels(run, OpenFor(slots, Vocabulary))
  PROVE  /\ ShapeOf(run[1]).slot # "target"
         /\ \E c \in Channels : /\ m = [slot |-> "channel", value |-> c.room]
                                /\ Norm(run) \in {c.name, <<c.room>>}
<1>1. ShapeOf(run[1]).slot # "target" /\ m \in ExactHits(run, ChannelsOf(OpenFor(slots, Vocabulary)))
  BY DEF ExactChannels
<1>2. PICK e \in Vocabulary : e.slot = "channel" /\ e.key = Norm(run) /\ m = Meaning(e)
  BY <1>1 DEF ExactHits, ChannelsOf, OpenFor
<1>3. QED  BY <1>1, <1>2, EntrySlots DEF Meaning, Vocabulary

\* Plain words that spell a longer name are command words too, each with what it means.
LEMMA SpelledIsPlain ==
  ASSUME NEW S, NEW words \in Seq(S), NamesApart(words), NEW M, PlainBy(words, M),
         NEW slots, NEW i \in 1 .. Len(words), NEW n \in Nat, n >= 2, i + n - 1 <= Len(words),
         ExactChannels(Run(words, i, n), OpenFor(slots, Vocabulary)) # {}
  PROVE  \A k \in i .. i + n - 1 :
           /\ k \in Read(words) /\ ~IsForced(words[k]) /\ ShapeOf(words[k]).bare = words[k]
           /\ M[k].slot # "channel"
<1>. DEFINE run == Run(words, i, n)
<1>1. /\ Len(run) = n /\ Len(Norm(run)) = n /\ run[1] = words[i]
      /\ Norm(run)[1] = ShapeOf(words[i]).bare
      /\ \A k \in 2 .. n : Norm(run)[k] = words[i + k - 1]
      /\ DOMAIN Norm(run) = 1 .. n
  <2>1. /\ Len(run) = n /\ Len(Norm(run)) = n
        /\ \A k \in 1 .. n : run[k] = words[i + k - 1]
        /\ Norm(run)[1] = ShapeOf(words[i]).bare
        /\ \A k \in 2 .. n : Norm(run)[k] = words[i + k - 1]
        /\ Norm(run) \in Seq(S \cup {ShapeOf(words[i]).bare})
    <3>. HIDE DEF run
    <3>1. i \in Nat \ {0} /\ n \in Nat \ {0}  OBVIOUS
    <3>2. QED  BY <3>1, RunIs DEF run
  <2>. HIDE DEF run
  <2>2. 1 \in 1 .. n /\ i + 1 - 1 = i  OBVIOUS
  <2>3. QED  BY <2>1, <2>2
<1>. HIDE DEF run
<1>2. PICK m \in ExactChannels(run, OpenFor(slots, Vocabulary)) : TRUE  BY DEF run
<1>3. PICK c \in Channels : Norm(run) \in {c.name, <<c.room>>}  BY <1>2, ExactChannelsAre
<1>4. ShapeOf(words[i]).slot # "target"  BY <1>1, <1>2, ExactChannelsAre
<1>5. c.name = Norm(run) /\ Len(c.name) > 1 /\ DOMAIN c.name = 1 .. n
  <2>1. Len(<<c.room>>) = 1  OBVIOUS
  <2>2. Norm(run) # <<c.room>>
    <3>1. Len(Norm(run)) = n /\ n # 1  BY <1>1
    <3>2. QED  BY <2>1, <3>1
  <2>3. c.name = Norm(run)  BY <1>3, <2>2
  <2>4. n > 1  OBVIOUS
  <2>5. QED  BY <1>1, <2>3, <2>4
<1>6. \A k \in 1 .. n : /\ c.name[k] \notin Fillers \cup DOMAIN Shape
                        /\ \A e \in ChannelEntries(Channels) : e.key # <<c.name[k]>>
  <2>1. Range(c.name) \subseteq Range(words) \cup {ShapeOf(w).bare : w \in Range(words)}
    <3>1. \A k \in 1 .. n : i + k - 1 \in DOMAIN words  OBVIOUS
    <3>2. \A k \in 1 .. n : words[i + k - 1] \in Range(words)  BY <3>1 DEF Range
    <3>3. words[i] \in Range(words)  BY DEF Range
    <3>4. \A k \in 1 .. n : k = 1 \/ k \in 2 .. n  OBVIOUS
    <3>5. \A k \in 1 .. n : c.name[k] \in Range(words) \cup {ShapeOf(w).bare : w \in Range(words)}
      BY <1>1, <1>5, <3>2, <3>3, <3>4
    <3>6. QED  BY <1>5, <3>5 DEF Range
  <2>2. \A w \in Range(c.name) : /\ w \notin Fillers \cup DOMAIN Shape
                                 /\ \A e \in ChannelEntries(Channels) : e.key # <<w>>
    BY <1>5, <2>1 DEF NamesApart
  <2>3. QED  BY <1>5, <2>2 DEF Range
<1>7. \A e \in Vocabulary : e.slot = "channel" => \A k \in 1 .. n : e.key # <<c.name[k]>>
  BY <1>6, EntrySlots DEF Vocabulary
<1>8. c.name[1] = ShapeOf(words[i]).bare /\ \A k \in 2 .. n : c.name[k] = words[i + k - 1]
  BY <1>1, <1>5
<1>9. \A k \in 1 .. n : i + k - 1 \in DOMAIN words
  OBVIOUS
<1>10. words[i] \notin DOMAIN Shape
  <2>1. SUFFICES ASSUME words[i] \in DOMAIN Shape PROVE FALSE  OBVIOUS
  <2>2. i \in Read(words)  BY <2>1, SlashAssumption DEF Read
  <2>3. Means(words[i], M[i])  BY <2>2 DEF PlainBy
  <2>4. ShapeOf(words[i]).slot = "channel" /\ IsForced(words[i])
    BY <1>4, <2>1, SlashAssumption DEF ShapeOf, IsForced
  <2>5. M[i].slot = "channel"  BY <2>3, <2>4 DEF Means
  <2>6. PICK e \in Vocabulary : e.key = <<ShapeOf(words[i]).bare>> /\ Meaning(e) = M[i]
    BY <2>3, MeansOne
  <2>7. e.slot = "channel"  BY <2>5, <2>6 DEF Meaning
  <2>8. 1 \in 1 .. n  OBVIOUS
  <2>9. QED  BY <1>7, <1>8, <2>6, <2>7, <2>8
<1>11. ShapeOf(words[i]).bare = words[i]  BY <1>10 DEF ShapeOf
<1>12. \A k \in 1 .. n : c.name[k] = words[i + k - 1]
  <2>1. \A k \in 1 .. n : k = 1 \/ k \in 2 .. n  OBVIOUS
  <2>2. i + 1 - 1 = i  OBVIOUS
  <2>3. QED  BY <1>8, <1>11, <2>1, <2>2
<1>13. SUFFICES ASSUME NEW j \in 1 .. n
                PROVE  LET k == i + j - 1
                       IN  /\ k \in Read(words) /\ ~IsForced(words[k]) /\ ShapeOf(words[k]).bare = words[k]
                           /\ M[k].slot # "channel"
  <2>1. \A k \in i .. i + n - 1 : k - i + 1 \in 1 .. n /\ i + (k - i + 1) - 1 = k  OBVIOUS
  <2>2. QED  BY <2>1
<1>. DEFINE k == i + j - 1
<1>14. words[k] = c.name[j] /\ k \in DOMAIN words  BY <1>9, <1>12
<1>. HIDE DEF k
<1>15. k \in Read(words) /\ words[k] \notin DOMAIN Shape  BY <1>6, <1>14 DEF Read
<1>16. ~IsForced(words[k]) /\ ShapeOf(words[k]).bare = words[k]  BY <1>15 DEF ShapeOf, IsForced
<1>17. M[k].slot # "channel"
  <2>1. Means(words[k], M[k])  BY <1>15 DEF PlainBy
  <2>2. PICK e \in Vocabulary : e.key = <<ShapeOf(words[k]).bare>> /\ Meaning(e) = M[k]
    BY <2>1, MeansOne
  <2>3. e.slot # "channel"  BY <1>7, <1>14, <1>16, <2>2
  <2>4. QED  BY <2>2, <2>3 DEF Meaning
<1>18. QED  BY <1>15, <1>16, <1>17 DEF k
TakenUpTo(t, run, entries) ==
  t = [k \in 0 .. Len(run) |->
         IF k = 0 THEN {} ELSE t[k - 1] \cup {m.slot : m \in WordHits(run[k], t[k - 1], entries)}]

LEMMA CommandWordsAre ==
  ASSUME NEW run, NEW entries, NEW f, TakenUpTo(f, run, entries)
  PROVE  \E t : TakenUpTo(t, run, entries) /\
           (AsCommandWords(run, entries) <=>
              \A k \in 1 .. Len(run) : Cardinality(WordHits(run[k], t[k - 1], entries)) = 1)
<1>. DEFINE t == CHOOSE x : TakenUpTo(x, run, entries)
<1>1. TakenUpTo(t, run, entries)  OBVIOUS
<1>2. AsCommandWords(run, entries) <=>
        \A k \in 1 .. Len(run) : Cardinality(WordHits(run[k], t[k - 1], entries)) = 1
  BY DEF AsCommandWords, TakenUpTo
<1>3. QED  BY <1>1, <1>2

LEMMA SpelledIsCommand ==
  ASSUME NEW S, NEW words \in Seq(S), NamesApart(words), NEW M, PlainBy(words, M),
         NEW slots, NEW i \in 1 .. Len(words), NEW n \in Nat, n >= 2, i + n - 1 <= Len(words),
         ExactChannels(Run(words, i, n), OpenFor(slots, Vocabulary)) # {},
         \A k \in Read(words) : k >= i => \A m \in slots : m.slot # M[k].slot
  PROVE  ~IsForced(Run(words, i, n)[1]) /\ AsCommandWords(Run(words, i, n), OpenFor(slots, Vocabulary))
<1>i. i \in Nat \ {0} /\ n \in Nat \ {0}  OBVIOUS
<1>n. /\ Len(Run(words, i, n)) = n /\ Len(Norm(Run(words, i, n))) = n
      /\ \A k \in 1 .. n : Run(words, i, n)[k] = words[i + k - 1]
      /\ Norm(Run(words, i, n))[1] = ShapeOf(words[i]).bare
      /\ \A k \in 2 .. n : Norm(Run(words, i, n))[k] = words[i + k - 1]
      /\ Norm(Run(words, i, n)) \in Seq(S \cup {ShapeOf(words[i]).bare})
  BY ONLY <1>i, RunIs, words \in Seq(S), i + n - 1 <= Len(words)
<1>0. \A k \in i .. i + n - 1 :
         /\ k \in Read(words) /\ ~IsForced(words[k]) /\ ShapeOf(words[k]).bare = words[k]
         /\ M[k].slot # "channel"
  <2>1. i \in 1 .. Len(words) /\ n \in Nat /\ n >= 2 /\ i + n - 1 <= Len(words)  OBVIOUS
  <2>2. QED
    BY ONLY <2>1, SpelledIsPlain, words \in Seq(S), NamesApart(words), PlainBy(words, M),
            ExactChannels(Run(words, i, n), OpenFor(slots, Vocabulary)) # {}
<1>. DEFINE run == Run(words, i, n)
            open == OpenFor(slots, Vocabulary)
            f == [k \in 0 .. n |-> {M[i + j - 1].slot : j \in 1 .. k}]
<1>1. Len(run) = n /\ \A k \in 1 .. n : run[k] = words[i + k - 1]
  BY <1>n
<1>2. ASSUME NEW k \in 1 .. n
      PROVE  LET h == i + k - 1
             IN  /\ h \in Read(words) /\ ~IsForced(words[h]) /\ ShapeOf(words[h]).bare = words[h]
                 /\ M[h].slot # "channel" /\ Means(words[h], M[h]) /\ h >= i
  <2>. DEFINE h == i + k - 1
  <2>1. h \in i .. i + n - 1 /\ h >= i  OBVIOUS
  <2>. HIDE DEF h
  <2>2. h \in Read(words) /\ ~IsForced(words[h]) /\ ShapeOf(words[h]).bare = words[h] /\ M[h].slot # "channel"
    BY <1>0, <2>1
  <2>3. Means(words[h], M[h])  BY <2>2 DEF PlainBy
  <2>4. QED  BY <2>1, <2>2, <2>3 DEF h
<1>3. ASSUME NEW k \in 1 .. n PROVE WordHits(run[k], f[k - 1], open) = {M[i + k - 1]}
  <2>. DEFINE h == i + k - 1
              m == M[h]
  <2>1. /\ h \in Read(words) /\ ShapeOf(words[h]).bare = words[h] /\ m.slot # "channel"
        /\ Means(words[h], m) /\ h >= i /\ run[k] = words[h]
    BY <1>1, <1>2
  <2>2. m.slot \notin f[k - 1]
    <3>1. SUFFICES ASSUME NEW j \in 1 .. k - 1, m.slot = M[i + j - 1].slot PROVE FALSE
      <4>1. k - 1 \in 0 .. n  OBVIOUS
      <4>2. f[k - 1] = {M[i + j - 1].slot : j \in 1 .. k - 1}  BY <4>1
      <4>. HIDE DEF f, m
      <4>3. QED  BY <4>2
    <3>2. j \in 1 .. n /\ i + j - 1 # h  OBVIOUS
    <3>3. i + j - 1 \in Read(words)  BY <1>2, <3>2
    <3>. HIDE DEF h
    <3>4. QED  BY <2>1, <3>1, <3>2, <3>3 DEF PlainBy
  <2>3. \A e \in Vocabulary : e.slot = m.slot => e \in open
    <3>1. \A x \in slots : x.slot # m.slot  BY <2>1
    <3>. HIDE DEF m
    <3>2. QED  BY <3>1 DEF OpenFor
  <2>4. open \subseteq Vocabulary  BY DEF OpenFor
  <2>. HIDE DEF h, m, open, f, run
  <2>5. PICK e \in Vocabulary : e.key = <<words[h]>> /\ Meaning(e) = m  BY <2>1, MeansOne
  <2>6. e \in open /\ e.slot \notin f[k - 1] \cup {"channel"}
    <3>1. e.slot = m.slot  BY <2>5 DEF Meaning
    <3>2. QED  BY <2>1, <2>2, <2>3, <3>1
  <2>7. \A x \in open : x.key = <<words[h]>> => Meaning(x) = m  BY <2>1, <2>4, MeansOne
  <2>8. WordHits(words[h], f[k - 1], open) = {m}  BY <2>5, <2>6, <2>7 DEF WordHits
  <2>9. QED  BY <2>1, <2>8 DEF h, m
<1>4. ASSUME NEW k \in 1 .. n PROVE f[k] = f[k - 1] \cup {M[i + k - 1].slot}
  <2>1. 1 .. k = (1 .. k - 1) \cup {k} /\ k \in 0 .. n /\ k - 1 \in 0 .. n  OBVIOUS
  <2>2. f[k] = {M[i + j - 1].slot : j \in 1 .. k} /\ f[k - 1] = {M[i + j - 1].slot : j \in 1 .. k - 1}
    BY <2>1
  <2>. HIDE DEF f
  <2>3. QED  BY <2>1, <2>2
<1>5. f[0] = {} /\ f = [k \in 0 .. n |-> f[k]]
  <2>1. 0 \in 0 .. n /\ 1 .. 0 = {}  OBVIOUS
  <2>2. f[0] = {}  BY <2>1
  <2>3. QED  BY <2>2
<1>. HIDE DEF f, open, run
<1>6. TakenUpTo(f, run, open)
  <2>1. ASSUME NEW k \in 0 .. n
        PROVE  f[k] = IF k = 0 THEN {} ELSE f[k - 1] \cup {m.slot : m \in WordHits(run[k], f[k - 1], open)}
    <3>1. CASE k = 0  BY <1>5, <3>1
    <3>2. CASE k # 0
      <4>1. k \in 1 .. n  BY <3>2
      <4>2. {m.slot : m \in {M[i + k - 1]}} = {M[i + k - 1].slot}  OBVIOUS
      <4>3. QED  BY <1>3, <1>4, <3>2, <4>1, <4>2
    <3>3. QED  BY <3>1, <3>2
  <2>2. QED  BY <1>1, <1>5, <2>1 DEF TakenUpTo
<1>7. PICK t : TakenUpTo(t, run, open) /\
               (AsCommandWords(run, open) <=>
                  \A k \in 1 .. Len(run) : Cardinality(WordHits(run[k], t[k - 1], open)) = 1)
  BY <1>6, CommandWordsAre
<1>8. \A k \in 0 .. n :
        t[k] = IF k = 0 THEN {} ELSE t[k - 1] \cup {m.slot : m \in WordHits(run[k], t[k - 1], open)}
  BY <1>1, <1>7 DEF TakenUpTo
<1>. DEFINE T == {k \in 0 .. n : t[k] = f[k]}
<1>9. 0 \in T
  <2>1. 0 \in 0 .. n  OBVIOUS
  <2>2. t[0] = {}  BY <1>8, <2>1
  <2>3. QED  BY <1>5, <2>1, <2>2
<1>10. ASSUME NEW k \in 1 .. n, k - 1 \in T PROVE k \in T
  <2>1. k \in 0 .. n /\ k # 0 /\ t[k - 1] = f[k - 1]  BY <1>10
  <2>2. t[k] = f[k - 1] \cup {m.slot : m \in {M[i + k - 1]}}  BY <1>3, <1>8, <2>1
  <2>3. {m.slot : m \in {M[i + k - 1]}} = {M[i + k - 1].slot}  OBVIOUS
  <2>4. QED  BY <1>4, <2>1, <2>2, <2>3
<1>11. 0 .. n \subseteq T
  <2>. HIDE DEF T
  <2>1. QED  BY <1>9, <1>10, Climb
<1>12. ASSUME NEW k \in 1 .. n PROVE Cardinality(WordHits(run[k], t[k - 1], open)) = 1
  <2>1. k - 1 \in 0 .. n  OBVIOUS
  <2>2. t[k - 1] = f[k - 1]  BY <1>11, <2>1
  <2>3. QED  BY <1>3, <2>2, FS_Singleton
<1>13. 1 \in 1 .. n /\ i + 1 - 1 = i  OBVIOUS
<1>14. ~IsForced(run[1])  BY <1>1, <1>2, <1>13
<1>15. QED  BY <1>1, <1>7, <1>12, <1>14 DEF run, open
\* A name that is spelled in command words is a question.
LEMMA SpelledIsAsked ==
  ASSUME NEW run, Len(run) \in Nat, NEW slots, ~IsForced(run[1]), AsCommandWords(run, OpenFor(slots, Vocabulary)),
         ExactChannels(run, OpenFor(slots, Vocabulary)) # {}
  PROVE  Cardinality({[width |-> Len(run), meaning |-> m] : m \in ExactChannels(run, OpenFor(slots, Vocabulary))}
                       \cup CommandReading(run, OpenFor(slots, Vocabulary))) # 1
<1>. DEFINE channels == ExactChannels(run, OpenFor(slots, Vocabulary))
            first == {[width |-> Len(run), meaning |-> m] : m \in channels}
            f == [c \in Channels |-> [width |-> Len(run), meaning |-> [slot |-> "channel", value |-> c.room]]]
            image == {f[c] : c \in Channels}
            command_ == [width |-> Len(run), meaning |-> CommandWords]
<1>1. CommandReading(run, OpenFor(slots, Vocabulary)) = {command_}  BY DEF CommandReading
<1>2. first \subseteq image
  <2>1. SUFFICES ASSUME NEW m \in channels PROVE [width |-> Len(run), meaning |-> m] \in image
    OBVIOUS
  <2>2. PICK c \in Channels : m = [slot |-> "channel", value |-> c.room]  BY <2>1, ExactChannelsAre
  <2>3. f[c] = [width |-> Len(run), meaning |-> m]  BY <2>2
  <2>4. QED  BY <2>3
<1>3. IsFiniteSet(image)
  <2>1. f \in Surjection(Channels, image)  BY DEF Surjection
  <2>. HIDE DEF f, image
  <2>2. QED  BY <2>1, SlashAssumption, FS_Surjection
<1>4. PICK m \in channels : m.slot = "channel"
  <2>1. PICK m \in channels : TRUE  OBVIOUS
  <2>2. m.slot = "channel"  BY <2>1, ExactChannelsAre
  <2>3. QED  BY <2>2
<1>5. [width |-> Len(run), meaning |-> m] \in first /\ [width |-> Len(run), meaning |-> m] # command_
  BY <1>4 DEF CommandWords, Pseudo
<1>. HIDE DEF first, image, command_
<1>6. IsFiniteSet(first) /\ IsFiniteSet(first \cup {command_})
  BY <1>2, <1>3, FS_Subset, FS_AddElement
<1>7. ~ \E x : first \cup {command_} = {x}
  <2>1. SUFFICES ASSUME NEW x, first \cup {command_} = {x} PROVE FALSE  OBVIOUS
  <2>. DEFINE named == [width |-> Len(run), meaning |-> m]
  <2>2. named \in first /\ named # command_  BY <1>5
  <2>. HIDE DEF named
  <2>3. named = x /\ command_ = x  BY <2>1, <2>2
  <2>4. QED  BY <2>2, <2>3
<1>8. Cardinality(first \cup {command_}) # 1  BY <1>6, <1>7, FS_Singleton
<1>9. QED  BY <1>1, <1>8 DEF first

\* A plain word fills the slot of what it means, is passed over, or is asked about.
LEMMA PlainReading ==
  ASSUME NEW S, NEW words \in Seq(S), NamesApart(words), NEW M, PlainBy(words, M),
         NEW slots, NEW i \in 1 .. Len(words),
         \A k \in Read(words) : k >= i => \A m \in slots : m.slot # M[k].slot
  PROVE  LET readings == ReadingsAt(words, i, OpenFor(slots, Vocabulary))
         IN  \/ Cardinality(readings) # 1
             \/ i \notin Read(words) /\ readings = {[width |-> 1, meaning |-> Filler]}
             \/ i \in Read(words) /\ readings = {[width |-> 1, meaning |-> M[i]]}
<1>. DEFINE open == OpenFor(slots, Vocabulary)
            n    == ExactWidth(words, i, 2, open)
            run  == Run(words, i, n)
            near == Score(<<words[i]>>, open)
<1>1. /\ n \in Nat
      /\ n # 0 => n >= 2 /\ i + n - 1 <= Len(words) /\ ExactChannels(run, open) # {}
  <2>1. Len(words) \in Nat /\ i \in Nat /\ 2 \in Nat  OBVIOUS
  <2>2. n = ExactWidth(words, i, 2, open)  OBVIOUS
  <2>. HIDE DEF open, n, run
  <2>3. /\ n \in 0 .. 3
        /\ n # 0 => n >= 2 /\ i + n - 1 <= Len(words) /\ ExactChannels(Run(words, i, n), open) # {}
    BY <2>1, <2>2, ExactWidthIs
  <2>4. QED  BY <2>3 DEF run
<1>2. CASE n # 0
  <2>1. ~IsForced(run[1]) /\ AsCommandWords(run, open)
    <3>. HIDE DEF n
    <3>1. QED  BY <1>1, <1>2, SpelledIsCommand
  <2>2. Len(run) = n
    <3>. HIDE DEF n
    <3>1. i \in Nat \ {0} /\ n \in Nat \ {0}  BY <1>1, <1>2
    <3>2. i + n - 1 <= Len(words)  BY <1>1, <1>2
    <3>3. /\ Len(Run(words, i, n)) = n /\ Len(Norm(Run(words, i, n))) = n
          /\ \A k \in 1 .. n : Run(words, i, n)[k] = words[i + k - 1]
          /\ Norm(Run(words, i, n))[1] = ShapeOf(words[i]).bare
          /\ \A k \in 2 .. n : Norm(Run(words, i, n))[k] = words[i + k - 1]
          /\ Norm(Run(words, i, n)) \in Seq(S \cup {ShapeOf(words[i]).bare})
      BY ONLY <3>1, <3>2, RunIs, words \in Seq(S)
    <3>4. QED  BY <3>3
  <2>3. Cardinality({[width |-> Len(run), meaning |-> m] : m \in ExactChannels(run, open)}
                      \cup CommandReading(run, open)) # 1
    <3>. HIDE DEF n, run
    <3>1. QED  BY <1>1, <1>2, <2>1, <2>2, SpelledIsAsked
  <2>4. ReadingsAt(words, i, open) =
          {[width |-> n, meaning |-> m] : m \in ExactChannels(run, open)} \cup CommandReading(run, open)
    BY <1>1, <1>2 DEF ReadingsAt
  <2>. HIDE DEF n, run, open
  <2>5. QED  BY <2>2, <2>3, <2>4 DEF open
<1>3. CASE n = 0 /\ words[i] \in Fillers
  BY <1>3 DEF ReadingsAt, Read
<1>4. CASE n = 0 /\ words[i] \notin Fillers
  <2>. DEFINE forced == ShapeOf(words[i]).slot
              pool   == {e \in open : forced = "none" \/ e.slot = forced}
  <2>1. i \in Read(words) /\ Means(words[i], M[i])  BY <1>4 DEF Read, PlainBy
  <2>2. PICK e \in Vocabulary : e.key = <<ShapeOf(words[i]).bare>> /\ Meaning(e) = M[i]
    BY <2>1, MeansOne
  <2>3. \A x \in Vocabulary : x.key = <<ShapeOf(words[i]).bare>> => Meaning(x) = M[i]
    BY <2>1, MeansOne
  <2>4. e.slot = M[i].slot  BY <2>2 DEF Meaning
  <2>5. e \in open
    <3>1. \A m \in slots : m.slot # M[i].slot  BY <2>1
    <3>2. QED  BY <2>4, <3>1 DEF OpenFor
  <2>6. e \in pool  BY <2>1, <2>4, <2>5 DEF Means, IsForced
  <2>7. pool \subseteq Vocabulary  BY DEF OpenFor
  <2>8. Norm(<<words[i]>>) = <<ShapeOf(words[i]).bare>> /\ <<words[i]>>[1] = words[i]
    <3>1. <<words[i]>>[1] = words[i] /\ Tail(<<words[i]>>) = <<>>  OBVIOUS
    <3>2. <<ShapeOf(words[i]).bare>> \o <<>> = <<ShapeOf(words[i]).bare>>  OBVIOUS
    <3>3. QED  BY <3>1, <3>2 DEF Norm
  <2>9. ExactHits(<<words[i]>>, pool) = {M[i]}
    <3>. HIDE DEF pool
    <3>1. QED  BY <2>2, <2>3, <2>6, <2>7, <2>8 DEF ExactHits
  <2>10. near = {M[i]}  BY <2>8, <2>9 DEF Score
  <2>11. ReadingsAt(words, i, open) = {[width |-> 1, meaning |-> m] : m \in near}
    BY <1>4, <2>10 DEF ReadingsAt
  <2>12. QED  BY <2>1, <2>10, <2>11
<1>5. QED  BY <1>2, <1>3, <1>4
\* Plain words fill the slots of what they mean, or the message is a question.
LEMMA PlainFill ==
  ASSUME NEW S, NEW words \in Seq(S), NamesApart(words), NEW M, PlainBy(words, M)
  PROVE  Fill(words, Vocabulary) \in {{Unclear}, MeantBy(words, M)}
<1>. DEFINE L == Len(words)
<1>1. L \in Nat /\ DOMAIN words = 1 .. L  OBVIOUS
<1>2. PICK g : FillsUpTo(g, words, Vocabulary, L) /\ Fill(words, Vocabulary) = g[L].slots
  BY <1>1, FillIs
<1>3. \A i \in 0 .. L :
        g[i] = IF i = 0 THEN StartOfFill ELSE ReadWord(words, Vocabulary, g[i - 1], i)
  BY <1>2 DEF FillsUpTo
<1>. DEFINE Ended(i) == g[i].next = L + 1 /\ g[i].slots = {Unclear}
            Going(i) == g[i].next = i + 1 /\ g[i].slots = MeantUpTo(words, M, i)
            T == {i \in 0 .. L : Ended(i) \/ Going(i)}
<1>4. 0 \in T
  <2>1. {k \in Read(words) : k <= 0} = {}  BY <1>1 DEF Read
  <2>2. MeantUpTo(words, M, 0) = {}  BY <2>1 DEF MeantUpTo
  <2>3. 0 \in 0 .. L  BY <1>1
  <2>4. g[0] = StartOfFill  BY <1>3, <2>3
  <2>5. g[0].next = 0 + 1 /\ g[0].slots = {}  BY <2>4 DEF StartOfFill
  <2>6. Going(0)  BY <2>2, <2>5
  <2>7. QED  BY <2>3, <2>6
<1>5. ASSUME NEW i \in 1 .. L, i - 1 \in T PROVE i \in T
  <2>1. i \in 0 .. L /\ g[i] = ReadWord(words, Vocabulary, g[i - 1], i)  BY <1>1, <1>3
  <2>2. CASE Ended(i - 1)
    <3>1. i < g[i - 1].next  BY <1>1, <2>2
    <3>2. g[i] = g[i - 1]  BY <2>1, <3>1 DEF ReadWord
    <3>3. QED  BY <2>1, <2>2, <3>2
  <2>3. CASE Going(i - 1)
    <3>. DEFINE slots    == MeantUpTo(words, M, i - 1)
                readings == ReadingsAt(words, i, OpenFor(slots, Vocabulary))
                reading  == CHOOSE r \in readings : TRUE
    <3>1. g[i - 1].next = i /\ g[i - 1].slots = slots  BY <1>1, <2>3
    <3>2. g[i] = Taken(readings, words, slots, i)
      <4>1. ~(i < g[i - 1].next)  BY <1>1, <3>1
      <4>. HIDE DEF slots
      <4>2. QED  BY <2>1, <3>1, <4>1 DEF ReadWord
    <3>3. \A k \in Read(words) : k >= i => \A m \in slots : m.slot # M[k].slot
      <4>1. SUFFICES ASSUME NEW k \in Read(words), k >= i, NEW j \in Read(words), j <= i - 1
                     PROVE  M[j].slot # M[k].slot
        BY DEF MeantUpTo
      <4>2. j # k  BY <1>1, <4>1 DEF Read
      <4>3. QED  BY <4>2 DEF PlainBy
    <3>4. \/ Cardinality(readings) # 1
          \/ i \notin Read(words) /\ readings = {[width |-> 1, meaning |-> Filler]}
          \/ i \in Read(words) /\ readings = {[width |-> 1, meaning |-> M[i]]}
      <4>1. i \in 1 .. Len(words)  OBVIOUS
      <4>. HIDE DEF slots
      <4>2. QED  BY <3>3, <4>1, PlainReading
    <3>5. MeantUpTo(words, M, i) = slots \cup (IF i \in Read(words) THEN {M[i]} ELSE {})
      <4>1. {k \in Read(words) : k <= i} =
              {k \in Read(words) : k <= i - 1} \cup (IF i \in Read(words) THEN {i} ELSE {})
        BY <1>1 DEF Read
      <4>2. QED  BY <4>1 DEF MeantUpTo
    <3>. HIDE DEF slots, readings
    <3>6. CASE Cardinality(readings) # 1  BY <2>1, <3>2, <3>6 DEF Taken
    <3>7. ASSUME NEW m, readings = {[width |-> 1, meaning |-> m]},
                 slots \cup ({m} \ {Filler}) = MeantUpTo(words, M, i)
          PROVE  i \in T
      <4>1. Cardinality(readings) = 1  BY <3>7, FS_Singleton
      <4>2. reading = [width |-> 1, meaning |-> m]  BY <3>7
      <4>3. g[i] = [next |-> i + reading.width, slots |-> slots \cup ({reading.meaning} \ {Filler})]
        BY <3>2, <4>1 DEF Taken
      <4>. HIDE DEF reading
      <4>4. Going(i)  BY <3>7, <4>2, <4>3
      <4>5. QED  BY <2>1, <4>4
    <3>8. CASE i \notin Read(words) /\ readings = {[width |-> 1, meaning |-> Filler]}
      <4>1. slots \cup ({Filler} \ {Filler}) = MeantUpTo(words, M, i)  BY <3>5, <3>8
      <4>2. QED  BY <3>7, <3>8, <4>1
    <3>9. CASE i \in Read(words) /\ readings = {[width |-> 1, meaning |-> M[i]]}
      <4>1. M[i].slot \in SlotNames  BY <3>9, MeansOne DEF PlainBy
      <4>2. M[i] # Filler  BY <4>1 DEF SlotNames, Filler, Pseudo
      <4>3. slots \cup ({M[i]} \ {Filler}) = MeantUpTo(words, M, i)  BY <3>5, <3>9, <4>2
      <4>4. QED  BY <3>7, <3>9, <4>3
    <3>10. QED  BY <3>4, <3>6, <3>8, <3>9
  <2>4. QED  BY <1>5, <2>2, <2>3
<1>6. 0 .. L \subseteq T
  <2>. HIDE DEF T, L
  <2>1. QED  BY <1>1, <1>4, <1>5, Climb
<1>7. Ended(L) \/ Going(L)
  <2>1. L \in T  BY <1>1, <1>6
  <2>2. QED  BY <2>1
<1>8. MeantUpTo(words, M, L) = MeantBy(words, M)
  <2>1. {k \in Read(words) : k <= L} = Read(words)  BY <1>1 DEF Read
  <2>2. QED  BY <2>1 DEF MeantUpTo, MeantBy
<1>9. QED  BY <1>2, <1>7, <1>8

\* The least of a nonempty set of places is one of them.
LEMMA FirstIs ==
  ASSUME NEW W \in SUBSET Nat, W # {} PROVE Min(W) \in W
<1>. DEFINE R == OpToRel(<, Nat)
<1>1. PICK x \in W : \A y \in W : ~ (<<y, x>> \in R)
  <2>1. IsWellFoundedOn(R, Nat)  BY NatLessThanWellFounded
  <2>. HIDE DEF R
  <2>2. QED  BY <2>1, WFMin
<1>2. ASSUME NEW y \in W PROVE x <= y
  <2>1. y \in Nat /\ x \in Nat  OBVIOUS
  <2>2. ~ (y < x)  BY <1>1, <2>1 DEF OpToRel
  <2>3. QED  BY <2>1, <2>2
<1>3. QED  BY <1>2 DEF Min

\* What plain words may change is what their meanings are routed to.
LEMMA PlainParse ==
  ASSUME NEW S, NEW words \in Seq(S), NamesApart(words), NEW M, PlainBy(words, M),
         NEW r, r = Parse([command |-> "config", words |-> words], Channels, {}), r.kind \in Changes
  PROVE  r = Route(MeantBy(words, M))
<1>. DEFINE entries == ChannelEntries(Channels)
            first   == words[Min(Read(words))]
            places  == KeywordPlaces(words, entries)
            keys    == {i \in places : IsKeyword(words[i], "guidance")}
<1>1. Answer.kind \notin Changes /\ [kind |-> "upgrade"].kind \notin Changes
  BY DEF Answer, Changes
<1>2. r = ParseConfig(words, Channels, {})
  <2>. DEFINE named == MatchWord("config", Commands \cup Retired)
  <2>1. r = IF named = {"config"} THEN ParseConfig(words, Channels, {})
            ELSE IF named = {"upgrade"} /\ words = <<>> THEN [kind |-> "upgrade"]
            ELSE Answer
    BY DEF Parse
  <2>. HIDE DEF named
  <2>2. QED  BY <1>1, <2>1
<1>3. Read(words) \subseteq 1 .. Len(words) /\ Len(words) \in Nat /\ DOMAIN words = 1 .. Len(words)
  BY DEF Read
<1>4. ASSUME NEW i \in Read(words) PROVE ~IsKeyword(words[i], "feature") /\ ~IsKeyword(words[i], "guidance")
  BY DEF PlainBy, Means
<1>5. Read(words) # {} => ~IsKeyword(first, "feature")
  <2>1. Read(words) # {} => Min(Read(words)) \in Read(words)
    <3>1. Read(words) \in SUBSET Nat  BY <1>3
    <3>2. QED  BY <3>1, FirstIs
  <2>2. QED  BY <1>4, <2>1
<1>6. keys = {}
  <2>. DEFINE lead == ExactWidth(words, 1, 2, entries)
  <2>1. lead \in 0 .. 3
    <3>1. lead = ExactWidth(words, 1, 2, entries) /\ 1 \in Nat /\ 2 \in Nat  OBVIOUS
    <3>. HIDE DEF lead, entries
    <3>2. QED  BY <1>3, <3>1, ExactWidthIs
  <2>. HIDE DEF lead
  <2>2. places \subseteq {i \in lead + 1 .. Len(words) : words[i] \notin Fillers}
    BY DEF KeywordPlaces, lead
  <2>3. places \subseteq Read(words)  BY <1>3, <2>1, <2>2 DEF Read
  <2>4. QED  BY <1>4, <2>3
<1>7. \/ r = Answer
      \/ r = Route(Fill(words, Vocabulary))
  <2>1. ParseConfig(words, Channels, {}) =
          IF Read(words) = {} \/ first = "help" THEN Answer
          ELSE IF IsKeyword(first, "feature")
          THEN IF ExactChannels(<<first>>, entries) # {} THEN Answer ELSE ParseFeature(Tail(Meaningful(words)))
          ELSE IF keys # {}
          THEN IF Min(keys) = Min(places) /\ ExactChannels(<<words[Min(keys)]>>, entries) # {} THEN Answer
               ELSE ParseGuidance(words, Min(keys), entries)
          ELSE Route(Fill(words, Vocabulary))
    BY DEF ParseConfig, Read, Vocabulary
  <2>. HIDE DEF first, keys, places
  <2>2. QED  BY <1>2, <1>5, <1>6, <2>1
<1>8. Route({Unclear}) = Answer
  <2>1. Slots({Unclear}) = {"unclear"}  BY DEF Slots, Unclear, Pseudo
  <2>2. QED  BY <2>1 DEF Route, IsToolsChange, IsWakeChange
<1>9. Fill(words, Vocabulary) \in {{Unclear}, MeantBy(words, M)}  BY PlainFill
<1>10. QED  BY <1>1, <1>7, <1>8, <1>9

\* Words in another order mean the same.
LEMMA ReorderedMeans ==
  ASSUME NEW words, NEW M, PlainBy(words, M), NEW p \in Bijection(DOMAIN words, DOMAIN words),
         NEW w, w = [i \in DOMAIN words |-> words[p[i]]],
         NEW N, N = [i \in DOMAIN words |-> M[p[i]]]
  PROVE  PlainBy(w, N) /\ MeantBy(w, N) = MeantBy(words, M)
<1>0. /\ p \in [DOMAIN words -> DOMAIN words] /\ \A j \in DOMAIN words : \E i \in DOMAIN words : p[i] = j
      /\ \A i, j \in DOMAIN words : p[i] = p[j] => i = j
  BY DEF Bijection, Injection, Surjection, IsInjective
<1>. DEFINE D == DOMAIN words
<1>1. /\ p \in [D -> D] /\ \A j \in D : \E i \in D : p[i] = j
      /\ \A i, j \in D : i # j => p[i] # p[j]
  BY <1>0
<1>. HIDE DEF D
<1>2. Read(w) = {i \in D : p[i] \in Read(words)} /\ Read(words) \subseteq D
  <2>1. DOMAIN w = D /\ \A i \in D : w[i] = words[p[i]]  BY DEF D
  <2>2. QED  BY <1>1, <2>1 DEF Read, D
<1>3. \A i \in D : w[i] = words[p[i]] /\ N[i] = M[p[i]]  BY DEF D
<1>4. PlainBy(w, N)
  <2>1. \A i \in Read(w) : Means(w[i], N[i])  BY <1>2, <1>3 DEF PlainBy
  <2>2. ASSUME NEW i \in Read(w), NEW j \in Read(w), i # j PROVE N[i].slot # N[j].slot
    <3>1. p[i] \in Read(words) /\ p[j] \in Read(words) /\ i \in D /\ j \in D  BY <1>2
    <3>2. p[i] # p[j]  BY <1>1, <2>2, <3>1
    <3>3. M[p[i]].slot # M[p[j]].slot  BY <3>1, <3>2 DEF PlainBy
    <3>4. QED  BY <1>3, <3>1, <3>3
  <2>3. QED  BY <2>1, <2>2 DEF PlainBy
<1>5. MeantBy(w, N) = MeantBy(words, M)
  <2>1. ASSUME NEW i \in Read(w) PROVE N[i] \in {M[j] : j \in Read(words)}  BY <1>2, <1>3
  <2>2. ASSUME NEW j \in Read(words) PROVE M[j] \in {N[i] : i \in Read(w)}
    <3>1. PICK i \in D : p[i] = j  BY <1>1, <1>2
    <3>2. i \in Read(w) /\ N[i] = M[j]  BY <1>2, <1>3, <3>1
    <3>3. QED  BY <3>2
  <2>3. QED  BY <2>1, <2>2 DEF MeantBy
<1>6. QED  BY <1>4, <1>5

\* They are the same words, too.
LEMMA ReorderedIsSaid ==
  ASSUME NEW words, NamesApart(words), NEW p \in Bijection(DOMAIN words, DOMAIN words),
         NEW w, w = [i \in DOMAIN words |-> words[p[i]]]
  PROVE  NamesApart(w)
<1>1. /\ p \in [DOMAIN words -> DOMAIN words]
      /\ \A j \in DOMAIN words : \E i \in DOMAIN words : p[i] = j
  BY DEF Bijection, Injection, Surjection
<1>2. Range(w) = Range(words)  BY <1>1 DEF Range
<1>3. QED  BY <1>2 DEF NamesApart

LEMMA OrderKept == OrderIsFree
<1>1. SUFFICES ASSUME NEW m \in Messages, Plain(m.words), NamesApart(m.words)
               PROVE  LET results == {Parse([command |-> "config", words |-> w], Channels, {}) : w \in Reorderings(m.words)}
                      IN  Cardinality({r \in results : r.kind \in Changes}) <= 1
  BY DEF OrderIsFree, PlainMessages, OneChange
<1>. DEFINE words   == m.words
            results == {Parse([command |-> "config", words |-> w], Channels, {}) : w \in Reorderings(words)}
            changes == {r \in results : r.kind \in Changes}
<1>2. words \in Seq(Range(words))  BY SlashAssumption
<1>3. PICK M : PlainBy(words, M)  BY <1>1 DEF Plain, PlainBy, Read
<1>. DEFINE R == Route(MeantBy(words, M))
<1>4. ASSUME NEW r \in changes PROVE r = R
  <2>1. PICK p \in Bijection(DOMAIN words, DOMAIN words) :
          r = Parse([command |-> "config", words |-> [i \in DOMAIN words |-> words[p[i]]]], Channels, {})
    BY DEF Reorderings
  <2>. DEFINE w == [i \in DOMAIN words |-> words[p[i]]]
              N == [i \in DOMAIN words |-> M[p[i]]]
  <2>2. PlainBy(w, N) /\ MeantBy(w, N) = MeantBy(words, M)
    <3>1. PlainBy(words, M) /\ w = [i \in DOMAIN words |-> words[p[i]]] /\ N = [i \in DOMAIN words |-> M[p[i]]]
      BY <1>3
    <3>. HIDE DEF words, w, N
    <3>2. QED  BY ONLY <3>1, ReorderedMeans, p \in Bijection(DOMAIN words, DOMAIN words)
  <2>3. w \in Seq(Range(words))
    <3>1. DOMAIN words = 1 .. Len(words) /\ Len(words) \in Nat /\ \A i \in 1 .. Len(words) : words[i] \in Range(words)
      BY <1>2
    <3>2. \A i \in 1 .. Len(words) : p[i] \in 1 .. Len(words)
      BY <3>1 DEF Bijection, Injection
    <3>. HIDE DEF words
    <3>3. QED  BY <3>1, <3>2
  <2>4. r.kind \in Changes  OBVIOUS
  <2>5. NamesApart(w)
    <3>1. NamesApart(words) /\ w = [i \in DOMAIN words |-> words[p[i]]]  BY <1>1
    <3>. HIDE DEF words, w
    <3>2. QED  BY ONLY <3>1, ReorderedIsSaid, p \in Bijection(DOMAIN words, DOMAIN words)
  <2>. HIDE DEF w, N, words
  <2>6. r = Route(MeantBy(w, N))
    BY <2>1, <2>2, <2>3, <2>4, <2>5, PlainParse DEF w
  <2>7. QED  BY <2>2, <2>6
<1>. HIDE DEF changes, R
<1>5. changes = {} \/ changes = {R}  BY <1>4
<1>6. Cardinality(changes) \in {0, 1}  BY <1>5, FS_EmptySet, FS_Singleton
<1>7. QED  BY <1>6 DEF changes

-----------------------------------------------------------------------------
(* A command: what it has still to write is readable, whenever it writes.  *)

\* A file to write is one of the config, and is given what it may hold, or null when
\* it is the policy's.
WriteOK(w) == /\ w = [section |-> w.section, holds |-> w.holds]
              /\ w.section \in Sections /\ ValueOK(w.section, w.holds)
              /\ w.holds = {} => w.section = "capability_policy"

\* One or two files, or none, as a compilation makes them.
WritesOK(ws) ==
  \/ ws = <<>>
  \/ \E w : WriteOK(w) /\ ws = <<w>>
  \/ \E v, w : WriteOK(v) /\ WriteOK(w) /\ v.section # w.section /\ ws = <<v, w>>

SectionsIn(ws) == {w.section : w \in Range(ws)}
Stated(ws)     == {w.section : w \in {v \in Range(ws) : v.holds # {}}}

CommandOK(c) ==
  /\ c.phase = "listing" => c.message \in Messages
  /\ c.phase = "writing" =>
       /\ c = [phase |-> "writing", result |-> c.result, writes |-> c.writes, sections |-> c.sections,
               wipes |-> c.wipes, undisturbed |-> c.undisturbed]
       /\ WritesOK(c.writes) /\ Stated(c.writes) \subseteq c.sections

CommandsOK == handling = [h \in Handlers |-> handling[h]] /\ \A h \in Handlers : CommandOK(handling[h])

LEMMA OneWrite ==
  ASSUME NEW w
  PROVE  /\ <<w>> # <<>> /\ Head(<<w>>) = w /\ Tail(<<w>>) = <<>>
         /\ Range(<<w>>) = {w} /\ SectionsIn(<<w>>) = {w.section}
<1>1. Range(<<w>>) = {w}
  <2>1. DOMAIN <<w>> = {1} /\ <<w>>[1] = w  OBVIOUS
  <2>2. QED  BY <2>1 DEF Range
<1>2. SectionsIn(<<w>>) = {w.section}  BY <1>1 DEF SectionsIn
<1>3. <<w>> # <<>> /\ Head(<<w>>) = w /\ Tail(<<w>>) = <<>>  OBVIOUS
<1>4. QED  BY <1>1, <1>2, <1>3

LEMMA TwoWrites ==
  ASSUME NEW v, NEW w
  PROVE  /\ <<v, w>> # <<>> /\ Head(<<v, w>>) = v /\ Tail(<<v, w>>) = <<w>>
         /\ Range(<<v, w>>) = {v, w} /\ SectionsIn(<<v, w>>) = {v.section, w.section}
         /\ <<v>> \o <<w>> = <<v, w>>
<1>1. Range(<<v, w>>) = {v, w}
  <2>1. DOMAIN <<v, w>> = {1, 2} /\ <<v, w>>[1] = v /\ <<v, w>>[2] = w  OBVIOUS
  <2>2. QED  BY <2>1 DEF Range
<1>2. SectionsIn(<<v, w>>) = {v.section, w.section}  BY <1>1 DEF SectionsIn
<1>3. <<v>> \o <<w>> = <<v, w>>
  <2>1. <<v>> \in Seq({v, w}) /\ <<w>> \in Seq({v, w}) /\ <<v, w>> \in Seq({v, w})  OBVIOUS
  <2>2. /\ <<v>> \o <<w>> \in Seq({v, w}) /\ Len(<<v>> \o <<w>>) = 2
        /\ (<<v>> \o <<w>>)[1] = v /\ (<<v>> \o <<w>>)[2] = w
    BY <2>1
  <2>3. Len(<<v, w>>) = 2 /\ <<v, w>>[1] = v /\ <<v, w>>[2] = w  OBVIOUS
  <2>. DEFINE s == <<v>> \o <<w>>
              t == <<v, w>>
  <2>4. \A i \in 1 .. 2 : s[i] = t[i]
    <3>1. \A i \in 1 .. 2 : i = 1 \/ i = 2  OBVIOUS
    <3>2. s[1] = t[1] /\ s[2] = t[2]  BY <2>2, <2>3
    <3>. HIDE DEF s, t
    <3>3. QED  BY <3>1, <3>2
  <2>5. s \in Seq({v, w}) /\ t \in Seq({v, w}) /\ Len(s) = 2 /\ Len(t) = 2  BY <2>1, <2>2, <2>3
  <2>. HIDE DEF s, t
  <2>6. s = t  BY <2>4, <2>5, SeqEqual
  <2>7. QED  BY <2>6 DEF s, t
<1>4. <<v, w>> # <<>> /\ Head(<<v, w>>) = v  OBVIOUS
<1>5. Tail(<<v, w>>) = <<w>>  OBVIOUS
<1>6. QED  BY <1>1, <1>2, <1>3, <1>4, <1>5

LEMMA NoWrite == Range(<<>>) = {} /\ SectionsIn(<<>>) = {} /\ Stated(<<>>) = {}
<1>1. Range(<<>>) = {}  BY DEF Range
<1>2. QED  BY <1>1 DEF SectionsIn, Stated

LEMMA WritesAreOne ==
  ASSUME NEW section \in Sections, NEW value, ValueOK(section, {value})
  PROVE  WritesOK(Write(section, {value}))
  BY DEF Write, WritesOK, WriteOK

\* The next file, and what is left after it.
LEMMA NextWrite ==
  ASSUME NEW ws, WritesOK(ws), ws # <<>>
  PROVE  /\ WriteOK(Head(ws)) /\ WritesOK(Tail(ws)) /\ Range(ws) = {Head(ws)} \cup Range(Tail(ws))
         /\ \A w \in Range(Tail(ws)) : w.section # Head(ws).section
<1>1. ASSUME NEW w, WriteOK(w), ws = <<w>>
      PROVE  /\ WriteOK(Head(ws)) /\ WritesOK(Tail(ws)) /\ Range(ws) = {Head(ws)} \cup Range(Tail(ws))
             /\ \A x \in Range(Tail(ws)) : x.section # Head(ws).section
  <2>1. Head(ws) = w /\ Tail(ws) = <<>> /\ Range(ws) = {w}  BY <1>1, OneWrite
  <2>2. Range(<<>>) = {} /\ WritesOK(<<>>)  BY NoWrite DEF WritesOK
  <2>3. QED  BY <1>1, <2>1, <2>2
<1>2. ASSUME NEW v, NEW w, WriteOK(v), WriteOK(w), v.section # w.section, ws = <<v, w>>
      PROVE  /\ WriteOK(Head(ws)) /\ WritesOK(Tail(ws)) /\ Range(ws) = {Head(ws)} \cup Range(Tail(ws))
             /\ \A x \in Range(Tail(ws)) : x.section # Head(ws).section
  <2>1. Head(ws) = v /\ Tail(ws) = <<w>> /\ Range(ws) = {v, w}  BY <1>2, TwoWrites
  <2>2. Range(<<w>>) = {w} /\ WritesOK(<<w>>)  BY <1>2, OneWrite DEF WritesOK
  <2>3. QED  BY <1>2, <2>1, <2>2
<1>3. QED  BY <1>1, <1>2 DEF WritesOK

\* What a tools change writes: a policy that differs in one channel's list, or null
\* when it does not, and the gate's flag.
Regranted(r, has) == [policy EXCEPT !.channel = With(policy.channel, r.room, has)]
HasAfter(r) ==
  IF r.verb = "grant" THEN GrantsFor(policy, r.room) \cup {r.target}
  ELSE GrantsFor(policy, r.room) \ {r.target}

ListWrite(r) ==
  [section |-> "capability_policy",
   holds   |-> IF HasAfter(r) = GrantsFor(policy, r.room) THEN {} ELSE {Regranted(r, HasAfter(r))}]
GateWrite == [section |-> "feature_flags", holds |-> {With(flags, Gate, TRUE)}]

LEMMA ToolsAre ==
  ASSUME NEW r
  PROVE  \/ GateOn /\ HasAfter(r) = GrantsFor(policy, r.room) /\ ApplyTools(r) = <<>>
         \/ GateOn /\ HasAfter(r) # GrantsFor(policy, r.room) /\ ApplyTools(r) = <<ListWrite(r)>>
         \/ ~GateOn /\ ApplyTools(r) = <<ListWrite(r), GateWrite>>
<1>. DEFINE v == ListWrite(r)
            w == GateWrite
<1>1. ApplyTools(r) =
        IF HasAfter(r) = GrantsFor(policy, r.room) /\ GateOn THEN <<>>
        ELSE <<v>> \o (IF GateOn THEN <<>> ELSE <<w>>)
  BY DEF ApplyTools, Materialize, GateToo, HasAfter, Regranted, Write, ListWrite, GateWrite
<1>. HIDE DEF v, w
<1>2. <<v>> \o <<>> = <<v>>
  <2>1. <<v>> \in Seq({v})  OBVIOUS
  <2>. HIDE DEF v
  <2>2. QED  BY <2>1, ConcatEmptySeq
<1>4. <<v>> \o <<w>> = <<v, w>>  BY TwoWrites
<1>3. QED  BY <1>1, <1>2, <1>4 DEF v, w

LEMMA RegrantOK ==
  ASSUME FilesOK, NEW r, r.target \in Rows \cup Aliases \cup DOMAIN policy.custom \cup Autos
  PROVE  PolicyOK(Regranted(r, HasAfter(r))) /\ ValidPolicy(Regranted(r, HasAfter(r)))
<1>. DEFINE p == policy
            q == Regranted(r, HasAfter(r))
<1>1. PolicyOK(p) /\ ValidPolicy(p)  BY PolicyReadable
<1>2. p = [custom |-> p.custom, channel |-> p.channel, default |-> p.default]  BY <1>1 DEF PolicyOK
<1>3. q = [custom |-> p.custom, channel |-> With(p.channel, r.room, HasAfter(r)), default |-> p.default]
  BY <1>2 DEF Regranted
<1>4. r.target \in Names /\ r.target \in Autos \cup KnownIn(p)
  <2>1. Rows \cup Aliases \subseteq KnownIn(p)  BY SlashAssumption, GateAssumption DEF KnownIn
  <2>2. DOMAIN p.custom \subseteq KnownIn(p)  BY <1>1 DEF PolicyOK, ValidPolicy, KnownIn, Names
  <2>3. KnownIn(p) \subseteq Names  BY DEF KnownIn, Names
  <2>4. QED  BY <2>1, <2>2, <2>3 DEF Names
<1>5. HasAfter(r) \subseteq GrantsFor(p, r.room) \cup {r.target}  BY DEF HasAfter
<1>6. GrantsFor(p, r.room) \subseteq Names /\ GrantsFor(p, r.room) \subseteq Autos \cup KnownIn(p)
  BY <1>1 DEF PolicyOK, ValidPolicy, GrantsFor
<1>7. KnownIn(q) = KnownIn(p)  BY <1>3 DEF KnownIn
<1>8. \A c \in DOMAIN q.channel : q.channel[c] = HasAfter(r) \/ (c \in DOMAIN p.channel /\ q.channel[c] = p.channel[c])
  BY <1>3 DEF With
<1>9. q.custom = p.custom /\ q.default = p.default
      /\ q = [custom |-> q.custom, channel |-> q.channel, default |-> q.default]
  BY <1>3
<1>. HIDE DEF p, q
<1>10. PolicyOK(q)  BY <1>1, <1>4, <1>5, <1>6, <1>8, <1>9 DEF PolicyOK
<1>11. ValidPolicy(q)  BY <1>1, <1>4, <1>5, <1>6, <1>7, <1>8, <1>9 DEF ValidPolicy
<1>12. QED  BY <1>10, <1>11 DEF q

LEMMA FlagsReadable == ASSUME FilesOK, NEW f, NEW on \in BOOLEAN PROVE ValueOK("feature_flags", {With(flags, f, on)})
  BY FlagSet, PolicyReadable DEF ValueOK

LEMMA ToolsWritesOK ==
  ASSUME FilesOK, NEW r, r.target \in Rows \cup Aliases \cup DOMAIN policy.custom \cup Autos
  PROVE  WritesOK(ApplyTools(r))
<1>1. WriteOK(ListWrite(r))
  <2>1. ValueOK("capability_policy", {Regranted(r, HasAfter(r))})  BY RegrantOK DEF ValueOK
  <2>2. ValueOK("capability_policy", {})  BY DEF ValueOK
  <2>3. QED  BY <2>1, <2>2 DEF ListWrite, WriteOK, Sections
<1>2. WriteOK(GateWrite)
  <2>1. ValueOK("feature_flags", {With(flags, Gate, TRUE)})  BY FlagsReadable
  <2>2. QED  BY <2>1 DEF GateWrite, WriteOK, Sections
<1>3. ListWrite(r).section # GateWrite.section  BY DEF ListWrite, GateWrite
<1>4. ApplyTools(r) \in {<<>>, <<ListWrite(r)>>, <<ListWrite(r), GateWrite>>}  BY ToolsAre
<1>5. QED  BY <1>1, <1>2, <1>3, <1>4 DEF WritesOK

LEMMA CompiledOK ==
  ASSUME FilesOK, NEW r, r.kind \in Changes, ResultOK(r, DOMAIN policy.custom) PROVE WritesOK(Compiled(r))
<1>0. WritesOK(<<>>)  BY DEF WritesOK
<1>1. CASE r.kind = "tools"
  <2>1. Compiled(r) = ApplyTools(r)  BY <1>1 DEF Compiled
  <2>2. QED  BY <1>1, <2>1, ToolsWritesOK DEF ResultOK
<1>2. CASE r.kind = "wake"
  <2>1. Compiled(r) = ApplyWake(r)  BY <1>2 DEF Compiled
  <2>2. \A value : WritesOK(Write("wake_policy", {value}))  BY WritesAreOne DEF ValueOK, Sections
  <2>3. QED  BY <2>1, <2>2, <1>0 DEF ApplyWake
<1>3. CASE r.kind = "guidance"
  <2>1. Compiled(r) = ApplyGuidance(r)  BY <1>3 DEF Compiled
  <2>2. \A value : WritesOK(Write("channel_instructions", {value}))  BY WritesAreOne DEF ValueOK, Sections
  <2>3. QED  BY <2>1, <2>2, <1>0 DEF ApplyGuidance
<1>4. CASE r.kind = "feature"
  <2>1. Compiled(r) = ApplyFeature(r) /\ r.on \in BOOLEAN  BY <1>4 DEF Compiled, ResultOK
  <2>2. ValueOK("feature_flags", {With(flags, r.feature, r.on)})  BY <2>1, FlagsReadable
  <2>3. WritesOK(Write("feature_flags", {With(flags, r.feature, r.on)}))  BY <2>2, WritesAreOne DEF Sections
  <2>4. QED  BY <2>1, <2>3, <1>0 DEF ApplyFeature
<1>5. QED  BY <1>1, <1>2, <1>3, <1>4 DEF Changes


-----------------------------------------------------------------------------
(* What a step does to the commands.                                       *)

\* Other than being disturbed, by files that change under it, nothing happens to the
\* command h.
GoesOn(h) ==
  LET c == handling[h]
      d == handling'[h]
  IN  /\ d.phase = c.phase /\ CommandOK(d)
      /\ c.phase # "writing" => d = c
      /\ c.phase = "writing" =>
           /\ d.result = c.result /\ d.writes = c.writes /\ d.sections = c.sections /\ d.wipes = c.wipes
           /\ d.undisturbed => c.undisturbed /\ stores' = stores

OthersGoOn(h) == \A g \in Handlers \ {h} : GoesOn(g)
AllGoOn       == \A g \in Handlers : GoesOn(g)

LEMMA CommandChanged ==
  ASSUME NEW c, NEW v, NEW xs,
         c = [phase |-> "writing", result |-> c.result, writes |-> c.writes, sections |-> c.sections,
              wipes |-> c.wipes, undisturbed |-> c.undisturbed]
  PROVE  /\ [c EXCEPT !.undisturbed = v] =
              [phase |-> "writing", result |-> c.result, writes |-> c.writes, sections |-> c.sections,
               wipes |-> c.wipes, undisturbed |-> v]
         /\ [c EXCEPT !.writes = xs] =
              [phase |-> "writing", result |-> c.result, writes |-> xs, sections |-> c.sections,
               wipes |-> c.wipes, undisturbed |-> c.undisturbed]
<1>. DEFINE r  == c.result
            ws == c.writes
            S  == c.sections
            b  == c.wipes
            u  == c.undisturbed
<1>1. c = [phase |-> "writing", result |-> r, writes |-> ws, sections |-> S, wipes |-> b, undisturbed |-> u]
  OBVIOUS
<1>. HIDE DEF r, ws, S, b, u
<1>2. /\ [c EXCEPT !.undisturbed = v] =
           [phase |-> "writing", result |-> r, writes |-> ws, sections |-> S, wipes |-> b, undisturbed |-> v]
      /\ [c EXCEPT !.writes = xs] =
           [phase |-> "writing", result |-> r, writes |-> xs, sections |-> S, wipes |-> b, undisturbed |-> u]
  BY ONLY <1>1
<1>3. QED  BY <1>2 DEF r, ws, S, b, u

LEMMA DisturbedGoesOn ==
  ASSUME CommandsOK, NEW h \in Handlers, handling'[h] = Disturbed(handling[h])
  PROVE  GoesOn(h)
<1>. DEFINE c == handling[h]
            d == handling'[h]
<1>1. CommandOK(c)  BY DEF CommandsOK
<1>2. CASE stores' # stores /\ c.phase = "writing"
  <2>1. /\ c = [phase |-> "writing", result |-> c.result, writes |-> c.writes, sections |-> c.sections,
                wipes |-> c.wipes, undisturbed |-> c.undisturbed]
        /\ WritesOK(c.writes) /\ Stated(c.writes) \subseteq c.sections
    BY <1>1, <1>2 DEF CommandOK
  <2>2. d = [c EXCEPT !.undisturbed = FALSE]  BY <1>2 DEF Disturbed
  <2>3. d = [phase |-> "writing", result |-> c.result, writes |-> c.writes, sections |-> c.sections,
             wipes |-> c.wipes, undisturbed |-> FALSE]
    <3>. HIDE DEF c, d
    <3>1. QED  BY <2>1, <2>2, CommandChanged
  <2>4. /\ d.phase = "writing" /\ d.result = c.result /\ d.writes = c.writes /\ d.sections = c.sections
        /\ d.wipes = c.wipes /\ d.undisturbed = FALSE
        /\ d = [phase |-> "writing", result |-> d.result, writes |-> d.writes, sections |-> d.sections,
                wipes |-> d.wipes, undisturbed |-> d.undisturbed]
    BY <2>3
  <2>. HIDE DEF c, d
  <2>5. CommandOK(d)  BY <2>1, <2>4 DEF CommandOK
  <2>6. QED  BY <1>2, <2>4, <2>5 DEF GoesOn, c, d
<1>3. CASE ~(stores' # stores /\ c.phase = "writing")
  <2>1. d = c  BY <1>3 DEF Disturbed
  <2>2. QED  BY <1>1, <1>3, <2>1 DEF GoesOn
<1>4. QED  BY <1>2, <1>3

LEMMA HandlingIs ==
  ASSUME CommandsOK, NEW h \in Handlers, NEW c, CommandOK(c), Becomes(h, c)
  PROVE  CommandsOK' /\ handling'[h] = c /\ OthersGoOn(h)
<1>1. handling' = [g \in Handlers |-> IF g = h THEN c ELSE Disturbed(handling[g])]  BY DEF Becomes
<1>2. handling'[h] = c /\ \A g \in Handlers \ {h} : handling'[g] = Disturbed(handling[g])  BY <1>1
<1>3. OthersGoOn(h)  BY <1>2, DisturbedGoesOn DEF OthersGoOn
<1>4. \A g \in Handlers : CommandOK(handling'[g])  BY <1>2, <1>3 DEF OthersGoOn, GoesOn
<1>5. handling' = [g \in Handlers |-> handling'[g]]  BY <1>1
<1>6. \A g \in Handlers : CommandOK(handling[g])'  BY <1>4 DEF CommandOK
<1>7. QED  BY <1>2, <1>3, <1>5, <1>6 DEF CommandsOK

LEMMA AllGoesOn == ASSUME CommandsOK, AllDisturbed PROVE CommandsOK' /\ AllGoOn
<1>1. handling' = [g \in Handlers |-> Disturbed(handling[g])]  BY DEF AllDisturbed
<1>2. \A g \in Handlers : handling'[g] = Disturbed(handling[g])  BY <1>1
<1>3. AllGoOn  BY <1>2, DisturbedGoesOn DEF AllGoOn
<1>4. \A g \in Handlers : CommandOK(handling[g])'  BY <1>3 DEF AllGoOn, GoesOn, CommandOK
<1>5. handling' = [g \in Handlers |-> handling'[g]]  BY <1>1
<1>6. QED  BY <1>3, <1>4, <1>5 DEF CommandsOK

LEMMA StillGoesOn == ASSUME CommandsOK, UNCHANGED <<handling, stores>> PROVE CommandsOK' /\ AllGoOn
<1>1. \A g \in Handlers : CommandOK(handling[g]) /\ handling'[g] = handling[g]  BY DEF CommandsOK
<1>2. AllGoOn  BY <1>1 DEF AllGoOn, GoesOn
<1>3. \A g \in Handlers : CommandOK(handling[g])'  BY <1>1 DEF CommandOK
<1>4. QED  BY <1>2, <1>3 DEF CommandsOK

LEMMA IdleOK == CommandOK(NoCommand) /\ NoCommand.phase # "writing"
  BY DEF NoCommand, CommandOK

\* What the actions of a command do.
LEMMA ReceiveDone ==
  ASSUME CommandsOK, NEW h \in Handlers, NEW m \in Messages, Receive(m, h)
  PROVE  /\ CommandsOK' /\ OthersGoOn(h) /\ UNCHANGED <<config, turns, toolsets, echo, writeFaults>>
         /\ handling[h].phase # "writing" /\ handling'[h].phase # "writing"
<1>. DEFINE c == [phase |-> "listing", message |-> m]
<1>1. /\ handling[h] = NoCommand /\ handling' = [handling EXCEPT ![h] = c]
      /\ UNCHANGED <<config, turns, toolsets, echo, writeFaults>>
  BY DEF Receive
<1>2. CommandOK(c) /\ c.phase = "listing"  BY DEF CommandOK
<1>3. stores' = stores  BY <1>1 DEF config
<1>. HIDE DEF c
<1>4. Becomes(h, c)
  <2>1. handling = [g \in Handlers |-> handling[g]]  BY DEF CommandsOK
  <2>2. \A g \in Handlers : Disturbed(handling[g]) = handling[g]  BY <1>3 DEF Disturbed
  <2>3. handling' = [g \in Handlers |-> IF g = h THEN c ELSE handling[g]]  BY <1>1, <2>1
  <2>4. QED  BY ONLY <2>2, <2>3 DEF Becomes
<1>5. CommandsOK' /\ handling'[h] = c /\ OthersGoOn(h)  BY <1>2, <1>4, HandlingIs
<1>6. QED  BY <1>1, <1>2, <1>5, IdleOK

LEMMA CompilationOK ==
  ASSUME FilesOK, NEW m \in Messages, NEW chans, NEW r, r = Parse(m, chans, DOMAIN policy.custom),
         r.kind \in Changes
  PROVE  /\ CommandOK(Compilation(r)) /\ WritesOK(Compiled(r)) /\ ResultOK(r, DOMAIN policy.custom)
<1>1. ResultOK(r, DOMAIN policy.custom)  BY ParseOK
<1>2. WritesOK(Compiled(r))  BY <1>1, CompiledOK
<1>. DEFINE c == Compilation(r)
<1>3. /\ c.phase = "writing" /\ c.writes = Compiled(r) /\ c.sections = Stated(Compiled(r))
      /\ c = [phase |-> "writing", result |-> c.result, writes |-> c.writes, sections |-> c.sections,
              wipes |-> c.wipes, undisturbed |-> c.undisturbed]
  BY DEF Compilation, Stated
<1>. HIDE DEF c
<1>4. CommandOK(c)  BY <1>2, <1>3 DEF CommandOK
<1>5. QED  BY <1>1, <1>2, <1>4 DEF c

LEMMA CompileDone ==
  ASSUME FilesOK, CommandsOK, NEW h \in Handlers, NEW chans, Compile(h, chans)
  PROVE  /\ CommandsOK' /\ OthersGoOn(h) /\ UNCHANGED <<config, turns, toolsets, writeFaults>>
         /\ handling[h].phase # "writing"
         /\ \/ handling'[h].phase # "writing" /\ echo' = echo
            \/ \E r : /\ r.kind \in Changes /\ ResultOK(r, DOMAIN policy.custom) /\ WritesOK(Compiled(r))
                      /\ handling'[h] = Compilation(r) /\ echo' = None
<1>. DEFINE r == Parse(handling[h].message, chans, DOMAIN policy.custom)
<1>1. UNCHANGED <<config, turns, toolsets, writeFaults>> /\ handling[h].phase = "listing"
  BY DEF Compile, gateVars
<1>2. CASE r.kind \in Changes
  <2>1. Becomes(h, Compilation(r)) /\ echo' = None  BY <1>2 DEF Compile
  <2>2. handling[h].message \in Messages  BY <1>1 DEF CommandsOK, CommandOK
  <2>. HIDE DEF r
  <2>3. CommandOK(Compilation(r)) /\ WritesOK(Compiled(r)) /\ ResultOK(r, DOMAIN policy.custom)
    BY <1>2, <2>2, CompilationOK DEF r
  <2>4. CommandsOK' /\ handling'[h] = Compilation(r) /\ OthersGoOn(h)  BY <2>1, <2>3, HandlingIs
  <2>5. QED  BY <1>1, <1>2, <2>1, <2>3, <2>4
<1>3. CASE r.kind \notin Changes
  <2>1. Becomes(h, NoCommand) /\ echo' = echo  BY <1>3 DEF Compile
  <2>2. CommandsOK' /\ handling'[h] = NoCommand /\ OthersGoOn(h)  BY <2>1, IdleOK, HandlingIs
  <2>3. QED  BY <1>1, <2>1, <2>2, IdleOK
<1>4. QED  BY <1>2, <1>3

LEMMA WriteDone ==
  ASSUME FilesOK, CommandsOK, NEW h \in Handlers, WriteNext(h)
  PROVE  /\ FilesOK' /\ CommandsOK' /\ OthersGoOn(h)
         /\ UNCHANGED <<server, pending, turns, toolsets, echo, writeFaults>>
         /\ handling[h].phase = "writing" /\ handling[h].writes # <<>> /\ WritesOK(handling[h].writes)
         /\ stores' = [stores EXCEPT ![Head(handling[h].writes).section] = Head(handling[h].writes).holds]
         /\ handling'[h] = [phase |-> "writing", result |-> handling[h].result,
                            writes |-> Tail(handling[h].writes), sections |-> handling[h].sections,
                            wipes |-> handling[h].wipes, undisturbed |-> handling[h].undisturbed]
<1>. DEFINE c == handling[h]
            w == Head(c.writes)
            d == [c EXCEPT !.writes = Tail(c.writes)]
<1>1. /\ c.phase = "writing" /\ c.writes # <<>> /\ Becomes(h, d)
      /\ UNCHANGED <<server, pending, turns, toolsets, echo, writeFaults>>
      /\ stores' = [stores EXCEPT ![w.section] = w.holds]
  BY DEF WriteNext, MayWrite, Writing
<1>2. /\ c = [phase |-> "writing", result |-> c.result, writes |-> c.writes, sections |-> c.sections,
              wipes |-> c.wipes, undisturbed |-> c.undisturbed]
      /\ WritesOK(c.writes) /\ Stated(c.writes) \subseteq c.sections
  BY <1>1 DEF CommandsOK, CommandOK
<1>3. /\ WriteOK(w) /\ WritesOK(Tail(c.writes)) /\ Range(Tail(c.writes)) \subseteq Range(c.writes)
  BY <1>1, <1>2, NextWrite
<1>4. Stated(Tail(c.writes)) \subseteq c.sections  BY <1>2, <1>3 DEF Stated
<1>5. d = [phase |-> "writing", result |-> c.result, writes |-> Tail(c.writes), sections |-> c.sections,
           wipes |-> c.wipes, undisturbed |-> c.undisturbed]
  <2>. HIDE DEF c, w
  <2>1. QED  BY <1>2, CommandChanged
<1>6. /\ d.phase = "writing" /\ d.writes = Tail(c.writes) /\ d.sections = c.sections
      /\ d = [phase |-> "writing", result |-> d.result, writes |-> d.writes, sections |-> d.sections,
              wipes |-> d.wipes, undisturbed |-> d.undisturbed]
  BY <1>5
<1>. HIDE DEF c, d, w
<1>7. CommandOK(d)  BY <1>3, <1>4, <1>6 DEF CommandOK
<1>8. CommandsOK' /\ handling'[h] = d /\ OthersGoOn(h)  BY <1>1, <1>7, HandlingIs
<1>9. DocsOK([stores EXCEPT ![w.section] = w.holds])  BY <1>3, DocWritten DEF WriteOK, FilesOK
<1>10. DocsOK(stores') /\ DocsOK(server') /\ toolsets' \in [Autos -> SUBSET Tools]
  BY <1>1, <1>9 DEF FilesOK
<1>11. FilesOK'  BY <1>10 DEF FilesOK
<1>12. QED  BY <1>1, <1>2, <1>5, <1>8, <1>11 DEF c, w

LEMMA FailDone ==
  ASSUME FilesOK, CommandsOK, NEW h \in Handlers, WriteFails(h)
  PROVE  /\ FilesOK' /\ CommandsOK' /\ OthersGoOn(h) /\ UNCHANGED <<config, turns, toolsets, echo>>
         /\ handling[h].phase = "writing" /\ handling[h].writes # <<>> /\ handling'[h] = NoCommand
         /\ writeFaults' = writeFaults + 1
<1>1. /\ Becomes(h, NoCommand) /\ UNCHANGED <<config, turns, toolsets, echo>> /\ writeFaults' = writeFaults + 1
      /\ handling[h].phase = "writing" /\ handling[h].writes # <<>>
  BY DEF WriteFails, MayWrite, Writing, gateVars
<1>2. CommandsOK' /\ handling'[h] = NoCommand /\ OthersGoOn(h)  BY <1>1, IdleOK, HandlingIs
<1>3. FilesOK'  BY <1>1, FilesUnchanged DEF config
<1>4. QED  BY <1>1, <1>2, <1>3

LEMMA ConfirmDone ==
  ASSUME FilesOK, CommandsOK, NEW h \in Handlers, Confirm(h)
  PROVE  /\ FilesOK' /\ CommandsOK' /\ OthersGoOn(h) /\ UNCHANGED <<turns, toolsets, writeFaults>>
         /\ handling[h].phase = "writing" /\ handling'[h] = NoCommand
         /\ \A g \in Handlers : handling[g].phase = "writing" => handling[g].writes = <<>>
         /\ \/ handling[h].sections = {} /\ UNCHANGED config
            \/ WriteBack(handling[h].sections)
         /\ echo' = IF handling[h].undisturbed /\ Owing(Handlers \ {h}) = {}
                    THEN [change |-> handling[h].result, wiped |-> handling[h].wipes] ELSE echo
<1>1. /\ Becomes(h, NoCommand) /\ UNCHANGED <<turns, toolsets, writeFaults>> /\ Mirror(handling[h].sections)
      /\ handling[h].phase = "writing"
      /\ \A g \in Handlers : handling[g].phase = "writing" => handling[g].writes = <<>>
      /\ echo' = IF handling[h].undisturbed /\ Owing(Handlers \ {h}) = {}
                 THEN [change |-> handling[h].result, wiped |-> handling[h].wipes] ELSE echo
  BY DEF Confirm, LoopFree, Writing
<1>2. CommandsOK' /\ handling'[h] = NoCommand /\ OthersGoOn(h)  BY <1>1, IdleOK, HandlingIs
<1>3. \/ handling[h].sections = {} /\ UNCHANGED config
      \/ WriteBack(handling[h].sections)
  BY <1>1 DEF Mirror, MirrorAll
<1>4. CASE UNCHANGED config  BY <1>1, <1>2, <1>3, <1>4, FilesUnchanged DEF config
<1>5. CASE WriteBack(handling[h].sections)  BY <1>1, <1>2, <1>3, <1>5, WriteBackKeeps
<1>6. QED  BY <1>3, <1>4, <1>5

-----------------------------------------------------------------------------
(* What the other steps do, and what all of them do together.              *)

\* The parts of Next: a command's, those of tools and syncs, and what is the gate's
\* alone.
SlashStep(h) ==
  \/ (\E m \in Messages : Receive(m, h)) \/ (\E chans \in {{}, Channels} : Compile(h, chans))
  \/ WriteNext(h) \/ WriteFails(h) \/ Confirm(h)

QuietGate ==
  /\ ATurn \/ ResolveStep \/ Dispatch \/ \E L \in Toolsets : ToolsetsChange(L)
  /\ UNCHANGED <<slashVars, config>>

LEMMA NextIs ==
  ASSUME [Next]_vars
  PROVE  (\E h \in Handlers : SlashStep(h)) \/ ToolEdits \/ ToolSends \/ Syncs \/ QuietGate \/ UNCHANGED vars
<1>1. ASSUME Alone(LoopFree /\ ATurn) PROVE QuietGate
  BY <1>1 DEF Alone, QuietGate, ATurn, WakeUngated, WakeGated, ControlTurn, EndTurn
<1>2. ASSUME Alone(ResolveStep) PROVE QuietGate
  BY <1>2 DEF Alone, QuietGate, ResolveStep, gateVars
<1>3. ASSUME Alone(Dispatch) PROVE QuietGate
  BY <1>3 DEF Alone, QuietGate, Dispatch
<1>4. ASSUME NEW L \in Toolsets, Alone(ToolsetsChange(L)) PROVE QuietGate
  BY <1>4 DEF Alone, QuietGate, ToolsetsChange
<1>5. ASSUME ACommand PROVE \E h \in Handlers : SlashStep(h)
  BY <1>5 DEF ACommand, SlashStep
<1>6. QED  BY <1>1, <1>2, <1>3, <1>4, <1>5 DEF Next

\* A command's step is nothing to the gate but a change of files.
LEMMA NextOfGate == ASSUME [Next]_vars PROVE GateNext \/ Beside
<1>1. ASSUME NEW h \in Handlers, SlashStep(h) PROVE Beside
  BY <1>1 DEF SlashStep, Beside, Receive, Compile, WriteNext, WriteFails, Confirm, gateVars
<1>2. ASSUME UNCHANGED vars PROVE Beside  BY <1>2 DEF vars, Beside, gateVars
<1>3. ASSUME ToolEdits \/ ToolSends \/ Syncs \/ QuietGate PROVE GateNext
  BY <1>3 DEF ToolEdits, ToolSends, Syncs, QuietGate, GateNext
<1>4. QED  BY <1>1, <1>2, <1>3, NextIs

TurnsOK == turns \in [Turns -> TurnType]

LEMMA EditDone ==
  ASSUME FilesOK, CommandsOK, ToolEdits
  PROVE  /\ FilesOK' /\ CommandsOK' /\ AllGoOn /\ UNCHANGED <<server, pending, toolsets, writeFaults>> /\ echo' = None
         /\ \E t \in Turns, section \in Sections :
              /\ \E value : stores' = [stores EXCEPT ![section] = {value}]
              /\ turns' = [turns EXCEPT ![t].unsent = {section}] /\ turns[t].unsent = {}
<1>1. AnEdit /\ AllDisturbed /\ echo' = None /\ writeFaults' = writeFaults  BY DEF ToolEdits
<1>2. PICK t \in Turns, section \in Sections : \E value : Edit(t, section, value)  BY <1>1, AnEditWrites
<1>3. /\ \E value : stores' = [stores EXCEPT ![section] = {value}]
      /\ turns' = [turns EXCEPT ![t].unsent = {section}] /\ turns[t].unsent = {}
      /\ UNCHANGED <<server, pending, toolsets>>
  BY <1>2 DEF Edit
<1>4. CommandsOK' /\ AllGoOn  BY <1>1, AllGoesOn
<1>5. FilesOK'  BY <1>1, AnEditKeeps
<1>6. QED  BY <1>1, <1>3, <1>4, <1>5

LEMMA SendDone ==
  ASSUME FilesOK, CommandsOK, ToolSends
  PROVE  /\ FilesOK' /\ CommandsOK' /\ AllGoOn /\ UNCHANGED <<toolsets, echo, writeFaults>>
         /\ \E t \in Turns :
              /\ turns[t].unsent # {} /\ WriteBack(turns[t].unsent)
              /\ turns' = [turns EXCEPT ![t].unsent = {}]
<1>1. ASend /\ AllDisturbed /\ UNCHANGED <<echo, writeFaults>>  BY DEF ToolSends
<1>2. PICK t \in Turns : SendEdit(t)  BY <1>1 DEF ASend
<1>3. /\ turns[t].unsent # {} /\ WriteBack(turns[t].unsent) /\ turns' = [turns EXCEPT ![t].unsent = {}]
      /\ toolsets' = toolsets
  BY <1>2 DEF SendEdit
<1>4. CommandsOK' /\ AllGoOn /\ FilesOK'  BY <1>1, AllGoesOn, SendKeeps
<1>5. QED  BY <1>1, <1>3, <1>4

LEMMA SyncDone ==
  ASSUME FilesOK, CommandsOK, Syncs
  PROVE  /\ FilesOK' /\ CommandsOK' /\ AllGoOn /\ UNCHANGED <<turns, toolsets, writeFaults>>
         /\ WriteBack({}) \/ (stores' = Laid({}) /\ UNCHANGED <<server, pending>>)
         /\ echo' = echo \/ echo' = None
         /\ echo' # None => \A s \in pending : stores'[s] = stores[s]
<1>1. Sync /\ AllDisturbed /\ writeFaults' = writeFaults
      /\ echo' = IF \E s \in pending : stores'[s] # stores[s] THEN None ELSE echo
  BY DEF Syncs
<1>2. UNCHANGED <<turns, toolsets>> /\ (WriteBack({}) \/ (stores' = Laid({}) /\ UNCHANGED <<server, pending>>))
  BY <1>1 DEF Sync
<1>3. CommandsOK' /\ AllGoOn /\ FilesOK'  BY <1>1, AllGoesOn, SyncKeeps
<1>4. QED  BY <1>1, <1>2, <1>3

LEMMA QuietDone ==
  ASSUME FilesOK, CommandsOK, TurnsOK, QuietGate \/ UNCHANGED vars
  PROVE  /\ FilesOK' /\ CommandsOK' /\ AllGoOn /\ UNCHANGED <<config, echo, writeFaults>>
         /\ \A t \in Turns : turns'[t].unsent = turns[t].unsent
<1>1. UNCHANGED <<config, handling, echo, writeFaults>>
  BY DEF QuietGate, vars, gateVars, slashVars
<1>2. CommandsOK' /\ AllGoOn  BY <1>1, StillGoesOn DEF config
<1>3. FilesOK'
  <2>1. CASE QuietGate  BY <2>1, FilesStep DEF QuietGate, GateNext
  <2>2. CASE UNCHANGED vars  BY <2>2, FilesUnchanged DEF vars, gateVars, config
  <2>3. QED  BY <2>1, <2>2
<1>5. ASSUME NEW t \in Turns, NEW turn, turn.unsent = {}, turns[t].unsent = {}, turns' = [turns EXCEPT ![t] = turn]
      PROVE  \A u \in Turns : turns'[u].unsent = turns[u].unsent
  BY <1>5 DEF TurnsOK
<1>6. NoTurn.unsent = {} /\ \A zone, promised : StartedTurn(zone, promised).unsent = {}  BY DEF NoTurn, StartedTurn
<1>7. ASSUME NEW t \in Turns, NEW zone, NEW promised, StartTurn(t, StartedTurn(zone, promised))
      PROVE  \A u \in Turns : turns'[u].unsent = turns[u].unsent
  BY <1>5, <1>6, <1>7 DEF StartTurn
<1>8. ASSUME ATurn PROVE \A u \in Turns : turns'[u].unsent = turns[u].unsent
  <2>1. PICK t \in Turns : WakeUngated(t) \/ (\E r \in Rooms : WakeGated(t, r)) \/ ControlTurn(t) \/ EndTurn(t)
    BY <1>8 DEF ATurn
  <2>2. CASE EndTurn(t)  BY <1>5, <1>6, <2>2 DEF EndTurn
  <2>3. CASE WakeUngated(t)  BY <1>7, <2>3 DEF WakeUngated
  <2>4. CASE \E r \in Rooms : WakeGated(t, r)  BY <1>7, <2>4 DEF WakeGated
  <2>5. CASE ControlTurn(t)  BY <1>7, <2>5 DEF ControlTurn
  <2>6. QED  BY <2>1, <2>2, <2>3, <2>4, <2>5
<1>9. ASSUME Dispatch PROVE \A u \in Turns : turns'[u].unsent = turns[u].unsent
  <2>1. turns' = [turns EXCEPT ![waking].caps = allowed]  BY <1>9 DEF Dispatch
  <2>2. \A u \in Turns : turns'[u] = IF u = waking THEN [turns[u] EXCEPT !.caps = allowed] ELSE turns[u]
    BY <2>1 DEF TurnsOK
  <2>3. \A u \in Turns : turns[u] \in TurnType  BY DEF TurnsOK
  <2>5. \A u \in Turns : [turns[u] EXCEPT !.caps = allowed].unsent = turns[u].unsent  BY <2>3 DEF TurnType
  <2>4. QED  BY <2>2, <2>5
<1>10. ASSUME turns' = turns PROVE \A t \in Turns : turns'[t].unsent = turns[t].unsent  BY <1>10
<1>11. QED
  BY <1>1, <1>2, <1>3, <1>8, <1>9, <1>10 DEF QuietGate, ResolveStep, ToolsetsChange, vars, gateVars

LEMMA CommandStep == ASSUME FilesOK, CommandsOK, [Next]_vars PROVE FilesOK' /\ CommandsOK'
<1>1. ASSUME NEW h \in Handlers, NEW m \in Messages, Receive(m, h) PROVE FilesOK' /\ CommandsOK'
  BY <1>1, ReceiveDone, FilesUnchanged DEF config
<1>2. ASSUME NEW h \in Handlers, NEW chans, Compile(h, chans) PROVE FilesOK' /\ CommandsOK'
  BY <1>2, CompileDone, FilesUnchanged DEF config
<1>3. CASE QuietGate \/ UNCHANGED vars
  <2>1. UNCHANGED <<config, handling>>  BY <1>3 DEF QuietGate, vars, gateVars, slashVars
  <2>2. CommandsOK'  BY <2>1, StillGoesOn DEF config
  <2>3. CASE QuietGate  BY <2>2, <2>3, FilesStep DEF QuietGate, GateNext
  <2>4. CASE UNCHANGED vars  BY <2>2, <2>4, FilesUnchanged DEF vars, gateVars, config
  <2>5. QED  BY <1>3, <2>3, <2>4
<1>4. QED
  BY <1>1, <1>2, <1>3, NextIs, WriteDone, FailDone, ConfirmDone, EditDone, SendDone, SyncDone DEF SlashStep

-----------------------------------------------------------------------------
(* What has not been pushed yet.                                           *)

Owed == Owing(Handlers)

LEMMA OwingIs ==
  ASSUME NEW H, NEW s
  PROVE  /\ s \in Owing(H) <=> \/ \E g \in H : handling[g].phase = "writing" /\ s \in handling[g].sections
                               \/ \E t \in Turns : s \in turns[t].unsent
         /\ s \in Owing(H)' <=> \/ \E g \in H : handling'[g].phase = "writing" /\ s \in handling'[g].sections
                                \/ \E t \in Turns : s \in turns'[t].unsent
<1>1. \A W : s \in UNION {handling[h].sections : h \in W} <=> \E h \in W : s \in handling[h].sections
  <2>1. ASSUME NEW W, s \in UNION {handling[h].sections : h \in W} PROVE \E h \in W : s \in handling[h].sections
    <3>1. PICK X \in {handling[h].sections : h \in W} : s \in X  BY <2>1
    <3>2. QED  BY <3>1
  <2>2. ASSUME NEW W, NEW h \in W, s \in handling[h].sections PROVE s \in UNION {handling[x].sections : x \in W}
    <3>1. handling[h].sections \in {handling[x].sections : x \in W}  OBVIOUS
    <3>2. QED  BY <2>2, <3>1
  <2>3. QED  BY <2>1, <2>2
<1>2. \A W : s \in UNION {handling'[h].sections : h \in W} <=> \E h \in W : s \in handling'[h].sections
  <2>1. ASSUME NEW W, s \in UNION {handling'[h].sections : h \in W} PROVE \E h \in W : s \in handling'[h].sections
    <3>1. PICK X \in {handling'[h].sections : h \in W} : s \in X  BY <2>1
    <3>2. QED  BY <3>1
  <2>2. ASSUME NEW W, NEW h \in W, s \in handling'[h].sections PROVE s \in UNION {handling'[x].sections : x \in W}
    <3>1. handling'[h].sections \in {handling'[x].sections : x \in W}  OBVIOUS
    <3>2. QED  BY <2>2, <3>1
  <2>3. QED  BY <2>1, <2>2
<1>3. \A W : s \in UNION {turns[t].unsent : t \in W} <=> \E t \in W : s \in turns[t].unsent
  <2>1. ASSUME NEW W, s \in UNION {turns[t].unsent : t \in W} PROVE \E t \in W : s \in turns[t].unsent
    <3>1. PICK X \in {turns[t].unsent : t \in W} : s \in X  BY <2>1
    <3>2. QED  BY <3>1
  <2>2. ASSUME NEW W, NEW t \in W, s \in turns[t].unsent PROVE s \in UNION {turns[x].unsent : x \in W}
    <3>1. turns[t].unsent \in {turns[x].unsent : x \in W}  OBVIOUS
    <3>2. QED  BY <2>2, <3>1
  <2>3. QED  BY <2>1, <2>2
<1>4. \A W : s \in UNION {turns'[t].unsent : t \in W} <=> \E t \in W : s \in turns'[t].unsent
  <2>1. ASSUME NEW W, s \in UNION {turns'[t].unsent : t \in W} PROVE \E t \in W : s \in turns'[t].unsent
    <3>1. PICK X \in {turns'[t].unsent : t \in W} : s \in X  BY <2>1
    <3>2. QED  BY <3>1
  <2>2. ASSUME NEW W, NEW t \in W, s \in turns'[t].unsent PROVE s \in UNION {turns'[x].unsent : x \in W}
    <3>1. turns'[t].unsent \in {turns'[x].unsent : x \in W}  OBVIOUS
    <3>2. QED  BY <2>2, <3>1
  <2>3. QED  BY <2>1, <2>2
<1>. DEFINE W == {g \in H : handling[g].phase = "writing"}
            V == {g \in H : handling'[g].phase = "writing"}
<1>5. s \in Owing(H) <=>
        s \in UNION {handling[h].sections : h \in W} \/ s \in UNION {turns[t].unsent : t \in Turns}
  BY DEF Owing, Writing
<1>9. s \in Owing(H)' <=>
        s \in UNION {handling'[h].sections : h \in V} \/ s \in UNION {turns'[t].unsent : t \in Turns}
  BY DEF Owing, Writing
<1>6. s \in Owing(H) <=> (\E h \in W : s \in handling[h].sections) \/ \E t \in Turns : s \in turns[t].unsent
  <2>1. s \in UNION {handling[h].sections : h \in W} <=> \E h \in W : s \in handling[h].sections  BY <1>1
  <2>2. s \in UNION {turns[t].unsent : t \in Turns} <=> \E t \in Turns : s \in turns[t].unsent  BY <1>3
  <2>3. QED  BY <1>5, <2>1, <2>2
<1>7. s \in Owing(H)' <=> (\E h \in V : s \in handling'[h].sections) \/ \E t \in Turns : s \in turns'[t].unsent
  <2>1. s \in UNION {handling'[h].sections : h \in V} <=> \E h \in V : s \in handling'[h].sections  BY <1>2
  <2>2. s \in UNION {turns'[t].unsent : t \in Turns} <=> \E t \in Turns : s \in turns'[t].unsent  BY <1>4
  <2>3. QED  BY <1>9, <2>1, <2>2
<1>8. QED  BY <1>6, <1>7

\* A step of nobody, or of a command that has nothing of its own to push.
LEMMA OwedStill ==
  ASSUME AllGoOn, \A t \in Turns : turns'[t].unsent = turns[t].unsent
  PROVE  Owed' = Owed
<1>1. \A g \in Handlers : handling'[g].phase = handling[g].phase /\
                          (handling[g].phase = "writing" => handling'[g].sections = handling[g].sections)
  BY DEF AllGoOn, GoesOn
<1>2. \A s : s \in Owing(Handlers)' <=> s \in Owing(Handlers)  BY <1>1, OwingIs
<1>3. QED  BY <1>2 DEF Owed

LEMMA OwedOwn ==
  ASSUME NEW h \in Handlers, OthersGoOn(h), UNCHANGED turns
  PROVE  /\ handling[h].phase = "writing" =>
              Owed = Owing(Handlers \ {h}) \cup handling[h].sections
         /\ handling[h].phase # "writing" => Owed = Owing(Handlers \ {h})
         /\ handling'[h].phase = "writing" =>
              Owed' = Owing(Handlers \ {h}) \cup handling'[h].sections
         /\ handling'[h].phase # "writing" => Owed' = Owing(Handlers \ {h})
<1>. DEFINE rest == Owing(Handlers \ {h})
<1>1. \A g \in Handlers \ {h} : handling'[g].phase = handling[g].phase /\
                          (handling[g].phase = "writing" => handling'[g].sections = handling[g].sections)
  BY DEF OthersGoOn, GoesOn
<1>2. \A s : s \in rest' <=> s \in rest  BY <1>1, OwingIs
<1>3. \A s : s \in Owed <=> s \in rest \/ (handling[h].phase = "writing" /\ s \in handling[h].sections)
  BY OwingIs DEF Owed
<1>4. \A s : s \in Owed' <=> s \in rest' \/ (handling'[h].phase = "writing" /\ s \in handling'[h].sections)
  <2>1. \A s : s \in Owing(Handlers)' <=>
               \/ \E g \in Handlers : handling'[g].phase = "writing" /\ s \in handling'[g].sections
               \/ \E t \in Turns : s \in turns'[t].unsent
    BY OwingIs
  <2>2. \A s : s \in rest' <=>
               \/ \E g \in Handlers \ {h} : handling'[g].phase = "writing" /\ s \in handling'[g].sections
               \/ \E t \in Turns : s \in turns'[t].unsent
    BY OwingIs
  <2>3. QED  BY <2>1, <2>2 DEF Owed
<1>. HIDE DEF rest
<1>5. rest' = rest  BY <1>2
<1>6. /\ handling[h].phase = "writing" => Owed = rest \cup handling[h].sections
      /\ handling[h].phase # "writing" => Owed = rest
  BY <1>3
<1>7. /\ handling'[h].phase = "writing" => Owed' = rest \cup handling'[h].sections
      /\ handling'[h].phase # "writing" => Owed' = rest
  BY <1>4, <1>5
<1>8. QED  BY <1>6, <1>7 DEF rest

LEMMA OwedByTurn ==
  ASSUME TurnsOK, AllGoOn, NEW t \in Turns, NEW S, turns' = [turns EXCEPT ![t].unsent = S]
  PROVE  Owed' \subseteq Owed \cup S /\ Owed \subseteq Owed' \cup turns[t].unsent /\ S \subseteq Owed'
         /\ turns[t].unsent \subseteq Owed
<1>1. \A g \in Handlers : handling'[g].phase = handling[g].phase /\
                          (handling[g].phase = "writing" => handling'[g].sections = handling[g].sections)
  BY DEF AllGoOn, GoesOn
<1>2. turns[t] = [zone |-> turns[t].zone, caps |-> turns[t].caps,
                  promised |-> turns[t].promised, unsent |-> turns[t].unsent]
  BY DEF TurnsOK, TurnType
<1>3. turns'[t].unsent = S /\ \A u \in Turns : u # t => turns'[u] = turns[u]  BY <1>2 DEF TurnsOK
<1>4. \A s : s \in Owing(Handlers)' => s \in Owing(Handlers) \/ s \in S  BY <1>1, <1>3, OwingIs
<1>5. \A s : s \in Owing(Handlers) => s \in Owing(Handlers)' \/ s \in turns[t].unsent  BY <1>1, <1>3, OwingIs
<1>6. \A s : (s \in S => s \in Owing(Handlers)') /\ (s \in turns[t].unsent => s \in Owing(Handlers))
  BY <1>3, OwingIs
<1>7. QED  BY <1>4, <1>5, <1>6 DEF Owed

-----------------------------------------------------------------------------
(* What is not at the server is to be pushed.                              *)

LEMMA PushIs ==
  ASSUME FilesOK, NEW S, WriteBack(S)
  PROVE  \/ /\ pending' = {}
            /\ \A s \in Sections :
                 /\ s \in S \cup pending => server'[s] = stores[s] /\ stores'[s] = stores[s]
                 /\ s \notin S \cup pending =>
                      server'[s] = server[s] /\ stores'[s] = (IF server[s] = {} THEN stores[s] ELSE server[s])
         \/ pending' = S \cup pending /\ UNCHANGED <<stores, server>>
<1>1. CASE pending' = S \cup pending /\ UNCHANGED <<stores, server, synced>>  BY <1>1
<1>2. CASE /\ server' = [s \in Sections |-> IF s \in S \cup pending THEN stores[s] ELSE server[s]]
           /\ stores' = Laid(S \cup pending) /\ pending' = {}
  <2>1. \A s \in Sections : server'[s] = IF s \in S \cup pending THEN stores[s] ELSE server[s]  BY <1>2
  <2>2. \A s \in Sections : stores'[s] = IF s \in S \cup pending \/ server[s] = {} THEN stores[s] ELSE server[s]
    BY <1>2, LaidIs
  <2>3. QED  BY <1>2, <2>1, <2>2
<1>3. QED  BY <1>1, <1>2 DEF WriteBack

LEMMA FetchIs ==
  ASSUME FilesOK, stores' = Laid({}) PROVE
         \A s \in Sections : stores'[s] = IF server[s] = {} THEN stores[s] ELSE server[s]
<1>1. \A s \in Sections : Laid({})[s] = IF s \in {} \/ server[s] = {} THEN stores[s] ELSE server[s]  BY LaidIs
<1>2. QED  BY <1>1

\* A file is as the server has it, or is to be pushed, or holds a null that is not.
Alike(s) ==
  \/ stores[s] = server[s] \/ s \in pending \cup Owed
  \/ s = "capability_policy" /\ Blanked

Mirrored == writeFaults \in Nat /\ (writeFaults = 0 => \A s \in Sections : Alike(s))

LEMMA PushMirrors ==
  ASSUME FilesOK, NEW S, WriteBack(S), Owed \subseteq Owed' \cup S, NEW s \in Sections, Alike(s)
  PROVE  Alike(s)'
<1>1. CASE pending' = S \cup pending /\ UNCHANGED <<stores, server>>
  BY <1>1 DEF Alike, Blanked
<1>2. CASE /\ pending' = {}
           /\ s \in S \cup pending => server'[s] = stores[s] /\ stores'[s] = stores[s]
           /\ s \notin S \cup pending =>
                server'[s] = server[s] /\ stores'[s] = (IF server[s] = {} THEN stores[s] ELSE server[s])
  <2>1. CASE s \in S \cup pending  BY <1>2, <2>1 DEF Alike
  <2>2. CASE s \notin S \cup pending /\ server[s] # {}  BY <1>2, <2>2 DEF Alike
  <2>3. CASE s \notin S \cup pending /\ server[s] = {}
    <3>1. stores'[s] = stores[s] /\ server'[s] = server[s]  BY <1>2, <2>3
    <3>2. stores[s] = server[s] \/ s \in Owed  BY <2>3 DEF Alike, Blanked
    <3>3. s \in Owed => s \in Owed'  BY <2>3
    <3>4. QED  BY <3>1, <3>2, <3>3 DEF Alike
  <2>4. QED  BY <2>1, <2>2, <2>3
<1>3. QED  BY <1>1, <1>2, PushIs

LEMMA StillAlike ==
  ASSUME UNCHANGED <<stores, server, pending>>, Owed \subseteq Owed', NEW s \in Sections, Alike(s)
  PROVE  Alike(s)'
  BY DEF Alike, Blanked

LEMMA MirroredStep ==
  ASSUME FilesOK, CommandsOK, TurnsOK, Mirrored, [Next]_vars PROVE Mirrored'
<1>1. ASSUME NEW h \in Handlers, NEW m \in Messages, Receive(m, h) PROVE Mirrored'
  <2>0. /\ OthersGoOn(h) /\ UNCHANGED turns
        /\ handling[h].phase # "writing" /\ handling'[h].phase # "writing"
    BY <1>1, ReceiveDone
  <2>1. Owed' = Owed  BY <2>0, OwedOwn
  <2>2. UNCHANGED <<stores, server, pending, writeFaults>>  BY <1>1, ReceiveDone DEF config
  <2>3. QED  BY <2>1, <2>2, StillAlike DEF Mirrored
<1>2. ASSUME NEW h \in Handlers, NEW chans, Compile(h, chans) PROVE Mirrored'
  <2>1. Owed \subseteq Owed'  BY <1>2, CompileDone, OwedOwn
  <2>2. UNCHANGED <<stores, server, pending, writeFaults>>  BY <1>2, CompileDone DEF config
  <2>3. QED  BY <2>1, <2>2, StillAlike DEF Mirrored
<1>3. ASSUME NEW h \in Handlers, WriteNext(h) PROVE Mirrored'
  <2>. DEFINE c == handling[h]
              w == Head(c.writes)
              d == [phase |-> "writing", result |-> c.result, writes |-> Tail(c.writes), sections |-> c.sections,
                    wipes |-> c.wipes, undisturbed |-> c.undisturbed]
  <2>1. /\ OthersGoOn(h) /\ UNCHANGED <<server, pending, turns, writeFaults>>
        /\ c.phase = "writing" /\ c.writes # <<>> /\ WritesOK(c.writes)
        /\ stores' = [stores EXCEPT ![w.section] = w.holds] /\ handling'[h] = d
    BY <1>3, WriteDone
  <2>2. d.phase = "writing" /\ d.sections = c.sections  OBVIOUS
  <2>. HIDE DEF d
  <2>3. Owed' = Owing(Handlers \ {h}) \cup c.sections /\ Owed = Owing(Handlers \ {h}) \cup c.sections
    BY <2>1, <2>2, OwedOwn
  <2>4. WriteOK(w) /\ w \in Range(c.writes)  BY <2>1, NextWrite
  <2>5. Stated(c.writes) \subseteq c.sections  BY <2>1 DEF CommandsOK, CommandOK
  <2>6. DOMAIN stores = Sections  BY DocsDomain DEF FilesOK
  <2>. HIDE DEF w
  <2>7. \A s \in Sections : stores'[s] = IF s = w.section THEN w.holds ELSE stores[s]  BY <2>1, <2>6
  <2>8. w.holds # {} => w.section \in Owed'  BY <2>3, <2>4, <2>5 DEF Stated
  <2>9. ASSUME NEW s \in Sections, Alike(s) PROVE Alike(s)'
    <3>1. CASE s # w.section
      <4>1. stores'[s] = stores[s] /\ server'[s] = server[s] /\ pending' = pending /\ Owed' = Owed
        BY <2>1, <2>3, <2>7, <3>1
      <4>2. s = "capability_policy" => Blanked' = Blanked  BY <4>1 DEF Blanked
      <4>3. QED  BY <2>9, <4>1, <4>2 DEF Alike
    <3>2. CASE s = w.section /\ w.holds # {}  BY <2>8, <3>2 DEF Alike
    <3>3. CASE s = w.section /\ w.holds = {}
      <4>1. s = "capability_policy" /\ stores'[s] = {} /\ server'[s] = server[s]
        BY <2>1, <2>4, <2>7, <3>3 DEF WriteOK
      <4>2. QED  BY <4>1 DEF Alike, Blanked
    <3>4. QED  BY <3>1, <3>2, <3>3
  <2>10. QED  BY <2>1, <2>9 DEF Mirrored
<1>4. ASSUME NEW h \in Handlers, WriteFails(h) PROVE Mirrored'
  <2>1. writeFaults' = writeFaults + 1  BY <1>4, FailDone
  <2>2. QED  BY <2>1 DEF Mirrored
<1>5. ASSUME NEW h \in Handlers, Confirm(h) PROVE Mirrored'
  <2>1. /\ OthersGoOn(h) /\ UNCHANGED <<turns, writeFaults>> /\ handling[h].phase = "writing"
        /\ handling'[h] = NoCommand
        /\ (handling[h].sections = {} /\ UNCHANGED config) \/ WriteBack(handling[h].sections)
    BY <1>5, ConfirmDone
  <2>2. Owed = Owing(Handlers \ {h}) \cup handling[h].sections /\ Owed' = Owing(Handlers \ {h})
    BY <2>1, OwedOwn, IdleOK
  <2>3. CASE handling[h].sections = {} /\ UNCHANGED config
    BY <2>1, <2>2, <2>3, StillAlike DEF Mirrored, config
  <2>4. CASE WriteBack(handling[h].sections)
    BY <2>1, <2>2, <2>4, PushMirrors DEF Mirrored
  <2>5. QED  BY <2>1, <2>3, <2>4
<1>6. CASE ToolEdits
  <2>1. PICK t \in Turns, section \in Sections :
          /\ \E value : stores' = [stores EXCEPT ![section] = {value}]
          /\ turns' = [turns EXCEPT ![t].unsent = {section}] /\ turns[t].unsent = {}
    BY <1>6, EditDone
  <2>2. AllGoOn /\ UNCHANGED <<server, pending, writeFaults>>  BY <1>6, EditDone
  <2>3. Owed \subseteq Owed' /\ section \in Owed'  BY <2>1, <2>2, OwedByTurn
  <2>4. DOMAIN stores = Sections  BY DocsDomain DEF FilesOK
  <2>5. \A s \in Sections \ {section} : stores'[s] = stores[s]  BY <2>1, <2>4
  <2>6. ASSUME NEW s \in Sections, Alike(s) PROVE Alike(s)'
    <3>1. CASE s = section  BY <2>3, <3>1 DEF Alike
    <3>2. CASE s # section
      <4>1. stores'[s] = stores[s]  BY <2>5, <3>2
      <4>2. s = "capability_policy" => Blanked' = Blanked  BY <2>2, <4>1 DEF Blanked
      <4>3. QED  BY <2>2, <2>3, <2>6, <4>1, <4>2 DEF Alike
    <3>3. QED  BY <3>1, <3>2
  <2>7. QED  BY <2>2, <2>6 DEF Mirrored
<1>7. CASE ToolSends
  <2>1. PICK t \in Turns : WriteBack(turns[t].unsent) /\ turns' = [turns EXCEPT ![t].unsent = {}]
    BY <1>7, SendDone
  <2>2. AllGoOn /\ writeFaults' = writeFaults  BY <1>7, SendDone
  <2>3. Owed \subseteq Owed' \cup turns[t].unsent  BY <2>1, <2>2, OwedByTurn
  <2>4. QED  BY <2>1, <2>2, <2>3, PushMirrors DEF Mirrored
<1>8. CASE Syncs
  <2>1. /\ AllGoOn /\ UNCHANGED <<turns, writeFaults>>
        /\ WriteBack({}) \/ (stores' = Laid({}) /\ UNCHANGED <<server, pending>>)
    BY <1>8, SyncDone
  <2>2. Owed' = Owed  BY <2>1, OwedStill
  <2>3. CASE WriteBack({})  BY <2>1, <2>2, <2>3, PushMirrors DEF Mirrored
  <2>4. CASE stores' = Laid({}) /\ UNCHANGED <<server, pending>>
    <3>1. ASSUME NEW s \in Sections, Alike(s) PROVE Alike(s)'
      <4>1. stores'[s] = IF server[s] = {} THEN stores[s] ELSE server[s]  BY <2>4, FetchIs
      <4>2. CASE server[s] # {}  BY <2>4, <4>1, <4>2 DEF Alike
      <4>3. CASE server[s] = {}
        <5>1. stores'[s] = stores[s] /\ server'[s] = server[s] /\ pending' = pending  BY <2>4, <4>1, <4>3
        <5>2. stores[s] = server[s] \/ s \in pending \cup Owed  BY <3>1, <4>3 DEF Alike, Blanked
        <5>3. QED  BY <2>2, <5>1, <5>2 DEF Alike
      <4>4. QED  BY <4>2, <4>3
    <3>2. QED  BY <2>1, <3>1 DEF Mirrored
  <2>5. QED  BY <2>1, <2>3, <2>4
<1>9. CASE QuietGate \/ UNCHANGED vars
  <2>1. UNCHANGED <<stores, server, pending, writeFaults>> /\ Owed' = Owed
    BY <1>9, QuietDone, OwedStill DEF config
  <2>2. QED  BY <2>1, StillAlike DEF Mirrored
<1>10. QED
  BY <1>1, <1>2, <1>3, <1>4, <1>5, <1>6, <1>7, <1>8, <1>9, NextIs DEF SlashStep

LEMMA MirroredIsOwed == ASSUME Mirrored PROVE StaleIsOwed
  BY DEF Mirrored, Alike, StaleIsOwed, Owed

-----------------------------------------------------------------------------
(* A change that will be told is served by what the files hold, and by what *)
(* they will hold when the server's copy is laid over them.                *)

\* What the change r asks of the object that the section s is read as.
Suits(s, value, r) ==
  /\ r.kind = "tools" /\ s = "capability_policy" =>
       IF r.verb = "grant" THEN r.target \in GrantsFor(value, r.room) ELSE r.target \notin GrantsFor(value, r.room)
  /\ r.kind = "tools" /\ s = "feature_flags" => Gate \in DOMAIN value /\ value[Gate]
  /\ r.kind = "wake" /\ s = "wake_policy" => r.room \in DOMAIN value /\ value[r.room] = r.mode
  /\ r.kind = "guidance" /\ s = "channel_instructions" =>
       IF r.text = <<>> THEN r.room \notin DOMAIN value ELSE r.room \in DOMAIN value /\ value[r.room] = r.text
  /\ r.kind = "feature" /\ s = "feature_flags" /\ r.feature \notin DefaultOn =>
       (r.feature \in DOMAIN value /\ value[r.feature]) = r.on

Fits(s, holds, r) == Suits(s, ReadAs(s, holds), r)

LEMMA FitsOne == ASSUME NEW s, NEW value, NEW r, Suits(s, value, r) PROVE Fits(s, {value}, r)
  BY ReadOne DEF Fits

\* So it does, but for a null of its own over the policy.
Serves(s, holds, r, wiped) ==
  Fits(s, holds, r) \/ (wiped /\ s = "capability_policy" /\ holds = {})

\* What a file will hold once the server's copy is laid over those that nobody pushes.
Coming(s) ==
  IF s \in pending \cup Owed \/ server[s] = {} THEN stores[s] ELSE server[s]

ServedBy(s, r, wiped) == Serves(s, stores[s], r, wiped) /\ Serves(s, Coming(s), r, wiped)

\* Whatever a command has still to write serves its change, the rest does already,
\* and a null it counts for nothing finds nothing there.
Ready(r, ws, wiped) ==
  /\ r.kind \in Changes
  /\ \A w \in Range(ws) : w.holds # {} => Fits(w.section, w.holds, r)
  /\ \A w \in Range(ws) : w.holds = {} => wiped \/ stores[w.section] = {}
  /\ \A s \in Sections : s \in Stated(ws) \/ ServedBy(s, r, wiped)

Undisturbed(h) == handling[h].phase = "writing" /\ handling[h].undisturbed

Keeps ==
  writeFaults = 0 =>
    \A h \in Handlers : Undisturbed(h) => Ready(handling[h].result, handling[h].writes, handling[h].wipes)

Told ==
  echo # None =>
    /\ Owed = {} /\ \A h \in Handlers : handling[h].phase = "writing" => handling[h].writes = <<>>
    /\ writeFaults = 0 => /\ echo.change.kind \in Changes
                          /\ \A s \in Sections : ServedBy(s, echo.change, echo.wiped)

\* A push leaves a file what it was, or what was coming, and so does what comes after
\* it; except where it lays the server's copy over what others have still to push.
LEMMA PushBrings ==
  ASSUME FilesOK, NEW S, WriteBack(S), Owed \subseteq Owed' \cup S,
         NEW s \in Sections, stores'[s] = stores[s] \/ s \notin Owed \ S
  PROVE  stores'[s] \in {stores[s], Coming(s)} /\ Coming(s)' \in {stores[s], Coming(s)}
<1>1. CASE pending' = S \cup pending /\ UNCHANGED <<stores, server>>
  BY <1>1 DEF Coming
<1>2. CASE /\ pending' = {}
           /\ s \in S \cup pending => server'[s] = stores[s] /\ stores'[s] = stores[s]
           /\ s \notin S \cup pending =>
                server'[s] = server[s] /\ stores'[s] = (IF server[s] = {} THEN stores[s] ELSE server[s])
  <2>1. CASE s \in S \cup pending  BY <1>2, <2>1 DEF Coming
  <2>2. CASE s \notin S \cup pending /\ server[s] = {}  BY <1>2, <2>2 DEF Coming
  <2>3. CASE s \notin S \cup pending /\ server[s] # {}
    <3>1. server'[s] = server[s] /\ stores'[s] = server[s]  BY <1>2, <2>3
    <3>2. stores'[s] = stores[s] \/ s \notin Owed  BY <2>3
    <3>3. stores'[s] \in {stores[s], Coming(s)}  BY <2>3, <3>1, <3>2 DEF Coming
    <3>4. Coming(s)' = stores'[s]  BY <3>1 DEF Coming
    <3>5. QED  BY <3>3, <3>4
  <2>4. QED  BY <2>1, <2>2, <2>3
<1>3. QED  BY <1>1, <1>2, PushIs

\* A sync's fetch, likewise.
LEMMA FetchBrings ==
  ASSUME FilesOK, stores' = Laid({}), UNCHANGED <<server, pending>>, Owed' = Owed,
         NEW s \in Sections, stores'[s] = stores[s] \/ s \notin pending \cup Owed
  PROVE  stores'[s] \in {stores[s], Coming(s)} /\ Coming(s)' \in {stores[s], Coming(s)}
<1>1. stores'[s] = IF server[s] = {} THEN stores[s] ELSE server[s]  BY FetchIs
<1>2. stores'[s] \in {stores[s], Coming(s)}  BY <1>1 DEF Coming
<1>3. Coming(s)' = IF s \in pending \cup Owed \/ server[s] = {} THEN stores'[s] ELSE server[s]
  BY DEF Coming
<1>4. QED  BY <1>1, <1>2, <1>3 DEF Coming

\* More to push brings nothing that is not there.
LEMMA MoreOwedBrings ==
  ASSUME UNCHANGED <<server, pending>>, Owed \subseteq Owed', NEW s \in Sections, stores'[s] = stores[s]
  PROVE  Coming(s)' \in {stores[s], Coming(s)}
  BY DEF Coming

LEMMA ServedStill ==
  ASSUME NEW s, NEW r, NEW wiped, ServedBy(s, r, wiped),
         stores'[s] \in {stores[s], Coming(s)}, Coming(s)' \in {stores[s], Coming(s)}
  PROVE  ServedBy(s, r, wiped)'
<1>1. Serves(s, stores'[s], r, wiped) /\ Serves(s, Coming(s)', r, wiped)  BY DEF ServedBy
<1>2. QED  BY <1>1 DEF ServedBy, Serves, Fits, Suits, ReadAs, Blank, GrantsFor

\* A command goes on, or compiles, or writes, or is not writing then.
LEMMA OneAtATime ==
  ASSUME FilesOK, CommandsOK, TurnsOK, [Next]_vars, NEW g \in Handlers
  PROVE  \/ GoesOn(g) \/ (\E chans : Compile(g, chans)) \/ WriteNext(g) \/ handling'[g].phase # "writing"
<1>1. ASSUME NEW h \in Handlers, OthersGoOn(h), g # h PROVE GoesOn(g)  BY <1>1 DEF OthersGoOn
<1>2. ASSUME AllGoOn PROVE GoesOn(g)  BY <1>2 DEF AllGoOn
<1>3. ASSUME NEW h \in Handlers, SlashStep(h)
      PROVE  \/ GoesOn(g) \/ (\E chans : Compile(g, chans)) \/ WriteNext(g) \/ handling'[g].phase # "writing"
  <2>1. OthersGoOn(h)
    BY <1>3, ReceiveDone, CompileDone, WriteDone, FailDone, ConfirmDone DEF SlashStep
  <2>2. CASE g # h  BY <1>1, <2>1, <2>2
  <2>3. CASE g = h
    BY <1>3, <2>3, ReceiveDone, FailDone, ConfirmDone, IdleOK DEF SlashStep
  <2>4. QED  BY <2>2, <2>3
<1>4. CASE ToolEdits \/ ToolSends \/ Syncs \/ QuietGate \/ UNCHANGED vars
  BY <1>2, <1>4, EditDone, SendDone, SyncDone, QuietDone
<1>5. QED  BY <1>3, <1>4, NextIs

\* Where no file changes, what is coming was there or was coming, whoever pushes.
LEMMA StepBrings ==
  ASSUME FilesOK, CommandsOK, TurnsOK, [Next]_vars, writeFaults \in Nat, writeFaults' = 0, stores' = stores,
         NEW s \in Sections
  PROVE  Coming(s)' \in {stores[s], Coming(s)}
<1>1. ASSUME NEW h \in Handlers, NEW m \in Messages, Receive(m, h) PROVE Coming(s)' \in {stores[s], Coming(s)}
  <2>1. /\ OthersGoOn(h) /\ UNCHANGED turns
        /\ handling[h].phase # "writing" /\ handling'[h].phase # "writing"
    BY <1>1, ReceiveDone
  <2>2. Owed' = Owed  BY <2>1, OwedOwn
  <2>3. UNCHANGED <<server, pending>>  BY <1>1, ReceiveDone DEF config
  <2>4. QED  BY <2>2, <2>3, MoreOwedBrings
<1>2. ASSUME NEW h \in Handlers, NEW chans, Compile(h, chans) PROVE Coming(s)' \in {stores[s], Coming(s)}
  <2>1. Owed \subseteq Owed'  BY <1>2, CompileDone, OwedOwn
  <2>2. UNCHANGED <<server, pending>>  BY <1>2, CompileDone DEF config
  <2>3. QED  BY <2>1, <2>2, MoreOwedBrings
<1>3. ASSUME NEW h \in Handlers, WriteNext(h) PROVE Coming(s)' \in {stores[s], Coming(s)}
  <2>0. /\ OthersGoOn(h) /\ UNCHANGED <<server, pending, turns>> /\ handling[h].phase = "writing"
        /\ handling'[h] = [phase |-> "writing", result |-> handling[h].result,
                           writes |-> Tail(handling[h].writes), sections |-> handling[h].sections,
                           wipes |-> handling[h].wipes, undisturbed |-> handling[h].undisturbed]
    BY <1>3, WriteDone
  <2>1. handling'[h].phase = "writing" /\ handling'[h].sections = handling[h].sections  BY <2>0
  <2>2. Owed' = Owed  BY <2>0, <2>1, OwedOwn
  <2>3. QED  BY <2>0, <2>2, MoreOwedBrings
<1>4. ASSUME NEW h \in Handlers, WriteFails(h) PROVE FALSE
  BY <1>4, FailDone
<1>5. ASSUME NEW h \in Handlers, Confirm(h) PROVE Coming(s)' \in {stores[s], Coming(s)}
  <2>1. /\ OthersGoOn(h) /\ UNCHANGED turns /\ handling[h].phase = "writing" /\ handling'[h] = NoCommand
        /\ (handling[h].sections = {} /\ UNCHANGED config) \/ WriteBack(handling[h].sections)
    BY <1>5, ConfirmDone
  <2>2. Owed \subseteq Owed' \cup handling[h].sections  BY <2>1, OwedOwn, IdleOK
  <2>3. CASE handling[h].sections = {} /\ UNCHANGED config
    BY <2>2, <2>3, MoreOwedBrings DEF config
  <2>4. CASE WriteBack(handling[h].sections)  BY <2>2, <2>4, PushBrings
  <2>5. QED  BY <2>1, <2>3, <2>4
<1>6. CASE ToolEdits
  <2>1. PICK t \in Turns, section \in Sections : turns' = [turns EXCEPT ![t].unsent = {section}] /\ turns[t].unsent = {}
    BY <1>6, EditDone
  <2>2. AllGoOn /\ UNCHANGED <<server, pending>>  BY <1>6, EditDone
  <2>3. Owed \subseteq Owed'  BY <2>1, <2>2, OwedByTurn
  <2>4. QED  BY <2>2, <2>3, MoreOwedBrings
<1>7. CASE ToolSends
  <2>1. PICK t \in Turns : WriteBack(turns[t].unsent) /\ turns' = [turns EXCEPT ![t].unsent = {}]
    BY <1>7, SendDone
  <2>2. AllGoOn  BY <1>7, SendDone
  <2>3. Owed \subseteq Owed' \cup turns[t].unsent  BY <2>1, <2>2, OwedByTurn
  <2>4. QED  BY <2>1, <2>3, PushBrings
<1>8. CASE Syncs
  <2>1. /\ AllGoOn /\ UNCHANGED turns
        /\ WriteBack({}) \/ (stores' = Laid({}) /\ UNCHANGED <<server, pending>>)
    BY <1>8, SyncDone
  <2>2. Owed' = Owed  BY <2>1, OwedStill
  <2>3. CASE WriteBack({})  BY <2>2, <2>3, PushBrings
  <2>4. CASE stores' = Laid({}) /\ UNCHANGED <<server, pending>>  BY <2>2, <2>4, FetchBrings
  <2>5. QED  BY <2>1, <2>3, <2>4
<1>9. CASE QuietGate \/ UNCHANGED vars
  <2>1. UNCHANGED <<server, pending>> /\ Owed' = Owed
    BY <1>9, QuietDone, OwedStill DEF config
  <2>2. QED  BY <2>1, MoreOwedBrings
<1>10. QED
  BY <1>1, <1>2, <1>3, <1>4, <1>5, <1>6, <1>7, <1>8, <1>9, NextIs DEF SlashStep

LEMMA ReadyStill ==
  ASSUME NEW r, NEW ws, NEW wiped, Ready(r, ws, wiped), stores' = stores,
         \A s \in Sections : Coming(s)' \in {stores[s], Coming(s)}
  PROVE  Ready(r, ws, wiped)'
<1>1. \A s \in Sections : ServedBy(s, r, wiped) => ServedBy(s, r, wiped)'  BY ServedStill
<1>2. \A s \in Sections : s \in Stated(ws) \/ ServedBy(s, r, wiped)'  BY <1>1 DEF Ready
<1>3. \A w \in Range(ws) : w.holds # {} => Fits(w.section, w.holds, r)'
  BY DEF Ready, Fits, Suits, ReadAs, Blank, GrantsFor
<1>4. \A w \in Range(ws) : w.holds = {} => wiped \/ stores'[w.section] = {}  BY DEF Ready
<1>5. QED  BY <1>2, <1>3, <1>4 DEF Ready, Stated

\* The policy in which one channel's list is replaced.
LEMMA RegrantIs ==
  ASSUME FilesOK, NEW r, NEW has
  PROVE  /\ GrantsFor(Regranted(r, has), r.room) = has
         /\ \A c : c # r.room => GrantsFor(Regranted(r, has), c) = GrantsFor(policy, c)
<1>1. policy = [custom |-> policy.custom, channel |-> policy.channel, default |-> policy.default]
  BY PolicyReadable DEF PolicyOK
<1>2. Regranted(r, has) =
        [custom |-> policy.custom, channel |-> With(policy.channel, r.room, has), default |-> policy.default]
  BY <1>1 DEF Regranted
<1>3. QED  BY <1>2 DEF GrantsFor, With

LEMMA WithIs == ASSUME NEW f, NEW x, NEW v PROVE x \in DOMAIN With(f, x, v) /\ With(f, x, v)[x] = v
  BY DEF With

\* What a compilation writes serves its change, and so does what it leaves alone.
LEMMA CompiledFits ==
  ASSUME FilesOK, NEW r, r.kind \in Changes, ResultOK(r, DOMAIN policy.custom)
  PROVE  /\ \A w \in Range(Compiled(r)) : w.holds # {} => Fits(w.section, w.holds, r)
         /\ \A s \in Sections : s \in Stated(Compiled(r)) \/ Fits(s, stores[s], r)
<1>. DEFINE ws == Compiled(r)
<1>0. \A s : Held(s) = ReadAs(s, stores[s])  BY DEF Held
<1>1. CASE r.kind = "tools"
  <2>1. ws = ApplyTools(r)  BY <1>1 DEF Compiled
  <2>2. \A s, holds : s \notin {"capability_policy", "feature_flags"} => Fits(s, holds, r)
    BY <1>1 DEF Fits, Suits
  <2>3. HasAfter(r) = GrantsFor(policy, r.room) => Fits("capability_policy", stores["capability_policy"], r)
    BY <1>0, <1>1 DEF Fits, Suits, HasAfter, policy
  <2>4. Fits("capability_policy", {Regranted(r, HasAfter(r))}, r)
    <3>1. ReadAs("capability_policy", {Regranted(r, HasAfter(r))}) = Regranted(r, HasAfter(r))  BY ReadOne
    <3>2. GrantsFor(Regranted(r, HasAfter(r)), r.room) = HasAfter(r)  BY RegrantIs
    <3>3. IF r.verb = "grant" THEN r.target \in HasAfter(r) ELSE r.target \notin HasAfter(r)  BY DEF HasAfter
    <3>4. QED  BY <1>1, <3>1, <3>2, <3>3 DEF Fits, Suits
  <2>5. GateOn => Fits("feature_flags", stores["feature_flags"], r)
    BY <1>0, <1>1, GateAssumption DEF Fits, Suits, GateOn, IsOn, flags
  <2>6. Fits("feature_flags", {With(flags, Gate, TRUE)}, r)
    <3>. DEFINE f == With(flags, Gate, TRUE)
    <3>1. Gate \in DOMAIN f /\ f[Gate] = TRUE  BY WithIs
    <3>. HIDE DEF f
    <3>2. Suits("feature_flags", f, r)  BY <1>1, <3>1 DEF Suits
    <3>3. QED  BY <3>2, FitsOne DEF f
  <2>. DEFINE v == ListWrite(r)
              w == GateWrite
  <2>7. /\ v.section = "capability_policy" /\ w.section = "feature_flags" /\ w.holds = {With(flags, Gate, TRUE)}
        /\ v.holds = IF HasAfter(r) = GrantsFor(policy, r.room) THEN {} ELSE {Regranted(r, HasAfter(r))}
    BY DEF ListWrite, GateWrite
  <2>8. \/ GateOn /\ HasAfter(r) = GrantsFor(policy, r.room) /\ ws = <<>>
        \/ GateOn /\ HasAfter(r) # GrantsFor(policy, r.room) /\ ws = <<v>>
        \/ ~GateOn /\ ws = <<v, w>>
    BY <2>1, ToolsAre
  <2>. HIDE DEF v, w, ws
  <2>9. /\ v.holds # {} => Fits(v.section, v.holds, r)
        /\ v.holds = {} => Fits("capability_policy", stores["capability_policy"], r)
        /\ Fits(w.section, w.holds, r) /\ w.holds # {}
    BY <2>3, <2>4, <2>6, <2>7
  <2>10. CASE GateOn /\ HasAfter(r) = GrantsFor(policy, r.room) /\ ws = <<>>
    <3>1. Range(ws) = {} /\ Stated(ws) = {}  BY <2>10, NoWrite
    <3>2. QED  BY <2>2, <2>3, <2>5, <2>10, <3>1 DEF ws
  <2>11. CASE GateOn /\ HasAfter(r) # GrantsFor(policy, r.room) /\ ws = <<v>>
    <3>1. Range(ws) = {v}  BY <2>11, OneWrite
    <3>2. "capability_policy" \in Stated(ws)
      <4>1. v.holds # {}  BY <2>7, <2>11
      <4>2. QED  BY <2>7, <3>1, <4>1 DEF Stated
    <3>3. QED  BY <2>2, <2>5, <2>9, <2>11, <3>1, <3>2 DEF ws
  <2>12. CASE ~GateOn /\ ws = <<v, w>>
    <3>1. Range(ws) = {v, w}  BY <2>12, TwoWrites
    <3>2. "feature_flags" \in Stated(ws)  BY <2>7, <2>9, <3>1 DEF Stated
    <3>3. v.holds # {} => "capability_policy" \in Stated(ws)  BY <2>7, <3>1 DEF Stated
    <3>4. QED  BY <2>2, <2>9, <3>1, <3>2, <3>3 DEF ws
  <2>13. QED  BY <2>8, <2>10, <2>11, <2>12
<1>2. ASSUME NEW section \in Sections, NEW value, Fits(section, {value}, r), ws = Write(section, {value}),
             \A s \in Sections \ {section} : \A holds : Fits(s, holds, r)
      PROVE  /\ \A w \in Range(ws) : w.holds # {} => Fits(w.section, w.holds, r)
             /\ \A s \in Sections : s \in Stated(ws) \/ Fits(s, stores[s], r)
  <2>. DEFINE v == [section |-> section, holds |-> {value}]
  <2>1. v.section = section /\ v.holds = {value} /\ v.holds # {}  OBVIOUS
  <2>2. ws = <<v>>  BY <1>2 DEF Write
  <2>. HIDE DEF v, ws
  <2>3. Range(ws) = {v}  BY <2>2, OneWrite
  <2>4. section \in Stated(ws)  BY <2>1, <2>3 DEF Stated
  <2>5. QED  BY <1>2, <2>1, <2>3, <2>4
<1>3. ASSUME ws = <<>>, \A s \in Sections : Fits(s, stores[s], r)
      PROVE  /\ \A w \in Range(ws) : w.holds # {} => Fits(w.section, w.holds, r)
             /\ \A s \in Sections : s \in Stated(ws) \/ Fits(s, stores[s], r)
  <2>1. Range(ws) = {}  BY <1>3, NoWrite
  <2>2. QED  BY <1>3, <2>1
<1>4. CASE r.kind = "wake"
  <2>1. ws = ApplyWake(r)  BY <1>4 DEF Compiled
  <2>2. \A s \in Sections \ {"wake_policy"} : \A holds : Fits(s, holds, r)  BY <1>4 DEF Fits, Suits
  <2>. DEFINE modes == Held("wake_policy")
  <2>3. CASE r.room \in DOMAIN modes /\ modes[r.room] = r.mode
    <3>1. Fits("wake_policy", stores["wake_policy"], r)  BY <1>0, <1>4, <2>3 DEF Fits, Suits
    <3>2. ws = <<>>  BY <2>1, <2>3 DEF ApplyWake
    <3>3. QED  BY <1>3, <2>2, <3>1, <3>2
  <2>4. CASE ~(r.room \in DOMAIN modes /\ modes[r.room] = r.mode)
    <3>1. Fits("wake_policy", {With(modes, r.room, r.mode)}, r)
      <4>. DEFINE f == With(modes, r.room, r.mode)
      <4>1. r.room \in DOMAIN f /\ f[r.room] = r.mode  BY WithIs
      <4>. HIDE DEF f
      <4>2. Suits("wake_policy", f, r)  BY <1>4, <4>1 DEF Suits
      <4>3. QED  BY <4>2, FitsOne DEF f
    <3>2. ws = Write("wake_policy", {With(modes, r.room, r.mode)})  BY <2>1, <2>4 DEF ApplyWake
    <3>3. "wake_policy" \in Sections  BY DEF Sections
    <3>. HIDE DEF ws, modes
    <3>4. QED  BY <1>2, <2>2, <3>1, <3>2, <3>3 DEF ws
  <2>5. QED  BY <2>3, <2>4
<1>5. CASE r.kind = "guidance"
  <2>1. ws = ApplyGuidance(r)  BY <1>5 DEF Compiled
  <2>2. \A s \in Sections \ {"channel_instructions"} : \A holds : Fits(s, holds, r)  BY <1>5 DEF Fits, Suits
  <2>3. "channel_instructions" \in Sections  BY DEF Sections
  <2>. DEFINE texts == Held("channel_instructions")
  <2>4. CASE r.text # <<>>
    <3>1. Fits("channel_instructions", {With(texts, r.room, r.text)}, r)
      <4>. DEFINE f == With(texts, r.room, r.text)
      <4>1. r.room \in DOMAIN f /\ f[r.room] = r.text  BY WithIs
      <4>. HIDE DEF f
      <4>2. Suits("channel_instructions", f, r)  BY <1>5, <2>4, <4>1 DEF Suits
      <4>3. QED  BY <4>2, FitsOne DEF f
    <3>2. ws = Write("channel_instructions", {With(texts, r.room, r.text)})  BY <2>1, <2>4 DEF ApplyGuidance
    <3>. HIDE DEF ws, texts
    <3>3. QED  BY <1>2, <2>2, <2>3, <3>1, <3>2 DEF ws
  <2>5. CASE r.text = <<>> /\ r.room \in DOMAIN texts
    <3>1. Fits("channel_instructions", {Without(texts, r.room)}, r)
      BY <1>5, <2>5, FitsOne DEF Suits, Without
    <3>2. ws = Write("channel_instructions", {Without(texts, r.room)})  BY <2>1, <2>5 DEF ApplyGuidance
    <3>. HIDE DEF ws, texts
    <3>3. QED  BY <1>2, <2>2, <2>3, <3>1, <3>2 DEF ws
  <2>6. CASE r.text = <<>> /\ r.room \notin DOMAIN texts
    <3>1. Fits("channel_instructions", stores["channel_instructions"], r)  BY <1>0, <1>5, <2>6 DEF Fits, Suits
    <3>2. ws = <<>>  BY <2>1, <2>6 DEF ApplyGuidance
    <3>3. QED  BY <1>3, <2>2, <3>1, <3>2
  <2>7. QED  BY <2>4, <2>5, <2>6
<1>6. CASE r.kind = "feature"
  <2>1. ws = ApplyFeature(r) /\ r.on \in BOOLEAN  BY <1>6 DEF Compiled, ResultOK
  <2>2. \A s \in Sections \ {"feature_flags"} : \A holds : Fits(s, holds, r)  BY <1>6 DEF Fits, Suits
  <2>3. CASE (r.feature \in DOMAIN flags /\ flags[r.feature]) = r.on
    <3>1. Fits("feature_flags", stores["feature_flags"], r)  BY <1>0, <1>6, <2>3 DEF Fits, Suits, flags
    <3>2. ws = <<>>  BY <2>1, <2>3 DEF ApplyFeature
    <3>3. QED  BY <1>3, <2>2, <3>1, <3>2
  <2>4. CASE (r.feature \in DOMAIN flags /\ flags[r.feature]) # r.on
    <3>1. Fits("feature_flags", {With(flags, r.feature, r.on)}, r)
      <4>1. /\ r.feature \in DOMAIN With(flags, r.feature, r.on)
            /\ With(flags, r.feature, r.on)[r.feature] = r.on
        BY WithIs
      <4>2. (r.feature \in DOMAIN With(flags, r.feature, r.on) /\ With(flags, r.feature, r.on)[r.feature]) = r.on
        BY <2>1, <4>1
      <4>3. QED  BY <1>6, <4>2, FitsOne DEF Suits
    <3>2. ws = Write("feature_flags", {With(flags, r.feature, r.on)})  BY <2>1, <2>4 DEF ApplyFeature
    <3>3. "feature_flags" \in Sections  BY DEF Sections
    <3>. HIDE DEF ws
    <3>4. QED  BY <1>2, <2>2, <3>1, <3>2, <3>3 DEF ws
  <2>5. QED  BY <2>3, <2>4
<1>7. QED  BY <1>1, <1>4, <1>5, <1>6 DEF Changes

LEMMA CompiledReady ==
  ASSUME FilesOK, Mirrored, writeFaults = 0, UNCHANGED <<stores, server, pending>>, Owed \subseteq Owed', ~Blanked,
         NEW r, r.kind \in Changes, ResultOK(r, DOMAIN policy.custom), WritesOK(Compiled(r)),
         NEW ws, ws = Compiled(r),
         NEW wiped, wiped = \E w \in Range(ws) : w.holds = {} /\ stores[w.section] # {}
  PROVE  Ready(r, ws, wiped)'
<1>1. /\ \A w \in Range(ws) : w.holds # {} => Fits(w.section, w.holds, r)
      /\ \A s \in Sections : s \in Stated(ws) \/ Fits(s, stores[s], r)
  BY CompiledFits
<1>2. \A s \in Sections : Coming(s) = stores[s]
  BY DEF Mirrored, Alike, Coming
<1>3. \A s \in Sections : Coming(s)' \in {stores[s], Coming(s)}  BY MoreOwedBrings
<1>4. \A s \in Sections : Fits(s, stores[s], r) => ServedBy(s, r, wiped)
  BY <1>2 DEF ServedBy, Serves
<1>5. Ready(r, ws, wiped)  BY <1>1, <1>4 DEF Ready
<1>6. QED  BY <1>3, <1>5, ReadyStill

LEMMA WriteReady ==
  ASSUME FilesOK, CommandsOK, NEW h \in Handlers, WriteNext(h),
         NEW r, NEW ws, NEW wiped, ws = handling[h].writes, Ready(r, ws, wiped)
  PROVE  Ready(r, Tail(ws), wiped)'
<1>. DEFINE w == Head(ws)
            us == Tail(ws)
<1>1. /\ OthersGoOn(h) /\ UNCHANGED <<server, pending, turns>> /\ handling[h].phase = "writing"
      /\ ws # <<>> /\ WritesOK(ws) /\ stores' = [stores EXCEPT ![w.section] = w.holds]
      /\ handling'[h] = [phase |-> "writing", result |-> handling[h].result, writes |-> us,
                         sections |-> handling[h].sections, wipes |-> handling[h].wipes,
                         undisturbed |-> handling[h].undisturbed]
  BY WriteDone
<1>2. handling'[h].phase = "writing" /\ handling'[h].sections = handling[h].sections  BY <1>1
<1>3. Owed' = Owed /\ handling[h].sections \subseteq Owed  BY <1>1, <1>2, OwedOwn
<1>4. Stated(ws) \subseteq handling[h].sections  BY <1>1 DEF CommandsOK, CommandOK
<1>5. /\ WriteOK(w) /\ Range(ws) = {w} \cup Range(us)
      /\ \A x \in Range(us) : x.section # w.section
  BY <1>1, NextWrite
<1>6. DOMAIN stores = Sections  BY DocsDomain DEF FilesOK
<1>. HIDE DEF w, us
<1>7. \A s \in Sections : stores'[s] = IF s = w.section THEN w.holds ELSE stores[s]  BY <1>1, <1>6
<1>8. w.holds # {} => w.section \in Owed  BY <1>3, <1>4, <1>5 DEF Stated
<1>9. \A s \in Sections : s \in Stated(ws) => s \in Stated(us) \/ (s = w.section /\ w.holds # {})
  BY <1>5 DEF Stated
<1>10. w.holds = {} => w.section \notin Stated(ws)  BY <1>5 DEF Stated
<1>11. ASSUME NEW s \in Sections, s # w.section PROVE s \in Stated(us) \/ ServedBy(s, r, wiped)'
  <2>1. stores'[s] = stores[s]  BY <1>7, <1>11
  <2>2. Coming(s)' \in {stores[s], Coming(s)}  BY <1>1, <1>3, <2>1, MoreOwedBrings
  <2>3. s \in Stated(us) \/ ServedBy(s, r, wiped)  BY <1>9, <1>11 DEF Ready
  <2>4. QED  BY <2>1, <2>2, <2>3, ServedStill
<1>12. w.section \in Sections /\ (w.holds = {} => w.section = "capability_policy")  BY <1>5 DEF WriteOK
<1>. DEFINE t == w.section
<1>13. ASSUME w.holds # {} PROVE ServedBy(t, r, wiped)'
  <2>1. Fits(t, w.holds, r)  BY <1>5, <1>13 DEF Ready
  <2>2. stores'[t] = w.holds  BY <1>7, <1>12
  <2>3. Coming(t)' = stores'[t]  BY <1>3, <1>8, <1>13 DEF Coming
  <2>4. Fits(t, stores[t], r)'  BY <2>1, <2>2 DEF Fits, Suits, ReadAs, Blank, GrantsFor
  <2>5. Fits(t, Coming(t), r)'  BY <2>3, <2>4 DEF Fits, Suits, ReadAs, Blank, GrantsFor
  <2>6. QED  BY <2>4, <2>5 DEF ServedBy, Serves
<1>14. ASSUME w.holds = {} PROVE ServedBy(t, r, wiped)'
  <2>1. ServedBy(t, r, wiped)  BY <1>10, <1>12, <1>14 DEF Ready
  <2>2. stores'[t] = {}  BY <1>7, <1>12, <1>14
  <2>3. Coming(t)' = IF t \in pending \cup Owed \/ server[t] = {} THEN {} ELSE server[t]
    BY <1>1, <1>3, <2>2 DEF Coming
  <2>4. CASE wiped
    <3>1. Serves(t, {}, r, wiped)  BY <1>12, <1>14, <2>4 DEF Serves
    <3>2. Coming(t)' = {} \/ Coming(t)' = Coming(t)  BY <2>3 DEF Coming
    <3>3. Serves(t, stores'[t], r, wiped) /\ Serves(t, Coming(t)', r, wiped)
      BY <2>1, <2>2, <3>1, <3>2 DEF ServedBy
    <3>4. QED  BY <3>3 DEF ServedBy, Serves, Fits, Suits, ReadAs, Blank, GrantsFor
  <2>5. CASE ~wiped
    <3>1. stores[t] = {}  BY <1>5, <1>14, <2>5 DEF Ready
    <3>2. stores'[t] = stores[t] /\ Coming(t)' \in {stores[t], Coming(t)}  BY <2>2, <2>3, <3>1 DEF Coming
    <3>. HIDE DEF t
    <3>3. QED  BY <2>1, <3>2, ServedStill
  <2>6. QED  BY <2>4, <2>5
<1>15. \A s \in Sections : s \in Stated(us) \/ ServedBy(s, r, wiped)'
  <2>1. ServedBy(w.section, r, wiped)'  BY <1>13, <1>14
  <2>2. ASSUME NEW s \in Sections, s = w.section PROVE ServedBy(s, r, wiped)'
    <3>1. QED  BY <2>1, <2>2
  <2>3. QED  BY <1>11, <2>2
<1>16. \A x \in Range(us) : x.holds # {} => Fits(x.section, x.holds, r)'
  BY <1>5 DEF Ready, Fits, Suits, ReadAs, Blank, GrantsFor
<1>17. \A x \in Range(us) : x.holds = {} => wiped \/ stores'[x.section] = {}
  <2>1. SUFFICES ASSUME NEW x \in Range(us), x.holds = {}, ~wiped PROVE stores'[x.section] = {}  OBVIOUS
  <2>2. stores[x.section] = {} /\ x.section # w.section  BY <1>5, <2>1 DEF Ready
  <2>3. QED  BY <1>1, <1>6, <2>2
<1>18. Ready(r, us, wiped)'  BY <1>15, <1>16, <1>17 DEF Ready, Stated
<1>19. QED  BY <1>18 DEF us

LEMMA KeepsStep ==
  ASSUME FilesOK, CommandsOK, TurnsOK, Mirrored, Keeps, [Next]_vars PROVE Keeps'
<1>1. SUFFICES ASSUME writeFaults' = 0, NEW g \in Handlers, handling'[g].phase = "writing", handling'[g].undisturbed
               PROVE  Ready(handling[g].result, handling[g].writes, handling[g].wipes)'
  BY DEF Keeps, Undisturbed
<1>2. writeFaults = 0 /\ writeFaults \in Nat
  <2>1. writeFaults' = writeFaults \/ writeFaults' = writeFaults + 1
    BY NextIs, ReceiveDone, CompileDone, WriteDone, FailDone, ConfirmDone, EditDone, SendDone, SyncDone, QuietDone
       DEF SlashStep
  <2>2. QED  BY <1>1, <2>1 DEF Mirrored
<1>4. CASE GoesOn(g)
  <2>1. /\ Undisturbed(g) /\ stores' = stores
        /\ handling'[g].result = handling[g].result /\ handling'[g].writes = handling[g].writes
        /\ handling'[g].wipes = handling[g].wipes
    BY <1>1, <1>4 DEF GoesOn, Undisturbed
  <2>2. Ready(handling[g].result, handling[g].writes, handling[g].wipes)  BY <1>2, <2>1 DEF Keeps
  <2>3. \A s \in Sections : Coming(s)' \in {stores[s], Coming(s)}  BY <1>1, <1>2, <2>1, StepBrings
  <2>4. \A x, y, z : Ready(x, y, z) => Ready(x, y, z)'  BY <2>1, <2>3, ReadyStill
  <2>5. PICK x, y, z : x = handling[g].result /\ y = handling[g].writes /\ z = handling[g].wipes  OBVIOUS
  <2>6. Ready(x, y, z)'  BY <2>2, <2>4, <2>5
  <2>7. x = handling'[g].result /\ y = handling'[g].writes /\ z = handling'[g].wipes  BY <2>1, <2>5
  <2>8. QED  BY <2>6, <2>7
<1>5. ASSUME NEW chans, Compile(g, chans)
      PROVE  Ready(handling[g].result, handling[g].writes, handling[g].wipes)'
  <2>1. PICK x : /\ x.kind \in Changes /\ ResultOK(x, DOMAIN policy.custom) /\ WritesOK(Compiled(x))
                 /\ handling'[g] = Compilation(x)
    BY <1>1, <1>5, CompileDone
  <2>2. UNCHANGED <<stores, server, pending>> /\ Owed \subseteq Owed'
    BY <1>5, CompileDone, OwedOwn DEF config
  <2>3. PICK y, z : y = Compiled(x) /\ z = \E w \in Range(y) : w.holds = {} /\ stores[w.section] # {}  OBVIOUS
  <2>4. /\ handling'[g].result = x /\ handling'[g].writes = y /\ handling'[g].wipes = z
        /\ handling'[g].undisturbed = ~Blanked
    BY <2>1, <2>3 DEF Compilation
  <2>5. Ready(x, y, z)'  BY <1>1, <1>2, <2>1, <2>2, <2>3, <2>4, CompiledReady
  <2>6. QED  BY <2>4, <2>5
<1>6. CASE WriteNext(g)
  <2>1. /\ handling[g].phase = "writing"
        /\ handling'[g] = [phase |-> "writing", result |-> handling[g].result, writes |-> Tail(handling[g].writes),
                           sections |-> handling[g].sections, wipes |-> handling[g].wipes,
                           undisturbed |-> handling[g].undisturbed]
    BY <1>6, WriteDone
  <2>2. /\ handling'[g].result = handling[g].result /\ handling'[g].writes = Tail(handling[g].writes)
        /\ handling'[g].wipes = handling[g].wipes /\ handling'[g].undisturbed = handling[g].undisturbed
    BY <2>1
  <2>3. Ready(handling[g].result, handling[g].writes, handling[g].wipes)
    BY <1>1, <1>2, <2>1, <2>2 DEF Keeps, Undisturbed
  <2>4. PICK x, y, z : x = handling[g].result /\ y = handling[g].writes /\ z = handling[g].wipes  OBVIOUS
  <2>5. Ready(x, Tail(y), z)'  BY <1>6, <2>3, <2>4, WriteReady
  <2>6. x = handling'[g].result /\ Tail(y) = handling'[g].writes /\ z = handling'[g].wipes  BY <2>2, <2>4
  <2>7. QED  BY <2>5, <2>6
<1>7. QED  BY <1>1, <1>4, <1>5, <1>6, OneAtATime

-----------------------------------------------------------------------------
(* What is told is served.                                                 *)

LEMMA ToldStill ==
  ASSUME FilesOK, CommandsOK, Told, echo # None, echo' = echo, Owed' = {},
         \A h \in Handlers : handling'[h].phase = "writing" => handling'[h].writes = <<>>,
         writeFaults' = 0 => writeFaults = 0,
         \A s \in Sections : stores'[s] \in {stores[s], Coming(s)} /\ Coming(s)' \in {stores[s], Coming(s)}
  PROVE  Told'
<1>1. PICK x, y : x = echo.change /\ y = echo.wiped  OBVIOUS
<1>2. x = echo'.change /\ y = echo'.wiped  BY <1>1
<1>3. ASSUME writeFaults' = 0 PROVE x.kind \in Changes /\ \A s \in Sections : ServedBy(s, x, y)'
  <2>1. x.kind \in Changes /\ \A s \in Sections : ServedBy(s, x, y)  BY <1>1, <1>3 DEF Told
  <2>2. QED  BY <2>1, ServedStill
<1>4. ASSUME writeFaults' = 0 PROVE echo'.change.kind \in Changes /\ \A s \in Sections : ServedBy(s, echo.change, echo.wiped)'
  BY <1>2, <1>3, <1>4
<1>5. QED  BY <1>4 DEF Told

LEMMA GoesOnDone ==
  ASSUME Told, echo # None, NEW g \in Handlers, GoesOn(g), handling'[g].phase = "writing"
  PROVE  handling'[g].writes = <<>>
  BY DEF GoesOn, Told

LEMMA ToldStep ==
  ASSUME FilesOK, CommandsOK, TurnsOK, Mirrored, Keeps, Told, [Next]_vars PROVE Told'
<1>. DEFINE Brought == \A s \in Sections : /\ stores'[s] \in {stores[s], Coming(s)}
                                           /\ Coming(s)' \in {stores[s], Coming(s)}
<1>1. ASSUME echo' = None PROVE Told'  BY <1>1 DEF Told
<1>2. ASSUME NEW h \in Handlers, echo # None, OthersGoOn(h), handling'[h].phase # "writing"
      PROVE  \A g \in Handlers : handling'[g].phase = "writing" => handling'[g].writes = <<>>
  BY <1>2, GoesOnDone DEF OthersGoOn
<1>3. ASSUME AllGoOn, echo # None
      PROVE  \A g \in Handlers : handling'[g].phase = "writing" => handling'[g].writes = <<>>
  BY <1>3, GoesOnDone DEF AllGoOn
<1>4. ASSUME UNCHANGED <<server, pending, stores>>, Owed \subseteq Owed' PROVE Brought
  <2>1. \A s \in Sections : Coming(s)' \in {stores[s], Coming(s)}  BY <1>4, MoreOwedBrings
  <2>2. QED  BY <1>4, <2>1
<1>5. ASSUME NEW h \in Handlers, NEW m \in Messages, Receive(m, h) PROVE Told'
  <2>1. /\ OthersGoOn(h) /\ UNCHANGED <<turns, echo, writeFaults, server, pending, stores>>
        /\ handling[h].phase # "writing" /\ handling'[h].phase # "writing"
    BY <1>5, ReceiveDone DEF config
  <2>2. Owed' = Owed  BY <2>1, OwedOwn
  <2>3. Brought  BY <1>4, <2>1, <2>2
  <2>4. CASE echo # None
    <3>1. Owed' = {}  BY <2>2, <2>4 DEF Told
    <3>. HIDE DEF Brought
    <3>2. QED  BY <1>2, <2>1, <2>3, <2>4, <3>1, ToldStill DEF Brought
  <2>5. QED  BY <1>1, <2>1, <2>4
<1>6. ASSUME NEW h \in Handlers, NEW chans, Compile(h, chans) PROVE Told'
  <2>1. /\ OthersGoOn(h) /\ UNCHANGED <<turns, writeFaults, server, pending, stores>> /\ handling[h].phase # "writing"
        /\ echo' = None \/ (handling'[h].phase # "writing" /\ echo' = echo)
    BY <1>6, CompileDone DEF config
  <2>2. CASE echo' # None
    <3>1. echo' = echo /\ handling'[h].phase # "writing"  BY <2>1, <2>2
    <3>2. Owed' = Owed  BY <2>1, <3>1, OwedOwn
    <3>3. Owed' = {}  BY <2>2, <3>1, <3>2 DEF Told
    <3>4. Brought  BY <1>4, <2>1, <3>2
    <3>5. QED  BY <1>2, <2>1, <2>2, <3>1, <3>3, <3>4, ToldStill
  <2>3. QED  BY <1>1, <2>2
<1>7. ASSUME NEW h \in Handlers, WriteNext(h) \/ WriteFails(h) PROVE Told'
  <2>1. echo' = echo /\ handling[h].phase = "writing" /\ handling[h].writes # <<>>
    BY <1>7, WriteDone, FailDone
  <2>2. QED  BY <1>1, <2>1 DEF Told
<1>8. ASSUME NEW h \in Handlers, Confirm(h) PROVE Told'
  <2>. DEFINE c == handling[h]
              rest == Owing(Handlers \ {h})
  <2>1. /\ OthersGoOn(h) /\ UNCHANGED <<turns, writeFaults>> /\ c.phase = "writing" /\ handling'[h] = NoCommand
        /\ \A g \in Handlers : handling[g].phase = "writing" => handling[g].writes = <<>>
        /\ (c.sections = {} /\ UNCHANGED config) \/ WriteBack(c.sections)
        /\ echo' = IF c.undisturbed /\ rest = {} THEN [change |-> c.result, wiped |-> c.wipes] ELSE echo
    BY <1>8, ConfirmDone
  <2>2. handling'[h].phase # "writing"  BY <2>1, IdleOK
  <2>3. Owed = rest \cup c.sections /\ Owed' = rest  BY <2>1, <2>2, OwedOwn
  <2>. HIDE DEF rest
  <2>4. ASSUME rest = {} PROVE Brought
    <3>1. CASE c.sections = {} /\ UNCHANGED config
      <4>1. UNCHANGED <<server, pending, stores>>  BY <3>1 DEF config
      <4>2. Owed \subseteq Owed'  BY <2>3, <3>1
      <4>3. QED  BY <1>4, <4>1, <4>2
    <3>2. CASE WriteBack(c.sections)
      <4>1. Owed \subseteq Owed' \cup c.sections /\ Owed \ c.sections = {}  BY <2>3, <2>4
      <4>2. QED  BY <3>2, <4>1, PushBrings
    <3>3. QED  BY <2>1, <3>1, <3>2
  <2>5. \A g \in Handlers : handling'[g].phase = "writing" => handling'[g].writes = <<>>
    BY <2>1, <2>2 DEF OthersGoOn, GoesOn
  <2>6. CASE c.undisturbed /\ rest = {}
    <3>1. echo' = [change |-> c.result, wiped |-> c.wipes]  BY <2>1, <2>6
    <3>2. Owed' = {} /\ c.writes = <<>>  BY <2>1, <2>3, <2>6
    <3>3. PICK x, y : x = c.result /\ y = c.wipes  OBVIOUS
    <3>4. x = echo'.change /\ y = echo'.wiped  BY <3>1, <3>3
    <3>5. ASSUME writeFaults' = 0 PROVE x.kind \in Changes /\ \A s \in Sections : ServedBy(s, x, y)'
      <4>1. Undisturbed(h) /\ writeFaults = 0  BY <2>1, <2>6, <3>5 DEF Undisturbed
      <4>2. Ready(x, c.writes, y)  BY <3>3, <4>1 DEF Keeps
      <4>3. Stated(<<>>) = {}  BY NoWrite
      <4>4. x.kind \in Changes /\ \A s \in Sections : ServedBy(s, x, y)  BY <3>2, <4>2, <4>3 DEF Ready
      <4>5. QED  BY <2>4, <2>6, <4>4, ServedStill
    <3>6. ASSUME writeFaults' = 0
          PROVE  echo'.change.kind \in Changes /\ \A s \in Sections : ServedBy(s, echo.change, echo.wiped)'
      BY <3>4, <3>5, <3>6
    <3>7. QED  BY <2>5, <3>2, <3>6 DEF Told
  <2>7. CASE ~(c.undisturbed /\ rest = {}) /\ echo # None
    <3>1. echo' = echo  BY <2>1, <2>7
    <3>2. Owed' = {} /\ rest = {}  BY <2>3, <2>7 DEF Told
    <3>3. Brought  BY <2>4, <3>2
    <3>. HIDE DEF c
    <3>4. QED  BY <2>1, <2>5, <2>7, <3>1, <3>2, <3>3, ToldStill
  <2>8. CASE ~(c.undisturbed /\ rest = {}) /\ echo = None  BY <1>1, <2>1, <2>8
  <2>9. QED  BY <2>6, <2>7, <2>8
<1>9. CASE ToolEdits  BY <1>1, <1>9, EditDone
<1>10. CASE ToolSends
  <2>1. PICK t \in Turns : turns[t].unsent # {} /\ turns' = [turns EXCEPT ![t].unsent = {}]
    BY <1>10, SendDone
  <2>2. AllGoOn /\ echo' = echo  BY <1>10, SendDone
  <2>3. Owed # {}  BY <2>1, <2>2, OwedByTurn
  <2>4. QED  BY <1>1, <2>2, <2>3 DEF Told
<1>11. CASE Syncs
  <2>1. /\ AllGoOn /\ UNCHANGED <<turns, writeFaults>>
        /\ WriteBack({}) \/ (stores' = Laid({}) /\ UNCHANGED <<server, pending>>)
        /\ echo' = echo \/ echo' = None
        /\ echo' # None => \A s \in pending : stores'[s] = stores[s]
    BY <1>11, SyncDone
  <2>2. Owed' = Owed  BY <2>1, OwedStill
  <2>3. CASE echo' # None
    <3>1. echo' = echo /\ echo # None /\ Owed = {}  BY <2>1, <2>3 DEF Told
    <3>2. Brought
      <4>1. CASE WriteBack({})  BY <2>2, <3>1, <4>1, PushBrings
      <4>2. CASE stores' = Laid({}) /\ UNCHANGED <<server, pending>>
        BY <2>1, <2>2, <2>3, <3>1, <4>2, FetchBrings
      <4>3. QED  BY <2>1, <4>1, <4>2
    <3>3. QED  BY <1>3, <2>1, <2>2, <3>1, <3>2, ToldStill
  <2>4. QED  BY <1>1, <2>3
<1>12. CASE QuietGate \/ UNCHANGED vars
  <2>1. AllGoOn /\ UNCHANGED <<echo, writeFaults, server, pending, stores>> /\ Owed' = Owed
    BY <1>12, QuietDone, OwedStill DEF config
  <2>2. CASE echo # None
    <3>1. Owed' = {}  BY <2>1, <2>2 DEF Told
    <3>2. Brought  BY <1>4, <2>1
    <3>3. QED  BY <1>3, <2>1, <2>2, <3>1, <3>2, ToldStill
  <2>3. QED  BY <1>1, <2>1, <2>2
<1>13. QED
  BY <1>5, <1>6, <1>7, <1>8, <1>9, <1>10, <1>11, <1>12, NextIs DEF SlashStep

\* More grants lead to more names.
LEMMA ReachGrows ==
  ASSUME NEW K, NEW I, NEW L, NEW A, NEW B, A \subseteq B
  PROVE  /\ In(K, I, L)!Reach(A) \subseteq In(K, I, L)!Reach(B)
         /\ In(K, I, L)!Granted(A) \subseteq In(K, I, L)!Granted(B)
<1>1. In(K, I, L)!Reach(A) \subseteq In(K, I, L)!Reach(B)  BY DEF In!Reach
<1>2. QED  BY <1>1 DEF In!Granted, In!ToolsIn

LEMMA FitsApplies ==
  ASSUME FilesOK, NEW r, r.kind \in Changes, \A s \in Sections : Fits(s, stores[s], r) PROVE Applies(r)
<1>1. \A s \in Sections : Suits(s, Held(s), r)  BY DEF Fits, Held
<1>2. CASE r.kind = "tools"
  <2>1. Suits("capability_policy", policy, r) /\ Suits("feature_flags", flags, r)
    BY <1>1 DEF policy, flags, Sections
  <2>2. GateOn  BY <1>2, <2>1 DEF Suits, GateOn, IsOn
  <2>3. IF r.verb = "grant" THEN r.target \in GrantsFor(policy, r.room) ELSE r.target \notin GrantsFor(policy, r.room)
    BY <1>2, <2>1 DEF Suits
  <2>4. ASSUME r.verb = "grant"
        PROVE  PolicyGrants(policy, {r.target}) \subseteq PolicyGrants(policy, GrantsFor(policy, r.room))
    <3>1. {r.target} \subseteq GrantsFor(policy, r.room)  BY <2>3, <2>4
    <3>2. QED  BY <3>1, ReachGrows DEF PolicyGrants
  <2>5. QED  BY <1>2, <2>2, <2>3, <2>4 DEF Applies
<1>3. CASE r.kind = "wake"
  <2>1. Suits("wake_policy", Held("wake_policy"), r)  BY <1>1 DEF Sections
  <2>2. QED  BY <1>3, <2>1 DEF Suits, Applies
<1>4. CASE r.kind = "guidance"
  <2>1. Suits("channel_instructions", Held("channel_instructions"), r)  BY <1>1 DEF Sections
  <2>2. QED  BY <1>4, <2>1 DEF Suits, Applies
<1>5. CASE r.kind = "feature"
  <2>1. Suits("feature_flags", flags, r)  BY <1>1 DEF flags, Sections
  <2>2. r.feature \notin DefaultOn => IsOn(r.feature) = (r.feature \in DOMAIN flags /\ flags[r.feature])
    <3>1. FlagsOK(flags)  BY PolicyReadable
    <3>2. CASE r.feature \in DOMAIN flags
      <4>1. flags[r.feature] \in BOOLEAN  BY <3>1, <3>2 DEF FlagsOK
      <4>2. QED  BY <3>2, <4>1 DEF IsOn
    <3>3. CASE r.feature \notin DOMAIN flags  BY <3>3 DEF IsOn
    <3>4. QED  BY <3>2, <3>3
  <2>3. r.feature \in DefaultOn \/ (r.feature \in DOMAIN flags /\ flags[r.feature]) = r.on
    BY <1>5, <2>1 DEF Suits
  <2>4. r.feature \in DefaultOn \/ IsOn(r.feature) = r.on  BY <2>2, <2>3
  <2>5. QED  BY <1>5, <2>4 DEF Applies
<1>6. QED  BY <1>2, <1>3, <1>4, <1>5 DEF Changes

LEMMA ToldApplies == ASSUME FilesOK, Told PROVE EchoHolds
<1>1. SUFFICES ASSUME echo # None, writeFaults = 0, ~(echo.wiped /\ stores.capability_policy = {})
               PROVE  Applies(echo.change)
  BY DEF EchoHolds
<1>2. echo.change.kind \in Changes /\ \A s \in Sections : Serves(s, stores[s], echo.change, echo.wiped)
  BY <1>1 DEF Told, ServedBy
<1>3. \A s \in Sections : Fits(s, stores[s], echo.change)  BY <1>1, <1>2 DEF Serves
<1>4. QED  BY <1>2, <1>3, FitsApplies

-----------------------------------------------------------------------------
(* A command edits one channel's list.                                     *)

\* Of what is still to write, at most the first is a policy, and that is null or the
\* one in force but for the channel named.
EditsOne ==
  \A h \in Handlers :
    LET c == handling[h]
    IN  Undisturbed(h) /\ c.writes # <<>> =>
          /\ Head(c.writes).section = "capability_policy" =>
               Head(c.writes).holds \in {{}, {Regranted(c.result, HasAfter(c.result))}}
          /\ "capability_policy" \notin SectionsIn(Tail(c.writes))

LEMMA CompiledEdits ==
  ASSUME NEW r, r.kind \in Changes, Compiled(r) # <<>>
  PROVE  /\ Head(Compiled(r)).section = "capability_policy" =>
              Head(Compiled(r)).holds \in {{}, {Regranted(r, HasAfter(r))}}
         /\ "capability_policy" \notin SectionsIn(Tail(Compiled(r)))
<1>1. ASSUME NEW section, NEW value, section # "capability_policy", Compiled(r) = Write(section, {value})
      PROVE  /\ Head(Compiled(r)).section # "capability_policy"
             /\ SectionsIn(Tail(Compiled(r))) = {}
  <2>. DEFINE w == [section |-> section, holds |-> {value}]
  <2>1. Compiled(r) = <<w>> /\ w.section = section  BY <1>1 DEF Write
  <2>. HIDE DEF w
  <2>2. Head(<<w>>) = w /\ Tail(<<w>>) = <<>>  BY OneWrite
  <2>3. QED  BY <1>1, <2>1, <2>2, NoWrite
<1>2. CASE r.kind = "tools"
  <2>. DEFINE v == ListWrite(r)
              w == GateWrite
  <2>1. /\ v.section = "capability_policy" /\ v.holds \in {{}, {Regranted(r, HasAfter(r))}}
        /\ w.section # "capability_policy"
    BY DEF ListWrite, GateWrite
  <2>2. Compiled(r) = <<v>> \/ Compiled(r) = <<v, w>>
    BY <1>2, ToolsAre DEF Compiled
  <2>. HIDE DEF v, w
  <2>3. CASE Compiled(r) = <<v>>
    <3>1. Head(<<v>>) = v /\ Tail(<<v>>) = <<>>  BY OneWrite
    <3>2. QED  BY <2>1, <2>3, <3>1, NoWrite
  <2>4. CASE Compiled(r) = <<v, w>>
    <3>1. Head(<<v, w>>) = v /\ Tail(<<v, w>>) = <<w>> /\ SectionsIn(<<w>>) = {w.section}
      BY OneWrite, TwoWrites
    <3>2. QED  BY <2>1, <2>4, <3>1
  <2>5. QED  BY <2>2, <2>3, <2>4
<1>3. CASE r.kind = "wake"
  <2>1. Compiled(r) = ApplyWake(r)  BY <1>3 DEF Compiled
  <2>2. QED  BY <1>1, <2>1 DEF ApplyWake
<1>4. CASE r.kind = "guidance"
  <2>1. Compiled(r) = ApplyGuidance(r)  BY <1>4 DEF Compiled
  <2>2. QED  BY <1>1, <2>1 DEF ApplyGuidance
<1>5. CASE r.kind = "feature"
  <2>1. Compiled(r) = ApplyFeature(r)  BY <1>5 DEF Compiled
  <2>2. QED  BY <1>1, <2>1 DEF ApplyFeature
<1>6. QED  BY <1>2, <1>3, <1>4, <1>5 DEF Changes

\* The policy is what its file is read as.
LEMMA PolicyStill == stores'["capability_policy"] = stores["capability_policy"] => policy' = policy
<1>1. \A s, d : ReadAs(s, d)' = ReadAs(s, d)  BY DEF ReadAs, Blank
<1>2. policy = ReadAs("capability_policy", stores["capability_policy"])  BY DEF policy, Held
<1>3. policy' = ReadAs("capability_policy", stores["capability_policy"])'  BY DEF policy, Held
<1>4. QED  BY <1>1, <1>2, <1>3

LEMMA EditsStep == ASSUME FilesOK, CommandsOK, TurnsOK, EditsOne, [Next]_vars PROVE EditsOne'
<1>. DEFINE Edits(c) ==
       /\ Head(c.writes).section = "capability_policy" =>
            Head(c.writes).holds \in {{}, {Regranted(c.result, HasAfter(c.result))}}
       /\ "capability_policy" \notin SectionsIn(Tail(c.writes))
<1>1. SUFFICES ASSUME NEW g \in Handlers, Undisturbed(g)', handling'[g].writes # <<>> PROVE Edits(handling[g])'
  BY DEF EditsOne
<1>2. Undisturbed(g) /\ handling[g].writes # <<>> => Edits(handling[g])  BY DEF EditsOne
<1>3. handling'[g].phase = "writing" /\ handling'[g].undisturbed  BY <1>1 DEF Undisturbed
<1>4. ASSUME stores' = stores,
             Head(handling'[g].writes).section = "capability_policy" =>
               Head(handling'[g].writes).holds \in {{}, {Regranted(handling'[g].result, HasAfter(handling'[g].result))}},
             "capability_policy" \notin SectionsIn(Tail(handling'[g].writes))
      PROVE  Edits(handling[g])'
  <2>1. policy' = policy  BY <1>4, PolicyStill
  <2>2. \A r, has : Regranted(r, has)' = Regranted(r, has)  BY <2>1 DEF Regranted
  <2>3. \A r : HasAfter(r)' = HasAfter(r)  BY <2>1 DEF HasAfter, GrantsFor
  <2>4. \A ws : SectionsIn(ws)' = SectionsIn(ws)  BY DEF SectionsIn
  <2>5. PICK new : new = handling'[g]  OBVIOUS
  <2>6. /\ Head(new.writes).section = "capability_policy" =>
             Head(new.writes).holds \in {{}, {Regranted(new.result, HasAfter(new.result))}}
        /\ "capability_policy" \notin SectionsIn(Tail(new.writes))
    BY <1>4, <2>5
  <2>7. Edits(new)'
    BY <2>2, <2>3, <2>4, <2>6
  <2>8. QED  BY <2>5, <2>7
<1>5. CASE GoesOn(g)
  <2>1. /\ Undisturbed(g) /\ stores' = stores
        /\ handling'[g].result = handling[g].result /\ handling'[g].writes = handling[g].writes
    BY <1>3, <1>5 DEF GoesOn, Undisturbed
  <2>2. QED  BY <1>1, <1>2, <1>4, <2>1
<1>6. ASSUME NEW chans, Compile(g, chans) PROVE Edits(handling[g])'
  <2>1. PICK x : x.kind \in Changes /\ handling'[g] = Compilation(x)  BY <1>3, <1>6, CompileDone
  <2>2. handling'[g].result = x /\ handling'[g].writes = Compiled(x)  BY <2>1 DEF Compilation
  <2>3. stores' = stores  BY <1>6, CompileDone DEF config
  <2>4. QED  BY <1>1, <1>4, <2>1, <2>2, <2>3, CompiledEdits
<1>7. CASE WriteNext(g)
  <2>1. /\ handling[g].phase = "writing" /\ handling[g].writes # <<>> /\ WritesOK(handling[g].writes)
        /\ handling'[g] = [phase |-> "writing", result |-> handling[g].result, writes |-> Tail(handling[g].writes),
                           sections |-> handling[g].sections, wipes |-> handling[g].wipes,
                           undisturbed |-> handling[g].undisturbed]
    BY <1>7, WriteDone
  <2>2. handling'[g].writes = Tail(handling[g].writes) /\ handling'[g].undisturbed = handling[g].undisturbed
    BY <2>1
  <2>3. "capability_policy" \notin SectionsIn(handling'[g].writes)
    BY <1>2, <1>3, <2>1, <2>2 DEF Undisturbed
  <2>4. WritesOK(handling'[g].writes)  BY <2>1, <2>2, NextWrite
  <2>5. Range(handling'[g].writes) = {Head(handling'[g].writes)} \cup Range(Tail(handling'[g].writes))
    BY <1>1, <2>4, NextWrite
  <2>6. /\ Head(handling'[g].writes).section # "capability_policy"
        /\ "capability_policy" \notin SectionsIn(Tail(handling'[g].writes))
    BY <2>3, <2>5 DEF SectionsIn
  <2>7. QED  BY <2>6 DEF SectionsIn
<1>8. QED  BY <1>3, <1>5, <1>6, <1>7, OneAtATime

LEMMA EditsAction ==
  ASSUME FilesOK, CommandsOK, TurnsOK, EditsOne, [Next]_vars
  PROVE  \A h \in Handlers :
           (/\ Writing(h) /\ Writing(h)' /\ handling'[h].undisturbed
            /\ policy' # policy /\ stores'.capability_policy # {}) =>
             LET r == handling[h].result
             IN  \A c \in Rooms :
                   GrantsFor(policy', c) =
                     IF c # r.room THEN GrantsFor(policy, c)
                     ELSE IF r.verb = "grant" THEN GrantsFor(policy, c) \cup {r.target}
                     ELSE GrantsFor(policy, c) \ {r.target}
<1>1. SUFFICES ASSUME NEW h \in Handlers, handling[h].phase = "writing", handling'[h].phase = "writing",
                      handling'[h].undisturbed, policy' # policy, stores'.capability_policy # {}, NEW c \in Rooms
               PROVE  GrantsFor(policy', c) =
                        IF c = handling[h].result.room THEN HasAfter(handling[h].result) ELSE GrantsFor(policy, c)
  BY DEF Writing, HasAfter
<1>2. stores' # stores  BY <1>1, PolicyStill
<1>3. WriteNext(h)
  <2>1. ~GoesOn(h)  BY <1>1, <1>2 DEF GoesOn
  <2>2. ~\E chans : Compile(h, chans)  BY <1>1, CompileDone
  <2>3. QED  BY <1>1, <2>1, <2>2, OneAtATime
<1>. DEFINE w == Head(handling[h].writes)
<1>4. /\ stores' = [stores EXCEPT ![w.section] = w.holds] /\ handling[h].writes # <<>>
      /\ handling'[h] = [phase |-> "writing", result |-> handling[h].result,
                         writes |-> Tail(handling[h].writes), sections |-> handling[h].sections,
                         wipes |-> handling[h].wipes, undisturbed |-> handling[h].undisturbed]
  BY <1>3, WriteDone
<1>5. handling'[h].undisturbed = handling[h].undisturbed  BY <1>4
<1>6. Undisturbed(h)  BY <1>1, <1>5 DEF Undisturbed
<1>7. w.section = "capability_policy" => w.holds \in {{}, {Regranted(handling[h].result, HasAfter(handling[h].result))}}
  BY <1>4, <1>6 DEF EditsOne
<1>8. DOMAIN stores = Sections /\ "capability_policy" \in Sections  BY DocsDomain DEF FilesOK, Sections
<1>. HIDE DEF w
<1>9. w.section = "capability_policy" /\ stores'["capability_policy"] = w.holds
  <2>1. w.section # "capability_policy" => stores'["capability_policy"] = stores["capability_policy"]
    BY <1>4, <1>8
  <2>2. stores'["capability_policy"] # stores["capability_policy"]
    BY <1>1, PolicyStill
  <2>3. QED  BY <1>4, <1>8, <2>1, <2>2
<1>10. w.holds = {Regranted(handling[h].result, HasAfter(handling[h].result))}  BY <1>1, <1>7, <1>9
<1>11. policy' = Regranted(handling[h].result, HasAfter(handling[h].result))
  <2>1. policy' = ReadAs("capability_policy", w.holds)  BY <1>9 DEF policy, Held, ReadAs, Blank
  <2>2. QED  BY <1>10, <2>1, ReadOne
<1>12. QED  BY <1>11, RegrantIs
-----------------------------------------------------------------------------
(* No grant dangles, and the view of a channel is what its grants give.    *)

\* The names a valid policy's grants lead to have a meaning.
LEMMA GrantsKnown == ASSUME FilesOK PROVE AllGrantsKnown
<1>. DEFINE Known == KnownIn(policy) \cup Autos
            K == KnownIn(policy)
            I == MergedOf(policy)
<1>1. PolicyOK(policy) /\ ValidPolicy(policy)  BY PolicyReadable
<1>2. SUFFICES ASSUME NEW r \in Rooms PROVE NamesGranted(policy, r) \subseteq Known
  BY <1>1 DEF AllGrantsKnown, ValidPolicy
<1>3. GrantsFor(policy, r) \subseteq Known  BY <1>1 DEF ValidPolicy, GrantsFor
<1>4. Known \in SUBSET Names  BY DEF KnownIn, Names
<1>5. ASSUME NEW n \in Known PROVE In(K, I, toolsets)!NamesOf(n) \subseteq Known
  <2>1. CASE n \in Autos  BY <2>1 DEF In!NamesOf
  <2>2. CASE n \in K /\ n \notin Autos
    <3>1. n \in Bundles  BY <2>2 DEF KnownIn
    <3>2. In(K, I, toolsets)!NamesOf(n) = Definition(policy, n) \cap Names
      BY <2>2, <3>1 DEF In!NamesOf, In!EntriesOf, MergedOf, In!Names, Names
    <3>3. CASE n \in DOMAIN policy.custom
      <4>1. policy.custom[n] \cap Bundles \subseteq Known  BY <1>1, <3>3 DEF ValidPolicy
      <4>2. QED  BY <3>2, <3>3, <4>1 DEF Definition, Names
    <3>4. CASE n \notin DOMAIN policy.custom
      <4>1. Definition(policy, n) \in SUBSET Tools  BY <3>4, PolicyAssumption DEF Definition
      <4>2. QED  BY <3>2, <4>1, BundleAssumption DEF Names
    <3>5. QED  BY <3>3, <3>4
  <2>3. QED  BY <2>1, <2>2
<1>. HIDE DEF Known, K, I
<1>6. In(K, I, toolsets)!Closed(Known)  BY <1>5 DEF In!Closed
<1>7. In(K, I, toolsets)!Reach(GrantsFor(policy, r)) \subseteq Known
  BY <1>3, <1>4, <1>6 DEF In!Reach, In!Names, Names
<1>8. QED  BY <1>7 DEF NamesGranted, K, I

\* What a view shows as on is granted: the view leaves out only what live toolsets add.
LEMMA ShownIsGranted ==
  ASSUME FilesOK, NEW r, NEW row \in Rows, RowShown(r, row)
  PROVE  Members[row] \subseteq PolicyGrants(policy, GrantsFor(policy, r))
<1>. DEFINE K == KnownIn(policy)
            I == MergedOf(policy)
            none == [a \in Autos |-> {}]
            G == GrantsFor(policy, r)
<1>1. row \in DOMAIN Members /\ row \in Bundles /\ row \notin Autos /\ Members[row] \in SUBSET Tools
  BY SlashAssumption, GateAssumption, PolicyAssumption, BundleAssumption
<1>2. CASE row \in NamesGranted(policy, r) /\ row \notin DOMAIN policy.custom
  <2>1. row \in K /\ I[row] = Members[row]  BY <1>1, <1>2 DEF KnownIn, MergedOf, Definition
  <2>2. In(K, I, toolsets)!ToolsOf(row) = Members[row]
    <3>. HIDE DEF K, I
    <3>1. QED  BY <1>1, <2>1 DEF In!ToolsOf, In!EntriesOf
  <2>3. row \in In(K, I, toolsets)!Reach(G)  BY <1>2 DEF NamesGranted
  <2>. HIDE DEF K, I, G
  <2>4. Members[row] \subseteq In(K, I, toolsets)!Granted(G)
    BY <2>2, <2>3 DEF In!Granted, In!ToolsIn
  <2>5. QED  BY <2>4 DEF PolicyGrants, K, I, G
<1>3. CASE Members[row] \subseteq In(K, I, none)!Granted(G)
  <2>. HIDE DEF K, I, G, none
  <2>1. In(K, I, none)!Reach(G) = In(K, I, toolsets)!Reach(G)
    BY DEF In!Reach, In!Closed, In!NamesOf, In!EntriesOf, In!Names
  <2>2. ASSUME NEW n \in In(K, I, none)!Reach(G) PROVE In(K, I, none)!ToolsOf(n) \subseteq In(K, I, toolsets)!ToolsOf(n)
    <3>1. n \in Autos => In(K, I, none)!ToolsOf(n) = {}  BY DEF In!ToolsOf, none
    <3>2. n \notin Autos => In(K, I, none)!ToolsOf(n) = In(K, I, toolsets)!ToolsOf(n)
      BY DEF In!ToolsOf, In!EntriesOf
    <3>3. QED  BY <3>1, <3>2
  <2>3. In(K, I, none)!Granted(G) \subseteq In(K, I, toolsets)!Granted(G)
    BY <2>1, <2>2 DEF In!Granted, In!ToolsIn
  <2>4. QED  BY <1>3, <2>3 DEF PolicyGrants, K, I, G
<1>4. QED  BY <1>2, <1>3 DEF RowShown

\* What is granted a view shows as on, unless a toolset that is granted lends some of it.
LEMMA GrantedIsShown ==
  ASSUME FilesOK, NEW r, NEW row \in Rows, Members[row] \subseteq PolicyGrants(policy, GrantsFor(policy, r)),
         \A a \in Autos \cap NamesGranted(policy, r) : toolsets[a] \cap Members[row] = {}
  PROVE  RowShown(r, row)
<1>. DEFINE K == KnownIn(policy)
            I == MergedOf(policy)
            none == [a \in Autos |-> {}]
            G == GrantsFor(policy, r)
<1>1. ASSUME NEW x \in Members[row] PROVE x \in In(K, I, none)!Granted(G)
  <2>1. x \in In(K, I, toolsets)!Granted(G)  BY DEF PolicyGrants
  <2>2. \A a \in Autos \cap In(K, I, toolsets)!Reach(G) : x \notin toolsets[a]  BY DEF NamesGranted
  <2>. HIDE DEF K, I, G, none
  <2>3. PICK n \in In(K, I, toolsets)!Reach(G) : x \in In(K, I, toolsets)!ToolsOf(n)
    BY <2>1 DEF In!Granted, In!ToolsIn
  <2>4. n \notin Autos  BY <2>2, <2>3 DEF In!ToolsOf
  <2>5. x \in In(K, I, none)!ToolsOf(n)  BY <2>3, <2>4 DEF In!ToolsOf, In!EntriesOf
  <2>6. n \in In(K, I, none)!Reach(G)
    BY <2>3 DEF In!Reach, In!Closed, In!NamesOf, In!EntriesOf, In!Names
  <2>7. QED  BY <2>5, <2>6 DEF In!Granted, In!ToolsIn
<1>2. QED  BY <1>1 DEF RowShown

LEMMA ViewsAgree == ASSUME FilesOK PROVE ViewAgrees
<1>1. SUFFICES ASSUME NEW view \in Asked, NEW row \in Rows
               PROVE  LET r       == view.room
                          granted == Members[row] \subseteq PolicyGrants(policy, GrantsFor(policy, r))
                          lent    == \E a \in Autos \cap NamesGranted(policy, r) : toolsets[a] \cap Members[row] # {}
                      IN  (RowShown(r, row) => granted) /\ (granted => RowShown(r, row) \/ lent)
  BY DEF ViewAgrees
<1>2. PICK r : r = view.room  OBVIOUS
<1>3. QED  BY <1>1, <1>2, ShownIsGranted, GrantedIsShown

-----------------------------------------------------------------------------
(* The theorems, under the specification that runs wakes, tools and commands. *)

LEMMA SpecInit == ASSUME Init PROVE /\ FilesOK /\ CommandsOK /\ Mirrored /\ Keeps /\ Told /\ EditsOne
                                    /\ Promised /\ Inv /\ ExpandInit
<1>1. GateInit /\ handling = [h \in Handlers |-> NoCommand] /\ echo = None /\ writeFaults = 0  BY DEF Init
<1>2. FilesOK  BY <1>1, FilesInit
<1>3. \A h \in Handlers : handling[h] = NoCommand /\ handling[h].phase = "idle"  BY <1>1 DEF NoCommand
<1>4. CommandsOK  BY <1>1, <1>3 DEF CommandsOK, CommandOK
<1>5. Keeps /\ Told /\ EditsOne  BY <1>1, <1>3 DEF Keeps, Told, EditsOne, Undisturbed
<1>6. Mirrored  BY <1>1 DEF Mirrored, Alike, GateInit
<1>7. Promised  BY <1>1, NoTurnType DEF GateInit, Promised
<1>8. ExpandInit /\ Inv  BY <1>1, InitInv DEF GateInit
<1>9. QED  BY <1>2, <1>4, <1>5, <1>6, <1>7, <1>8

\* Whatever is edited by tools and by commands, and whatever toolsets come and go, a
\* wake's resolution is one undisturbed walk of what it read.
THEOREM CommandsExpand == Spec => ExpandSpec
<1>1. Init => ExpandInit /\ FilesOK /\ CommandsOK  BY SpecInit
<1>2. FilesOK /\ CommandsOK /\ [Next]_vars => FilesOK' /\ CommandsOK'  BY CommandStep
<1>3. FilesOK /\ [Next]_vars => [ExpandNext]_bundleVars  BY NextOfGate, StepsExpand
<1>4. QED  BY <1>1, <1>2, <1>3, PTL DEF Spec, ExpandSpec

\* Every file that holds anything but null can be read, and the policy so read is
\* valid, whoever writes it and whichever messages overlap; and all that a command has
\* still to write is a document that keeps it so, or the null over the policy.
THEOREM FilesStay == Spec => [](FilesOK /\ CommandsOK)
<1>1. Init => FilesOK /\ CommandsOK  BY SpecInit
<1>2. FilesOK /\ CommandsOK /\ [Next]_vars => (FilesOK /\ CommandsOK)'  BY CommandStep
<1>3. QED  BY <1>1, <1>2, PTL DEF Spec

\* What a turn was promised stays what answers it.
LEMMA PromisesStay == Spec => [](Promised /\ TurnsOK)
<1>1. Init => Promised  BY SpecInit
<1>2. FilesOK /\ Inv /\ Inv' /\ Promised /\ [Next]_vars => Promised'
  BY NextOfGate, PromisedStep
<1>3. Spec => []Inv  BY CommandsExpand, ExpandInv, PTL
<1>4. Promised => TurnsOK  BY DEF Promised, TurnsOK
<1>5. QED  BY <1>1, <1>2, <1>3, <1>4, FilesStay, PTL DEF Spec

\* Every tool call of every turn is answered by the policy that its wake read,
\* whatever tools and commands edit while the turn runs.
THEOREM CommandsAnswer == Spec => []AnsweredAsPromised
<1>1. Promised => AnsweredAsPromised  BY PromisedAnswers
<1>2. QED  BY <1>1, PromisesStay, PTL

\* No edit, of a tool or of a command, leaves a channel a grant that leads to a name
\* which means nothing; nor does a null over the policy, which is read as the defaults.
THEOREM NoGrantDangles == Spec => NoDanglingGrant
<1>1. FilesOK => AllGrantsKnown  BY GrantsKnown
<1>2. Spec => []AllGrantsKnown  BY <1>1, FilesStay, PTL
<1>3. AllGrantsKnown' => [policy' # policy => AllGrantsKnown']_<<bundleVars, gateVars>>  OBVIOUS
<1>4. QED  BY <1>2, <1>3, PTL DEF NoDanglingGrant

\* As long as every file could be written, a file that differs from the server's copy
\* is one that a later write-back pushes, or a policy that a command wrote null over.
THEOREM StaleIsPushed == Spec => []StaleIsOwed
<1>1. Init => Mirrored  BY SpecInit
<1>2. FilesOK /\ CommandsOK /\ TurnsOK /\ Mirrored /\ [Next]_vars => Mirrored'  BY MirroredStep
<1>3. Mirrored => StaleIsOwed  BY MirroredIsOwed
<1>4. QED  BY <1>1, <1>2, <1>3, FilesStay, PromisesStay, PTL DEF Spec

\* A change that the principal was told of applies until somebody edits again,
\* whatever other messages push and fetch and lay over the files: as long as every
\* file could be written, and but for the time that a null of its own is the policy.
THEOREM ToldIsSo == Spec => []EchoHolds
<1>1. Init => Mirrored /\ Keeps /\ Told  BY SpecInit
<1>2. FilesOK /\ CommandsOK /\ TurnsOK /\ Mirrored /\ [Next]_vars => Mirrored'  BY MirroredStep
<1>3. FilesOK /\ CommandsOK /\ TurnsOK /\ Mirrored /\ Keeps /\ [Next]_vars => Keeps'  BY KeepsStep
<1>4. FilesOK /\ CommandsOK /\ TurnsOK /\ Mirrored /\ Keeps /\ Told /\ [Next]_vars => Told'  BY ToldStep
<1>5. Spec => [](Mirrored /\ Keeps /\ Told)
  BY <1>1, <1>2, <1>3, <1>4, FilesStay, PromisesStay, PTL DEF Spec
<1>6. FilesOK /\ Told => EchoHolds  BY ToldApplies
<1>7. QED  BY <1>5, <1>6, FilesStay, PTL

\* A tools command that runs on the files it read changes one name in the list of one
\* channel, and no other channel's grants, unless it writes null over the policy.
THEOREM CommandsEditOne == Spec => EditsOneChannel
<1>1. Init => EditsOne  BY SpecInit
<1>2. FilesOK /\ CommandsOK /\ TurnsOK /\ EditsOne /\ [Next]_vars => EditsOne'  BY EditsStep
<1>3. FilesOK /\ CommandsOK /\ TurnsOK /\ EditsOne /\ [Next]_vars =>
        [\A h \in Handlers :
           (/\ Writing(h) /\ Writing(h)' /\ handling'[h].undisturbed
            /\ policy' # policy /\ stores'.capability_policy # {}) =>
             LET r == handling[h].result
             IN  \A c \in Rooms :
                   GrantsFor(policy', c) =
                     IF c # r.room THEN GrantsFor(policy, c)
                     ELSE IF r.verb = "grant" THEN GrantsFor(policy, c) \cup {r.target}
                     ELSE GrantsFor(policy, c) \ {r.target}]_vars
  BY EditsAction
<1>4. QED  BY <1>1, <1>2, <1>3, FilesStay, PromisesStay, PTL DEF Spec, EditsOneChannel

\* The view of a channel that a message asks for shows a row as on only if the
\* channel's grants give its tools, and leaves out none that they give, but where a
\* toolset that is granted there has some of the row's tools.
THEOREM ViewIsExact == Spec => []ViewAgrees
<1>1. FilesOK => ViewAgrees  BY ViewsAgree
<1>2. QED  BY <1>1, FilesStay, PTL

\* Words that mean one thing each, for a slot each, change the same in whatever order
\* they come, if they change anything: an order in which they also spell a channel's
\* name is a question.  For messages that spell no name which shares a word with
\* another name, or with the words that are passed over or have a shape.
THEOREM OrderIsKept == Spec => []SameInEveryOrder
<1>1. OrderIsFree => SameInEveryOrder  BY DEF SameInEveryOrder
<1>2. SameInEveryOrder  BY <1>1, OrderKept
<1>3. QED  BY <1>2, PTL
=============================================================================
