------------------------- MODULE ServerConfigProofs -------------------------
(***************************************************************************)
(* Proofs about ServerConfig for every set of sections, edits and wakes:   *)
(* type correctness; that an accepted PUT keeps the work of every other    *)
(* writer of the document; that the files never sit stale behind the       *)
(* remembered revision; and that an edit that is still the working copy    *)
(* was pushed or is pending.                                               *)
(***************************************************************************)
EXTENDS ServerConfig, TLAPS

\* The document at revision r.
At(r) == IF r = 0 THEN NoDoc ELSE log[r]

\* What an exchange in flight knows of the document: a PUT is a push or a
\* seed; a seed's base is 0; and outside its batch a push carries the document
\* at its base revision.
CallBasis ==
  /\ call.pc = "put" => call.phase \in {"push", "seed"}
  /\ call.pc = "put" /\ call.phase = "seed" => call.rev = 0
  /\ call.phase = "push" /\ (call.pc = "put" \/ (call.pc = "got" /\ call.status = "ok")) =>
       /\ call.rev \in 0 .. Len(log)
       /\ \A s \in Sections \ call.batch : call.doc[s] = At(call.rev)[s]

\* The inductive invariant: types alone do not say what a PUT carries.
IInv == TypeOK /\ CallBasis

-----------------------------------------------------------------------------
(* Lemmas about documents and calls.                                       *)

\* Absent sections and file contents are contents, so the empty document and
\* the server's current document are documents.
LEMMA DocTypes ==
  ASSUME log \in Seq(Docs)
  PROVE  NoDoc \in Docs /\ Doc \in Docs
<1>1. NoDoc \in Docs
  BY DEF NoDoc, Docs, Contents
<1>2. Doc \in Docs
  <2>1. CASE log = <<>>
    BY <1>1, <2>1 DEF Doc
  <2>2. CASE log # <<>>
    <3>1. Len(log) \in 1 .. Len(log)
      BY <2>2
    <3>2. QED
      BY <2>2, <3>1 DEF Doc
  <2>3. QED
    BY <2>1, <2>2
<1>3. QED
  BY <1>1, <1>2

\* No call is outstanding when the lock is free.
LEMMA NoCallType == NoCall \in Call /\ NoCall.pc = "none"
  BY DEF NoCall, Call, NoDoc, Docs, Contents

\* A GET just issued is a call, outstanding, with no answer yet.
LEMMA GetType ==
  ASSUME NEW phase \in {"push", "fetch", "refetch"},
         NEW batch \in SUBSET Sections, NEW attempt \in 1 .. 2
  PROVE  /\ Get(phase, batch, attempt) \in Call
         /\ Get(phase, batch, attempt).pc = "get"
         /\ Get(phase, batch, attempt).batch = batch
         /\ Get(phase, batch, attempt).phase = phase
  BY NoCallType DEF Get, NoCall, Call, NoDoc, Docs, Contents

\* A PUT just issued is a call with the given document and base revision.
LEMMA PutType ==
  ASSUME call \in Call, NEW phase \in {"push", "seed"},
         NEW doc \in Docs, NEW rev \in Nat
  PROVE  /\ Put(phase, doc, rev) \in Call
         /\ Put(phase, doc, rev).pc = "put"
         /\ Put(phase, doc, rev).phase = phase
         /\ Put(phase, doc, rev).batch = call.batch
         /\ Put(phase, doc, rev).doc = doc
         /\ Put(phase, doc, rev).rev = rev
  BY DEF Put, Call

\* Rebasing a document, and writing one to the files, give documents; outside
\* the batch the rebased document is the fetched one.
LEMMA RebaseType ==
  ASSUME file \in Docs, NEW doc \in Docs, NEW batch \in SUBSET Sections
  PROVE  /\ Rebase(doc, batch) \in Docs
         /\ \A s \in Sections \ batch : Rebase(doc, batch)[s] = doc[s]
  BY DEF Rebase, Docs

\* Laying a document down (_write_sections) leaves every file a document, a
\* revision remembered, and the fault count within its bound.
LEMMA WriteSectionsType ==
  ASSUME file \in Docs, known \in Nat, faults \in 0 .. MaxFaults,
         NEW doc \in Docs, NEW rev \in Nat, NEW batch \in SUBSET Sections,
         WriteSections(doc, rev, batch)
  PROVE  file' \in Docs /\ known' \in Nat /\ faults' \in 0 .. MaxFaults
<1>1. PICK broken \in SUBSET Writable(doc, batch) :
        /\ broken = {} \/ faults < MaxFaults
        /\ file' = Written(doc, batch, broken)
        /\ known' = Remember(rev, broken)
        /\ faults' = IF broken = {} THEN faults ELSE faults + 1
  BY DEF WriteSections
<1>2. file' \in Docs
  BY <1>1 DEF Written, Docs
<1>3. known' \in Nat
  BY <1>1 DEF Remember
<1>4. faults' \in 0 .. MaxFaults
  BY <1>1, ConstantsAssumption
<1>5. QED
  BY <1>2, <1>3, <1>4

\* After the lock is released, or a sync goes on to its fetch, the holder and
\* the call agree, and the call is not one CallBasis speaks of.
HolderCall ==
  /\ holder' \in Tasks \cup {None} /\ call' \in Call
  /\ holder' = None <=> call'.pc = "none"
  /\ call'.pc \in {"none", "get"}

\* Releasing the lock clears the call with the holder.
LEMMA ReleaseType == Release => HolderCall
  BY NoCallType DEF Release, HolderCall

\* A sync whose push is over goes on to its fetch, or is done: either way its
\* call stays one of the calls there are (_sync_locked).
LEMMA ThenFetchType ==
  ASSUME NEW w \in Tasks, ThenFetch(w), fresh \in BOOLEAN
  PROVE  HolderCall /\ fresh' \in BOOLEAN /\ holder' \in {w, None}
<1>1. CASE fresh /\ Release /\ UNCHANGED fresh
  BY <1>1, ReleaseType DEF Release
<1>2. CASE ~fresh /\ fresh' = TRUE /\ holder' = w /\ call' = Get("fetch", {}, 1)
  <2>1. Get("fetch", {}, 1) \in Call /\ Get("fetch", {}, 1).pc = "get"
    BY GetType
  <2>2. w # None
    BY ConstantsAssumption
  <2>3. QED
    BY <1>2, <2>1, <2>2 DEF HolderCall
<1>3. QED
  BY <1>1, <1>2 DEF ThenFetch

\* The end of a push, whichever it is: what is still pending are sections, and
\* the lock goes on with the same holder or is free.
LEMMA EndPushType ==
  ASSUME TypeOK, holder # None, NEW ok \in BOOLEAN, EndPush(ok)
  PROVE  /\ HolderCall /\ fresh' \in BOOLEAN /\ pending' \in SUBSET Sections
         /\ holder' \in {holder, None}
<1> USE DEF TypeOK
<1>1. pending' \in SUBSET Sections
  <2>1. pending' = PendingAfter(ok)
    BY DEF EndPush
  <2>2. call.batch \in SUBSET Sections
    BY DEF Call
  <2>3. QED
    BY <2>1, <2>2 DEF PendingAfter
<1>2. CASE holder \in Edits
  BY <1>1, <1>2, ReleaseType DEF EndPush, Release
<1>3. CASE holder \notin Edits
  BY <1>1, <1>3, ThenFetchType DEF EndPush, Tasks
<1>4. QED
  BY <1>2, <1>3

-----------------------------------------------------------------------------
(* Type correctness.                                                       *)

\* The variables start in their types, with an empty log or one seeded by hand.
LEMMA InitType == Init => TypeOK
<1> SUFFICES ASSUME Init PROVE TypeOK
  OBVIOUS
<1> USE DEF Init
<1>1. file \in Docs
  BY DEF Docs, Contents
<1>2. log \in Seq(Docs)
  <2>1. CASE log = <<>>
    BY <2>1
  <2>2. CASE \E d \in [Sections -> {Installed, Absent}] : log = <<d>>
    <3>1. PICK d \in [Sections -> {Installed, Absent}] : log = <<d>>
      BY <2>2
    <3>2. d \in Docs
      BY DEF Docs, Contents
    <3>3. QED
      BY <3>1, <3>2
  <2>3. QED
    BY <2>1, <2>2
<1>3. call \in Call /\ call.pc = "none"
  BY NoCallType
<1>4. faults \in 0 .. MaxFaults /\ restarts \in 0 .. MaxRestarts
  BY ConstantsAssumption
<1>5. /\ endpoint \in BOOLEAN /\ known \in Nat /\ pending \in SUBSET Sections
      /\ fresh \in BOOLEAN /\ unavailable \in BOOLEAN
      /\ waiting \in SUBSET Tasks /\ holder \in Tasks \cup {None}
      /\ holder \notin waiting /\ holder = None
      /\ (waiting \cup {holder}) \cap Edits \subseteq done
      /\ done \in SUBSET Edits /\ earlier \in SUBSET done
      /\ appDone \in SUBSET AppEdits
  BY ConstantsAssumption DEF Tasks
<1> HIDE DEF Init
<1>6. QED
  BY <1>1, <1>2, <1>3, <1>4, <1>5 DEF TypeOK

\* The parts of the type invariant a handler of an answer can disturb.
LEMMA HandleType ==
  ASSUME TypeOK, Handle
  PROVE  TypeOK'
<1>0. holder # None /\ Doc \in Docs /\ call \in Call /\ file \in Docs
  <2>1. call.pc # "none"
    BY DEF Handle, PushRead, PushAccepted, PushRefused, FetchRead,
           SeedAnswered, RefetchRead, Handling
  <2>2. QED
    BY <2>1, DocTypes DEF TypeOK
<1>h. ASSUME holder' \in {holder, None}, UNCHANGED <<waiting, done>>
      PROVE  holder' \notin waiting' /\ (waiting' \cup {holder'}) \cap Edits \subseteq done'
  BY <1>h, ConstantsAssumption DEF TypeOK, Tasks
<1>1. call.doc \in Docs /\ call.rev \in Nat /\ call.batch \in SUBSET Sections
  BY <1>0 DEF Call
<1>2. CASE PushRead
  <2>0. /\ UNCHANGED <<file, log, endpoint, known, waiting>>
        /\ UNCHANGED <<done, earlier, appDone, faults, restarts>>
    BY <1>2 DEF PushRead, ghosts, bounds
  <2>1. CASE /\ call' = Put("push", Rebase(call.doc, call.batch), call.rev)
             /\ UNCHANGED <<holder, pending, fresh, unavailable>>
    <3>1. call' \in Call /\ call'.pc = "put"
      BY <2>1, <1>0, <1>1, PutType, RebaseType
    <3>2. QED
      BY <2>0, <2>1, <3>1, <1>0 DEF TypeOK
  <2>2. ASSUME NEW ok \in BOOLEAN, EndPush(ok), unavailable' \in BOOLEAN
        PROVE  TypeOK'
    <3>1. /\ HolderCall /\ fresh' \in BOOLEAN /\ pending' \in SUBSET Sections
          /\ holder' \in {holder, None}
      BY <1>0, <2>2, EndPushType
    <3>2. holder' \notin waiting' /\ (waiting' \cup {holder'}) \cap Edits \subseteq done'
      BY <2>0, <3>1, <1>h
    <3>3. QED
      BY <2>0, <2>2, <3>1, <3>2 DEF TypeOK, HolderCall
  <2>3. QED
    BY <1>2, <2>1, <2>2 DEF PushRead, TypeOK
<1>3. CASE PushAccepted
  <2>0. /\ UNCHANGED <<log, endpoint, unavailable, waiting>>
        /\ UNCHANGED <<done, earlier, appDone, restarts>>
    BY <1>3 DEF PushAccepted, ghosts
  <2>1. file' \in Docs /\ known' \in Nat /\ faults' \in 0 .. MaxFaults
    BY <1>3, <1>1, WriteSectionsType DEF PushAccepted, TypeOK
  <2>2. /\ HolderCall /\ fresh' \in BOOLEAN /\ pending' \in SUBSET Sections
        /\ holder' \in {holder, None}
    BY <1>0, <1>3, EndPushType DEF PushAccepted
  <2>3. holder' \notin waiting' /\ (waiting' \cup {holder'}) \cap Edits \subseteq done'
    BY <2>0, <2>2, <1>h
  <2>4. QED
    BY <2>0, <2>1, <2>2, <2>3 DEF TypeOK, HolderCall
<1>4. CASE PushRefused
  <2>0. /\ UNCHANGED <<file, log, endpoint, known, waiting>>
        /\ UNCHANGED <<done, earlier, appDone, faults, restarts>>
    BY <1>4 DEF PushRefused, ghosts, bounds
  <2>1. CASE /\ call' = Get("push", call.batch, 2)
             /\ UNCHANGED <<holder, pending, fresh, unavailable>>
    <3>1. call' \in Call /\ call'.pc = "get"
      BY <2>1, <1>1, GetType
    <3>2. QED
      BY <2>0, <2>1, <3>1, <1>0 DEF TypeOK
  <2>2. ASSUME NEW ok \in BOOLEAN, EndPush(ok), unavailable' \in BOOLEAN
        PROVE  TypeOK'
    <3>1. /\ HolderCall /\ fresh' \in BOOLEAN /\ pending' \in SUBSET Sections
          /\ holder' \in {holder, None}
      BY <1>0, <2>2, EndPushType
    <3>2. holder' \notin waiting' /\ (waiting' \cup {holder'}) \cap Edits \subseteq done'
      BY <2>0, <3>1, <1>h
    <3>3. QED
      BY <2>0, <2>2, <3>1, <3>2 DEF TypeOK, HolderCall
  <2>3. QED
    BY <1>4, <2>1, <2>2 DEF PushRefused, TypeOK
<1>5. CASE FetchRead
  <2>0. /\ UNCHANGED <<log, endpoint, pending, fresh, waiting>>
        /\ UNCHANGED <<done, earlier, appDone, restarts>>
    BY <1>5 DEF FetchRead, ghosts
  <2>1. CASE /\ call' = Put("seed", file, 0)
             /\ UNCHANGED <<file, known, holder, unavailable, faults>>
    <3>1. call' \in Call /\ call'.pc = "put"
      BY <2>1, <1>0, PutType
    <3>2. QED
      BY <2>0, <2>1, <3>1, <1>0 DEF TypeOK
  <2>2. CASE /\ WriteSections(call.doc, call.rev, {})
             /\ Release /\ UNCHANGED unavailable
    <3>1. file' \in Docs /\ known' \in Nat /\ faults' \in 0 .. MaxFaults
      BY <2>2, <1>1, WriteSectionsType DEF TypeOK
    <3>2. QED
      BY <2>0, <2>2, <3>1, ReleaseType, <1>h
      DEF TypeOK, HolderCall, Release
  <2>3. CASE /\ Release /\ unavailable' \in BOOLEAN
             /\ UNCHANGED <<file, known, faults>>
    BY <2>0, <2>3, ReleaseType, <1>h DEF TypeOK, HolderCall, Release
  <2>4. QED
    BY <1>5, <2>1, <2>2, <2>3 DEF FetchRead, TypeOK
<1>6. CASE SeedAnswered
  <2>0. /\ UNCHANGED <<file, log, endpoint, pending, fresh, waiting>>
        /\ UNCHANGED <<done, earlier, appDone, faults, restarts>>
    BY <1>6 DEF SeedAnswered, ghosts, bounds
  <2>1. CASE call' = Get("refetch", {}, 1) /\ UNCHANGED <<known, holder, unavailable>>
    <3>1. call' \in Call /\ call'.pc = "get"
      BY <2>1, GetType
    <3>2. QED
      BY <2>0, <2>1, <3>1, <1>0 DEF TypeOK
  <2>2. CASE Release /\ known' \in Nat /\ unavailable' \in BOOLEAN
    BY <2>0, <2>2, ReleaseType, <1>h DEF TypeOK, HolderCall, Release
  <2>3. QED
    BY <1>1, <1>6, <2>1, <2>2 DEF SeedAnswered, TypeOK
<1>7. CASE RefetchRead
  <2>0. /\ UNCHANGED <<log, endpoint, pending, fresh, unavailable, waiting>>
        /\ UNCHANGED <<done, earlier, appDone, restarts>>
    BY <1>7 DEF RefetchRead, ghosts
  <2>1. file' \in Docs /\ known' \in Nat /\ faults' \in 0 .. MaxFaults
    BY <1>1, <1>7, WriteSectionsType DEF RefetchRead, TypeOK
  <2>2. QED
    BY <1>7, <2>0, <2>1, ReleaseType, <1>h
    DEF RefetchRead, TypeOK, HolderCall, Release
<1>8. QED
  BY <1>2, <1>3, <1>4, <1>5, <1>6, <1>7 DEF Handle

\* Every step of the system keeps the types.
LEMMA TypeStep ==
  ASSUME TypeOK, [Next]_vars
  PROVE  TypeOK'
<1> USE DEF local, lock, ghosts, bounds
<1>0. Doc \in Docs /\ Len(log) \in Nat /\ log \in Seq(Docs)
  BY DocTypes DEF TypeOK
<1>1. ASSUME NEW e \in Edits, WriteFile(e)
      PROVE  TypeOK'
  <2>1. file' \in Docs
    BY <1>1 DEF WriteFile, TypeOK, Docs, Contents
  <2>2. /\ waiting' \in SUBSET Tasks /\ holder \notin waiting'
        /\ (waiting' \cup {holder}) \cap Edits \subseteq done'
    BY <1>1 DEF WriteFile, TypeOK, Tasks
  <2>3. QED
    BY <1>1, <2>1, <2>2 DEF WriteFile, TypeOK
<1>2. ASSUME NEW e \in Edits, TakeLockToPush(e)
      PROVE  TypeOK'
  <2>1. BatchOf(e) \in SUBSET Sections
    BY ConstantsAssumption DEF BatchOf, TypeOK
  <2>2. call' \in Call /\ call'.pc = "get"
    BY <1>2, <2>1, GetType DEF TakeLockToPush
  <2>3. e # None /\ e \in Tasks
    BY ConstantsAssumption DEF Tasks
  <2>4. QED
    BY <1>2, <2>2, <2>3 DEF TakeLockToPush, TypeOK
<1>3. ASSUME NEW w \in Wakes, Wake(w)
      PROVE  TypeOK'
  <2>1. w \in Tasks /\ w \notin Edits
    BY ConstantsAssumption DEF Tasks
  <2>2. QED
    BY <1>3, <2>1 DEF Wake, TypeOK
<1>4. ASSUME NEW w \in Wakes, TakeLockToSync(w)
      PROVE  TypeOK'
  <2>1. w \in Tasks /\ w \notin Edits /\ w # None
    BY ConstantsAssumption DEF Tasks
  <2>2. HolderCall /\ fresh' \in BOOLEAN /\ holder' \in {w, None}
    <3>1. CASE ThenFetch(w)
      BY <2>1, <3>1, ThenFetchType DEF TypeOK
    <3>2. CASE holder' = w /\ call' = Get("push", pending, 1) /\ UNCHANGED fresh
      <4>1. call' \in Call /\ call'.pc = "get"
        BY <3>2, GetType DEF TypeOK
      <4>2. QED
        BY <2>1, <3>2, <4>1 DEF HolderCall, TypeOK
    <3>3. QED
      BY <1>4, <3>1, <3>2 DEF TakeLockToSync
  <2>3. QED
    BY <1>4, <2>1, <2>2 DEF TakeLockToSync, TypeOK, HolderCall
<1>5. CASE Handle
  BY <1>5, HandleType
<1>6. CASE ServeGet
  <2>1. call' \in Call /\ call'.pc # "none"
    BY <1>0, <1>6 DEF ServeGet, TypeOK, Call
  <2>2. call.pc # "none"
    BY <1>6 DEF ServeGet
  <2>3. QED
    BY <1>6, <2>1, <2>2 DEF ServeGet, TypeOK
<1>7. CASE ServePut
  <2>1. call' \in Call /\ call'.pc # "none"
    <3>1. CASE call' = [call EXCEPT !.pc = "answered", !.status = "ok", !.rev = Len(log) + 1]
      <4>1. Len(log) + 1 \in Nat
        BY <1>0
      <4>2. QED
        BY <3>1, <4>1 DEF TypeOK, Call
    <3>2. CASE call' = [call EXCEPT !.pc = "answered",
                          !.status = IF endpoint THEN "conflict" ELSE "notfound"]
      BY <3>2 DEF TypeOK, Call
    <3>3. QED
      BY <1>7, <3>1, <3>2 DEF ServePut
  <2>2. call.pc # "none"
    BY <1>7 DEF ServePut
  <2>3. log' \in Seq(Docs)
    BY <1>0, <1>7 DEF ServePut, TypeOK, Call
  <2>4. QED
    BY <1>7, <2>1, <2>2, <2>3 DEF ServePut, TypeOK
<1>8. CASE CallFails
  <2>1. call' \in Call /\ call'.pc # "none" /\ call.pc # "none"
    BY <1>8 DEF CallFails, TypeOK, Call
  <2>2. faults' \in 0 .. MaxFaults
    BY <1>8, ConstantsAssumption DEF CallFails, TypeOK
  <2>3. QED
    BY <1>8, <2>1, <2>2 DEF CallFails, TypeOK
<1>9. CASE CancelSync
  <2>1. faults' \in 0 .. MaxFaults
    BY <1>9, ConstantsAssumption DEF CancelSync, TypeOK
  <2>2. HolderCall /\ holder' = None
    BY <1>9, ReleaseType DEF CancelSync, Release
  <2>3. QED
    BY <1>9, <2>1, <2>2, ConstantsAssumption
    DEF CancelSync, TypeOK, HolderCall, Tasks
<1>10. ASSUME NEW a \in AppEdits, NEW s \in Sections, AppWrites(a, s)
       PROVE  TypeOK'
  <2>1. log' \in Seq(Docs)
    <3>1. PICK v \in {a, Absent} : log' = Append(log, [Doc EXCEPT ![s] = v])
      BY <1>10 DEF AppWrites
    <3>2. [Doc EXCEPT ![s] = v] \in Docs
      BY <1>0 DEF Docs, Contents
    <3>3. QED
      BY <1>0, <3>1, <3>2
  <2>2. QED
    BY <1>10, <2>1 DEF AppWrites, TypeOK
<1>11. CASE Expire \/ Deploy
  BY <1>11 DEF Expire, Deploy, TypeOK
<1>12. CASE Restart
  <2>1. restarts' \in 0 .. MaxRestarts
    BY <1>12, ConstantsAssumption DEF Restart, TypeOK
  <2>2. HolderCall /\ holder' = None
    BY <1>12, ReleaseType DEF Restart, Release
  <2>3. QED
    BY <1>12, <2>1, <2>2, ConstantsAssumption DEF Restart, TypeOK, HolderCall, Tasks
<1>13. CASE UNCHANGED vars
  BY <1>13 DEF vars, TypeOK
<1>14. QED
  BY <1>1, <1>2, <1>3, <1>4, <1>5, <1>6, <1>7, <1>8, <1>9, <1>10, <1>11,
     <1>12, <1>13 DEF Next, Serve

\* The types hold in every reachable state, for every value of the constants.
THEOREM TypeCorrect == Spec => []TypeOK
<1>1. Init => TypeOK
  BY InitType
<1>2. TypeOK /\ [Next]_vars => TypeOK'
  BY TypeStep
<1>3. QED
  BY <1>1, <1>2, PTL DEF Spec

-----------------------------------------------------------------------------
(* An accepted PUT keeps the work of others.                               *)

\* A step that leaves no PUT outstanding, and no GET answered, gives CallBasis.
LEMMA NoBasis ==
  ASSUME call'.pc \in {"none", "get", "answered"}
  PROVE  CallBasis'
  BY DEF CallBasis

\* A longer log keeps the documents of earlier revisions.
LEMMA AppendKeeps ==
  ASSUME log \in Seq(Docs), NEW d \in Docs, log' = Append(log, d)
  PROVE  /\ Len(log') = Len(log) + 1
         /\ Len(log) \in Nat
         /\ \A r \in 0 .. Len(log) : At(r)' = At(r)
  BY DEF At, NoDoc

\* Every step keeps what a call in flight knows of the document.
LEMMA BasisStep ==
  ASSUME TypeOK, CallBasis, [Next]_vars
  PROVE  CallBasis'
<1> USE DEF local, lock, ghosts, bounds
<1>0. Doc \in Docs /\ Len(log) \in Nat /\ log \in Seq(Docs) /\ file \in Docs
  BY DocTypes DEF TypeOK
<1>1. call.doc \in Docs /\ call.rev \in Nat /\ call.batch \in SUBSET Sections
  BY DEF TypeOK, Call
<1>2. ASSUME UNCHANGED <<call, log>> PROVE CallBasis'
  BY <1>2 DEF CallBasis, At
<1>3. CASE \E e \in Edits : WriteFile(e)
  BY <1>2, <1>3 DEF WriteFile
<1>4. ASSUME NEW e \in Edits, TakeLockToPush(e)
      PROVE  CallBasis'
  <2>1. call'.pc = "get"
    <3>1. BatchOf(e) \in SUBSET Sections
      BY ConstantsAssumption DEF BatchOf, TypeOK
    <3>2. QED
      BY <1>4, <3>1, GetType DEF TakeLockToPush
  <2>2. QED
    BY <2>1, NoBasis
<1>5. CASE \E w \in Wakes : Wake(w)
  BY <1>2, <1>5 DEF Wake
<1>6. ASSUME NEW w \in Wakes, TakeLockToSync(w)
      PROVE  CallBasis'
  <2>1. CASE ThenFetch(w)
    <3>1. HolderCall
      BY <2>1, ThenFetchType DEF TypeOK, Tasks
    <3>2. QED
      BY <3>1, NoBasis DEF HolderCall
  <2>2. CASE call' = Get("push", pending, 1)
    <3>1. call'.pc = "get"
      BY <2>2, GetType DEF TypeOK
    <3>2. QED
      BY <3>1, NoBasis
  <2>3. QED
    BY <1>6, <2>1, <2>2 DEF TakeLockToSync
<1>7. ASSUME NEW ok \in BOOLEAN, EndPush(ok), holder # None
      PROVE  CallBasis'
  <2>1. HolderCall
    BY <1>7, EndPushType
  <2>2. QED
    BY <2>1, NoBasis DEF HolderCall
<1>8. ASSUME Release PROVE CallBasis'
  BY <1>8, ReleaseType, NoBasis DEF HolderCall
<1>9. CASE PushRead
  <2>1. CASE /\ Handling("push", "got", "ok")
             /\ call' = Put("push", Rebase(call.doc, call.batch), call.rev)
    <3>1. /\ call'.pc = "put" /\ call'.phase = "push" /\ call'.batch = call.batch
          /\ call'.doc = Rebase(call.doc, call.batch) /\ call'.rev = call.rev
      BY <1>0, <1>1, <2>1, PutType, RebaseType DEF TypeOK
    <3>2. /\ call.rev \in 0 .. Len(log)
          /\ \A s \in Sections \ call.batch : call.doc[s] = At(call.rev)[s]
      BY <2>1 DEF CallBasis, Handling
    <3>3. \A s \in Sections \ call.batch : call'.doc[s] = call.doc[s]
      BY <1>0, <1>1, <3>1, RebaseType
    <3>4. log' = log
      BY <1>9 DEF PushRead
    <3>5. QED
      BY <3>1, <3>2, <3>3, <3>4 DEF CallBasis, At, NoDoc
  <2>2. holder # None
    BY <1>9 DEF PushRead, Handling, TypeOK
  <2>3. QED
    BY <1>7, <1>9, <2>1, <2>2 DEF PushRead
<1>10. CASE PushAccepted
  BY <1>7, <1>10 DEF PushAccepted, Handling, TypeOK
<1>11. CASE PushRefused
  <2>1. CASE call' = Get("push", call.batch, 2)
    <3>1. call'.pc = "get"
      BY <1>1, <2>1, GetType
    <3>2. QED
      BY <3>1, NoBasis
  <2>2. holder # None
    BY <1>11 DEF PushRefused, Handling, TypeOK
  <2>3. QED
    BY <1>7, <1>11, <2>1, <2>2 DEF PushRefused
<1>12. CASE FetchRead
  <2>1. CASE call' = Put("seed", file, 0)
    <3>1. call'.pc = "put" /\ call'.phase = "seed" /\ call'.rev = 0
      BY <1>0, <2>1, PutType DEF TypeOK
    <3>2. QED
      BY <3>1 DEF CallBasis
  <2>2. QED
    BY <1>8, <1>12, <2>1 DEF FetchRead
<1>13. CASE SeedAnswered
  <2>1. CASE call' = Get("refetch", {}, 1)
    <3>1. call'.pc = "get"
      BY <2>1, GetType
    <3>2. QED
      BY <3>1, NoBasis
  <2>2. QED
    BY <1>8, <1>13, <2>1 DEF SeedAnswered
<1>14. CASE RefetchRead \/ CancelSync \/ Restart
  BY <1>8, <1>14 DEF RefetchRead, CancelSync, Restart
<1>15. CASE ServeGet
  <2>1. CASE call' = [call EXCEPT !.pc = "got", !.status = "ok", !.doc = Doc,
                                  !.rev = Len(log)]
    <3>1. /\ call'.pc = "got" /\ call'.phase = call.phase
          /\ call'.batch = call.batch /\ call'.doc = Doc /\ call'.rev = Len(log)
      BY <2>1 DEF TypeOK, Call
    <3>2. At(Len(log)) = Doc
      BY <1>0 DEF At, Doc
    <3>3. log' = log
      BY <1>15 DEF ServeGet
    <3>4. QED
      BY <1>0, <3>1, <3>2, <3>3 DEF CallBasis, At, NoDoc
  <2>2. CASE call' = [call EXCEPT !.pc = "got", !.status = "notfound"]
    BY <2>2 DEF CallBasis, TypeOK, Call
  <2>3. QED
    BY <1>15, <2>1, <2>2 DEF ServeGet
<1>16. CASE ServePut
  <2>1. call'.pc = "answered"
    BY <1>16 DEF ServePut, TypeOK, Call
  <2>2. QED
    BY <2>1, NoBasis
<1>17. CASE CallFails
  BY <1>17 DEF CallFails, CallBasis, TypeOK, Call
<1>18. ASSUME NEW a \in AppEdits, NEW s \in Sections, AppWrites(a, s)
       PROVE  CallBasis'
  <2>1. PICK v \in {a, Absent} : log' = Append(log, [Doc EXCEPT ![s] = v])
    BY <1>18 DEF AppWrites
  <2>2. [Doc EXCEPT ![s] = v] \in Docs
    BY <1>0 DEF Docs, Contents
  <2>3. /\ Len(log') = Len(log) + 1
        /\ \A r \in 0 .. Len(log) : At(r)' = At(r)
    BY <1>0, <2>1, <2>2, AppendKeeps
  <2>4. call' = call
    BY <1>18 DEF AppWrites
  <2>5. QED
    BY <1>0, <2>3, <2>4 DEF CallBasis, At, NoDoc
<1>19. CASE Expire \/ Deploy \/ UNCHANGED vars
  BY <1>2, <1>19 DEF Expire, Deploy, vars
<1>20. QED
  BY <1>3, <1>4, <1>5, <1>6, <1>9, <1>10, <1>11, <1>12, <1>13, <1>14, <1>15,
     <1>16, <1>17, <1>18, <1>19 DEF Next, Handle, Serve

\* Only an accepted PUT and the app change the document, and the app leaves
\* the call alone.
LEMMA WhoWrites ==
  ASSUME [Next]_vars, call.pc = "put", call'.pc = "answered", log' # log
  PROVE  ServePut
<1>1. Handle => log' = log
  BY DEF Handle, PushRead, PushAccepted, PushRefused, FetchRead, SeedAnswered,
         RefetchRead
<1>2. ServeGet \/ CallFails \/ CancelSync \/ Expire \/ Deploy \/ Restart => log' = log
  BY DEF ServeGet, CallFails, CancelSync, Expire, Deploy, Restart
<1>3. ASSUME NEW e \in Edits, WriteFile(e) \/ TakeLockToPush(e) PROVE log' = log
  BY <1>3 DEF WriteFile, TakeLockToPush
<1>4. ASSUME NEW w \in Wakes, Wake(w) \/ TakeLockToSync(w) PROVE log' = log
  BY <1>4 DEF Wake, TakeLockToSync
<1>5. ASSUME NEW a \in AppEdits, NEW s \in Sections, AppWrites(a, s)
      PROVE  call' = call
  BY <1>5 DEF AppWrites, lock
<1>6. UNCHANGED vars => log' = log
  BY DEF vars
<1>7. QED
  BY <1>1, <1>2, <1>3, <1>4, <1>5, <1>6 DEF Next, Serve

\* What a call in flight knows of the document holds in every reachable state.
THEOREM Inductive == Spec => []IInv
<1>1. Init => IInv
  BY InitType, NoCallType DEF Init, CallBasis, IInv
<1>2. IInv /\ [Next]_vars => IInv'
  BY TypeStep, BasisStep DEF IInv
<1>3. QED
  BY <1>1, <1>2, PTL DEF Spec

\* A PUT that the server accepts changes, of the document, only the sections
\* of its batch, and a seed is accepted only where there is no document:
\* whatever the app and other tasks did between the fetch and the PUT.
THEOREM PutKeeps == Spec => PutKeepsOthersWork
<1>1. ASSUME TypeOK, CallBasis, [Next]_vars,
             call.pc = "put", call'.pc = "answered", log' # log
      PROVE  IF call.phase = "seed" THEN log = <<>>
             ELSE \A s \in Sections \ call.batch : Doc'[s] = Doc[s]
  <2>1. ServePut
    BY <1>1, WhoWrites
  <2>2. call.rev = Len(log) /\ log' = Append(log, call.doc)
    BY <1>1, <2>1 DEF ServePut
  <2>3. log \in Seq(Docs) /\ call.doc \in Docs
    BY <1>1 DEF TypeOK, Call
  <2>4. CASE call.phase = "seed"
    <3>1. Len(log) = 0
      BY <1>1, <2>2, <2>4 DEF CallBasis
    <3>2. QED
      BY <2>3, <2>4, <3>1
  <2>5. CASE call.phase # "seed"
    <3>1. \A s \in Sections \ call.batch : call.doc[s] = At(Len(log))[s]
      BY <1>1, <2>2, <2>5 DEF CallBasis
    <3>2. At(Len(log)) = Doc
      BY <2>3 DEF At, Doc
    <3>3. Doc' = call.doc
      <4>1. Len(log') = Len(log) + 1 /\ log'[Len(log) + 1] = call.doc
        BY <2>2, <2>3
      <4>2. log' # <<>>
        BY <2>3, <4>1
      <4>3. QED
        BY <4>1, <4>2 DEF Doc
    <3>4. QED
      BY <2>5, <3>1, <3>2, <3>3
  <2>6. QED
    BY <2>4, <2>5
<1>2. IInv /\ [Next]_vars =>
        [call.pc = "put" /\ call'.pc = "answered" /\ log' # log =>
           IF call.phase = "seed" THEN log = <<>>
           ELSE \A s \in Sections \ call.batch : Doc'[s] = Doc[s]]_vars
  BY <1>1 DEF IInv
<1>3. QED
  BY <1>2, Inductive, PTL DEF Spec, PutKeepsOthersWork

-----------------------------------------------------------------------------
(* The files.                                                              *)

\* A call that has learned a document: an answered GET, a PUT on its way, and
\* a PUT the server took.
Learned ==
  call.pc = "put" \/ (call.pc \in {"got", "answered"} /\ call.status = "ok")

\* A PUT on its way, or taken.
Carrying == call.pc = "put" \/ (call.pc = "answered" /\ call.status = "ok")

\* The sections a PUT carries from the files: a seed carries all.
Carried == IF call.phase = "seed" THEN Sections ELSE call.batch

\* The contents an edit writes are its own: nobody holds them before it.
OwnContents ==
  \A e \in Edits \ done : \A s \in Sections :
    file[s] # e /\ call.doc[s] # e /\ ~HeldSince(1, s, e)

\* The remembered revision, and that of a call, are revisions of the log, and
\* the call's is no older than the remembered one.
Revisions ==
  known <= Len(log) /\ (Learned => call.rev \in known .. Len(log))

\* What a call brings back is the document of the log at its revision.
Snapshot ==
  /\ call.pc = "got" /\ call.status = "ok" => call.doc = At(call.rev)
  /\ call.pc = "answered" /\ call.status = "ok" =>
       call.rev > 0 /\ call.doc = At(call.rev)

\* A file is not older than revision r: the server holds its contents there
\* or later, or never had them.
NotOlder(r, s) == HeldSince(r, s, file[s]) \/ ~HeldSince(1, s, file[s])

\* What a PUT that can still be taken carries is what the files hold, or they
\* hold what the server never had; once it is taken no file is older than it.
CarriesFiles ==
  /\ call.pc = "put" /\ call.rev = Len(log) =>
       \A s \in Carried : file[s] = call.doc[s] \/ ~HeldSince(1, s, file[s])
  /\ call.pc = "answered" /\ call.status = "ok" =>
       \A s \in Carried : NotOlder(call.rev, s)

\* The invariant of the files and the remembered revision.
FileInv == OwnContents /\ Revisions /\ Snapshot /\ CarriesFiles /\ NoStaleFile

\* A file edited since a PUT read it is of an edit whose handler waits for
\* the lock, unless it found the sync off.
EditedWaits ==
  Carrying => \/ unavailable
              \/ \A s \in Carried : file[s] = call.doc[s] \/ file[s] \in waiting

\* A push carries every pending section, and its own edit's; only wakes do
\* what is not a push.
PushesPending ==
  /\ call.phase = "push" =>
       pending \subseteq call.batch
         /\ (holder \in Edits => Touches[holder] \subseteq call.batch)
  /\ call.phase \in {"fetch", "seed", "refetch"} => holder \notin Edits

\* The invariant of the edits and the pending sections.
EditInv == EditedWaits /\ PushesPending /\ EditPushedOrPending

-----------------------------------------------------------------------------
(* The kinds of steps.                                                     *)

\* The exchange is over, or starts with a GET.
Cleared == call'.pc \in {"none", "get"} /\ call'.doc = NoDoc

\* Nothing the invariants of the files speak of changes.
Stays ==
  /\ UNCHANGED <<file, log, known, pending, call, holder, done, earlier, unavailable>>
  /\ waiting \subseteq waiting'

\* An exchange ends, or starts, without a document.
Ends ==
  /\ Cleared /\ UNCHANGED <<file, log, done>>
  /\ \/ known' \in {known, 0}
     \/ Handling("seed", "answered", "ok") /\ known' = call.rev

\* An exchange ends with a document laid down in the files.
Lays ==
  /\ Cleared /\ UNCHANGED <<log, done>>
  /\ \/ /\ Handling("push", "answered", "ok")
        /\ WriteSections(call.doc, call.rev, call.batch)
     \/ /\ call.phase # "push" /\ call.pc = "got" /\ call.status = "ok" /\ call.rev > 0
        /\ WriteSections(call.doc, call.rev, {})

\* An answered GET is followed by a PUT.
Puts ==
  /\ UNCHANGED <<file, log, known, pending, holder, waiting, done, earlier, unavailable>>
  /\ call.pc = "got" /\ call.status = "ok"
  /\ call'.pc = "put" /\ call'.rev = call.rev
  /\ \/ call.phase = "push" /\ call'.phase = "push" /\ call'.batch = call.batch
     \/ call.phase = "fetch" /\ call'.phase = "seed"
  /\ \A s \in Sections :
       call'.doc[s] = IF s \in Carried' THEN file[s] ELSE call.doc[s]

\* A GET just issued has brought no document.
LEMMA GetFields ==
  \A phase, batch, attempt :
    /\ Get(phase, batch, attempt).pc = "get"
    /\ Get(phase, batch, attempt).doc = NoDoc
    /\ Get(phase, batch, attempt).phase = phase
    /\ Get(phase, batch, attempt).batch = batch
  BY DEF Get, NoCall

\* What releases the lock clears the call.
LEMMA ReleaseClears == Release => Cleared /\ call'.phase = "none"
  BY DEF Release, Cleared, NoCall

\* A sync that goes on to its fetch has cleared the call too.
LEMMA ThenFetchClears ==
  ASSUME NEW w, ThenFetch(w)
  PROVE  Cleared /\ call'.phase \in {"none", "fetch"} /\ holder' \in {w, None}
  BY GetFields, ReleaseClears DEF ThenFetch, Cleared, Release

\* So has the end of a push: its holder goes on to a fetch if it is a sync.
LEMMA EndPushClears ==
  ASSUME NEW ok \in BOOLEAN, EndPush(ok)
  PROVE  /\ Cleared /\ call'.phase \in {"none", "fetch"}
         /\ holder' \in {holder, None}
         /\ holder \in Edits => call'.phase = "none"
<1>1. CASE holder \in Edits
  BY <1>1, ReleaseClears DEF EndPush, Release
<1>2. CASE holder \notin Edits
  BY <1>2, ThenFetchClears DEF EndPush
<1>3. QED
  BY <1>1, <1>2

\* Every step is of one of these kinds.
LEMMA StepKinds ==
  ASSUME TypeOK, CallBasis, [Next]_vars
  PROVE  \/ \E e \in Edits : WriteFile(e)
         \/ Stays \/ Ends \/ Lays \/ Puts
         \/ ServeGet \/ ServePut \/ CallFails
         \/ \E a \in AppEdits, s \in Sections : AppWrites(a, s)
<1> USE DEF local, lock, ghosts, bounds
<1>0. /\ call \in Call /\ call.doc \in Docs /\ call.rev \in Nat /\ file \in Docs
      /\ call.batch \in SUBSET Sections
  BY DEF TypeOK, Call
<1>1. ASSUME NEW e \in Edits, TakeLockToPush(e)
      PROVE  Ends
  BY <1>1, GetFields DEF TakeLockToPush, Ends, Cleared
<1>2. ASSUME NEW w \in Wakes, Wake(w)
      PROVE  Stays
  BY <1>2 DEF Wake, Stays
<1>3. ASSUME NEW w \in Wakes, TakeLockToSync(w)
      PROVE  Ends
  BY <1>3, GetFields, ThenFetchClears DEF TakeLockToSync, Ends, Cleared
<1>4. CASE PushRead
  <2>1. CASE /\ Handling("push", "got", "ok")
             /\ call' = Put("push", Rebase(call.doc, call.batch), call.rev)
             /\ UNCHANGED <<holder, pending, fresh, unavailable>>
    <3>1. /\ call'.pc = "put" /\ call'.phase = "push" /\ call'.batch = call.batch
          /\ call'.doc = Rebase(call.doc, call.batch) /\ call'.rev = call.rev
      BY <1>0, <2>1, PutType, RebaseType
    <3>2. \A s \in Sections :
            call'.doc[s] = IF s \in Carried' THEN file[s] ELSE call.doc[s]
      BY <3>1 DEF Carried, Rebase
    <3>3. QED
      BY <1>4, <2>1, <3>1, <3>2 DEF PushRead, Handling, Puts
  <2>2. CASE \E ok \in BOOLEAN : EndPush(ok)
    BY <1>4, <2>2, EndPushClears DEF PushRead, Ends
  <2>3. QED
    BY <1>4, <2>1, <2>2 DEF PushRead
<1>5. CASE PushAccepted
  BY <1>5, EndPushClears DEF PushAccepted, Lays
<1>6. CASE PushRefused
  <2>1. CASE call' = Get("push", call.batch, 2)
    BY <1>6, <2>1, GetFields DEF PushRefused, Ends, Cleared
  <2>2. CASE \E ok \in BOOLEAN : EndPush(ok)
    BY <1>6, <2>2, EndPushClears DEF PushRefused, Ends
  <2>3. QED
    BY <1>6, <2>1, <2>2 DEF PushRefused
<1>7. CASE FetchRead
  <2>1. CASE /\ Handling("fetch", "got", "ok") /\ call.rev = 0
             /\ call' = Put("seed", file, 0)
             /\ UNCHANGED <<file, known, holder, unavailable, faults>>
    <3>1. /\ call'.pc = "put" /\ call'.phase = "seed"
          /\ call'.doc = file /\ call'.rev = call.rev
      BY <1>0, <2>1, PutType
    <3>2. QED
      BY <1>7, <2>1, <3>1 DEF FetchRead, Handling, Puts, Carried
  <2>2. CASE /\ Handling("fetch", "got", "ok") /\ call.rev > 0
             /\ WriteSections(call.doc, call.rev, {}) /\ Release
    BY <1>7, <2>2, ReleaseClears DEF FetchRead, Lays, Handling
  <2>3. CASE Release /\ UNCHANGED <<file, known>>
    BY <1>7, <2>3, ReleaseClears DEF FetchRead, Ends
  <2>4. QED
    BY <1>7, <2>1, <2>2, <2>3 DEF FetchRead
<1>8. CASE SeedAnswered
  BY <1>8, GetFields, ReleaseClears DEF SeedAnswered, Ends, Cleared
<1>9. CASE RefetchRead
  BY <1>9, ReleaseClears DEF RefetchRead, Lays, Ends, Handling
<1>10. CASE CancelSync \/ Restart
  BY <1>10, ReleaseClears DEF CancelSync, Restart, Ends
<1>11. CASE Expire \/ Deploy \/ UNCHANGED vars
  BY <1>11 DEF Expire, Deploy, vars, Stays
<1>12. QED
  BY <1>1, <1>2, <1>3, <1>4, <1>5, <1>6, <1>7, <1>8, <1>9, <1>10, <1>11
  DEF Next, Handle, Serve

-----------------------------------------------------------------------------
(* No file is stale.                                                       *)

\* What one write of a document's sections does to the files and to the
\* remembered revision: unless some file could not be written, the revision
\* is the document's and every section it has is in its file.
LEMMA WriteSectionsEffect ==
  ASSUME file \in Docs, NEW doc \in Docs, NEW rev \in Nat,
         NEW batch \in SUBSET Sections, WriteSections(doc, rev, batch)
  PROVE  /\ \A s \in Sections :
              \/ file'[s] = file[s]
              \/ s \notin batch /\ doc[s] # Absent /\ file'[s] = doc[s]
         /\ \/ known' = known
            \/ /\ known' = rev
               /\ \A s \in Sections \ batch : doc[s] # Absent => file'[s] = doc[s]
<1>1. PICK broken \in SUBSET Writable(doc, batch) :
        file' = Written(doc, batch, broken) /\ known' = Remember(rev, broken)
  BY DEF WriteSections
<1>2. \A s \in Sections :
        file'[s] = IF s \in Writable(doc, batch) \ broken THEN doc[s] ELSE file[s]
  BY <1>1 DEF Written
<1>3. QED
  BY <1>1, <1>2 DEF Writable, Remember

\* What was held since a revision still is when a document is appended, and
\* nothing else is but what that document holds.
LEMMA HeldAppend ==
  ASSUME log \in Seq(Docs), NEW d \in Docs, log' = Append(log, d),
         NEW r \in Nat, NEW s \in Sections, NEW v
  PROVE  /\ HeldSince(r, s, v) => HeldSince(r, s, v)'
         /\ HeldSince(r, s, v)' => HeldSince(r, s, v) \/ d[s] = v
         /\ r <= Len(log) + 1 /\ d[s] = v => HeldSince(r, s, v)'
<1>1. /\ Len(log') = Len(log) + 1 /\ Len(log) \in Nat
      /\ \A i \in 1 .. Len(log) : log'[i] = log[i]
      /\ log'[Len(log) + 1] = d
  OBVIOUS
<1>2. QED
  BY <1>1 DEF HeldSince

\* A file that is not older than a revision stays so when the log grows.
LEMMA NotOlderAppend ==
  ASSUME log \in Seq(Docs), NEW d \in Docs, log' = Append(log, d),
         NEW r \in Nat, r <= Len(log) + 1, NEW s \in Sections,
         NotOlder(r, s), file'[s] = file[s]
  PROVE  NotOlder(r, s)'
<1> DEFINE v == file[s]
<1>1. /\ HeldSince(r, s, v) => HeldSince(r, s, v)'
      /\ HeldSince(1, s, v)' => HeldSince(1, s, v) \/ d[s] = v
      /\ d[s] = v => HeldSince(r, s, v)'
  BY HeldAppend
<1>2. /\ NotOlder(r, s) <=> HeldSince(r, s, v) \/ ~HeldSince(1, s, v)
      /\ NotOlder(r, s)' <=> HeldSince(r, s, v)' \/ ~HeldSince(1, s, v)'
  BY DEF NotOlder, HeldSince
<1>3. QED
  BY <1>1, <1>2

\* Types of the parts of a call, and the document of its revision.
LEMMA CallTypes ==
  ASSUME TypeOK
  PROVE  /\ file \in Docs /\ log \in Seq(Docs) /\ Len(log) \in Nat
         /\ known \in Nat /\ Doc \in Docs /\ call \in Call
         /\ call.doc \in Docs /\ call.rev \in Nat
         /\ call.batch \in SUBSET Sections /\ Carried \in SUBSET Sections
  BY DocTypes DEF TypeOK, Call, Carried

\* What an answer to a call changes of it, and of the log.
LEMMA ServeGetEffect ==
  ASSUME TypeOK, ServeGet
  PROVE  /\ UNCHANGED <<file, log, known, pending, waiting, holder, done,
                        earlier, unavailable>>
         /\ call'.pc = "got" /\ call'.phase = call.phase
         /\ call'.batch = call.batch
         /\ \/ call'.status = "ok" /\ call'.doc = Doc /\ call'.rev = Len(log)
            \/ call'.status = "notfound" /\ call'.doc = call.doc
  BY CallTypes DEF ServeGet, Call, local, ghosts

LEMMA ServePutEffect ==
  ASSUME TypeOK, ServePut
  PROVE  /\ UNCHANGED <<file, known, pending, waiting, holder, done, earlier,
                        unavailable>>
         /\ call.pc = "put" /\ call'.pc = "answered" /\ call'.phase = call.phase
         /\ call'.batch = call.batch /\ call'.doc = call.doc
         /\ \/ /\ call.rev = Len(log) /\ log' = Append(log, call.doc)
               /\ call'.status = "ok" /\ call'.rev = Len(log) + 1
            \/ log' = log /\ call'.status \in {"conflict", "notfound"}
  BY CallTypes DEF ServePut, Call, local, ghosts

LEMMA CallFailsEffect ==
  ASSUME TypeOK, CallFails
  PROVE  /\ UNCHANGED <<file, log, known, pending, waiting, holder, done,
                        earlier, unavailable>>
         /\ call'.pc \in {"got", "answered"} /\ call'.phase = call.phase
         /\ call'.batch = call.batch
         /\ call'.status = "fail" /\ call'.doc = call.doc
  BY CallTypes DEF CallFails, Call, local, ghosts

LEMMA AppWritesEffect ==
  ASSUME TypeOK, NEW a \in AppEdits, NEW s \in Sections, AppWrites(a, s)
  PROVE  /\ UNCHANGED <<file, known, pending, call, waiting, holder, done,
                        earlier, unavailable>>
         /\ \E d \in Docs : /\ log' = Append(log, d)
                            /\ \A t \in Sections : d[t] \in {a, Absent, Doc[t]}
<1>1. PICK v \in {a, Absent} : log' = Append(log, [Doc EXCEPT ![s] = v])
  BY DEF AppWrites
<1>2. /\ [Doc EXCEPT ![s] = v] \in Docs
      /\ \A t \in Sections : [Doc EXCEPT ![s] = v][t] \in {a, Absent, Doc[t]}
  BY CallTypes DEF Docs, Contents
<1>3. QED
  BY <1>1, <1>2 DEF AppWrites, local, lock, bounds

\* The documents of revisions in the log stay when the log grows.
LEMMA AtAppend ==
  ASSUME TypeOK, NEW d \in Docs, log' = Append(log, d)
  PROVE  /\ Len(log') = Len(log) + 1
         /\ \A r \in 0 .. Len(log) : At(r)' = At(r)
         /\ \A r : r = Len(log) + 1 => At(r)' = d
<1>1. log \in Seq(Docs) /\ Len(log) \in Nat
  BY CallTypes
<1>2. Len(log) + 1 # 0 /\ log'[Len(log) + 1] = d
  BY <1>1
<1>3. ASSUME NEW r, r = Len(log) + 1 PROVE At(r)' = d
  BY <1>2, <1>3 DEF At
<1>4. QED
  BY <1>1, <1>3, AppendKeeps

\* A laid document is one of the log, at a revision that is not older than
\* the remembered one.
LEMMA LaidDocument ==
  ASSUME TypeOK, Revisions, Snapshot, Lays
  PROVE  /\ call.rev \in known .. Len(log) /\ call.rev > 0 /\ Learned
         /\ call.doc = log[call.rev]
         /\ \A s \in Sections : HeldSince(call.rev, s, call.doc[s])
<1>1. /\ call.rev \in known .. Len(log) /\ call.rev > 0 /\ Learned
      /\ call.doc = At(call.rev)
  BY DEF Lays, Handling, Learned, Revisions, Snapshot
<1>2. QED
  BY <1>1, CallTypes DEF At, HeldSince

\* The sections whose files a laid document leaves alone: those just pushed.
Excluded == IF call.phase = "push" THEN call.batch ELSE {}

\* What laying a document down does to the files and the remembered revision.
LEMMA LaysEffect ==
  ASSUME TypeOK, Lays
  PROVE  /\ \A s \in Sections :
              \/ file'[s] = file[s]
              \/ s \notin Excluded /\ call.doc[s] # Absent /\ file'[s] = call.doc[s]
         /\ \/ known' = known
            \/ /\ known' = call.rev
               /\ \A s \in Sections \ Excluded :
                    call.doc[s] # Absent => file'[s] = call.doc[s]
<1>1. WriteSections(call.doc, call.rev, Excluded)
  BY DEF Lays, Excluded, Handling
<1>2. Excluded \in SUBSET Sections
  BY CallTypes DEF Excluded
<1>3. QED
  BY <1>1, <1>2, CallTypes, WriteSectionsEffect

-----------------------------------------------------------------------------
(* The invariant of the files is kept.                                     *)

\* A step of an edit gives its sections contents nobody held before.
LEMMA OwnStep ==
  ASSUME TypeOK, CallBasis, Revisions, Snapshot, OwnContents, [Next]_vars
  PROVE  OwnContents'
<1> SUFFICES ASSUME NEW e \in Edits \ done', NEW s \in Sections
             PROVE  file'[s] # e /\ call'.doc[s] # e /\ ~HeldSince(1, s, e)'
  BY DEF OwnContents, HeldSince
<1>1. e # Absent /\ e \notin AppEdits /\ NoDoc[s] = Absent
  BY ConstantsAssumption DEF NoDoc
<1>2. ASSUME e \notin done
      PROVE  file[s] # e /\ call.doc[s] # e /\ ~HeldSince(1, s, e)
  BY <1>2 DEF OwnContents
<1>3. ASSUME log' = log PROVE HeldSince(1, s, e)' <=> HeldSince(1, s, e)
  BY <1>3 DEF HeldSince
<1>4. ASSUME NEW f \in Edits, WriteFile(f)
      PROVE  file'[s] # e /\ call'.doc[s] # e /\ ~HeldSince(1, s, e)'
  <2>1. e # f /\ e \notin done /\ log' = log /\ call' = call
    BY <1>4 DEF WriteFile
  <2>2. file'[s] \in {f, file[s]}
    BY <1>4 DEF WriteFile
  <2>3. QED
    BY <1>2, <1>3, <2>1, <2>2
<1>5. CASE Stays
  BY <1>2, <1>3, <1>5 DEF Stays
<1>6. CASE Ends
  BY <1>1, <1>2, <1>3, <1>6 DEF Ends, Cleared
<1>7. CASE Lays
  BY <1>1, <1>2, <1>3, <1>7, LaysEffect DEF Lays, Cleared
<1>8. CASE Puts
  BY <1>2, <1>3, <1>8 DEF Puts
<1>9. Doc[s] # e \/ e \in done
  <2>1. log = <<>> \/ Len(log) \in 1 .. Len(log)
    BY CallTypes
  <2>2. CASE log = <<>>
    BY <1>1, <2>2 DEF Doc
  <2>3. CASE log # <<>>
    BY <1>2, <2>1, <2>3 DEF Doc, HeldSince
  <2>4. QED
    BY <2>2, <2>3
<1>10. CASE ServeGet
  BY <1>2, <1>3, <1>9, <1>10, ServeGetEffect
<1>11. CASE ServePut
  <2>1. CASE log' = log
    BY <1>2, <1>3, <1>11, <2>1, ServePutEffect
  <2>2. CASE log' = Append(log, call.doc)
    <3>1. HeldSince(1, s, e)' => HeldSince(1, s, e) \/ call.doc[s] = e
      BY <2>2, CallTypes, HeldAppend
    <3>2. QED
      BY <1>2, <1>11, <3>1, ServePutEffect
  <2>3. QED
    BY <1>11, <2>1, <2>2, ServePutEffect
<1>12. CASE CallFails
  BY <1>2, <1>3, <1>12, CallFailsEffect
<1>13. ASSUME NEW a \in AppEdits, NEW t \in Sections, AppWrites(a, t)
       PROVE  file'[s] # e /\ call'.doc[s] # e /\ ~HeldSince(1, s, e)'
  <2>1. PICK d \in Docs : /\ log' = Append(log, d)
                          /\ d[s] \in {a, Absent, Doc[s]}
    BY <1>13, AppWritesEffect
  <2>2. HeldSince(1, s, e)' => HeldSince(1, s, e) \/ d[s] = e
    BY <2>1, CallTypes, HeldAppend
  <2>3. QED
    BY <1>1, <1>2, <1>9, <1>13, <2>1, <2>2, AppWritesEffect
<1>14. QED
  BY <1>4, <1>5, <1>6, <1>7, <1>8, <1>10, <1>11, <1>12, <1>13, StepKinds

\* The remembered revision and that of a call stay revisions of the log.
LEMMA RevisionsStep ==
  ASSUME TypeOK, CallBasis, Revisions, Snapshot, [Next]_vars
  PROVE  Revisions'
<1> USE DEF Revisions, Learned
<1>1. CASE \E e \in Edits : WriteFile(e)
  BY <1>1 DEF WriteFile, local
<1>2. CASE Stays
  BY <1>2 DEF Stays
<1>3. CASE Ends
  BY <1>3, CallTypes DEF Ends, Cleared, Handling
<1>4. CASE Lays
  BY <1>4, LaysEffect, LaidDocument DEF Lays, Cleared
<1>5. CASE Puts
  BY <1>5 DEF Puts
<1>6. CASE ServeGet
  BY <1>6, ServeGetEffect, CallTypes
<1>7. CASE ServePut
  BY <1>7, ServePutEffect, AtAppend, CallTypes
<1>8. CASE CallFails
  BY <1>8, CallFailsEffect
<1>9. CASE \E a \in AppEdits, s \in Sections : AppWrites(a, s)
  BY <1>9, AppWritesEffect, AtAppend, CallTypes
<1>10. QED
  BY <1>1, <1>2, <1>3, <1>4, <1>5, <1>6, <1>7, <1>8, <1>9, StepKinds

\* What a call brings back stays a document of the log.
LEMMA SnapshotStep ==
  ASSUME TypeOK, CallBasis, Revisions, Snapshot, [Next]_vars
  PROVE  Snapshot'
<1>1. ASSUME UNCHANGED <<call, log>> PROVE Snapshot'
  BY <1>1 DEF Snapshot, At, NoDoc
<1>2. CASE \E e \in Edits : WriteFile(e)
  BY <1>1, <1>2 DEF WriteFile
<1>3. CASE Stays
  BY <1>1, <1>3 DEF Stays
<1>4. CASE Ends \/ Lays \/ Puts
  BY <1>4 DEF Ends, Lays, Cleared, Puts, Snapshot
<1>5. CASE ServeGet
  <2>1. At(Len(log)) = Doc
    BY CallTypes DEF At, Doc
  <2>2. QED
    BY <1>5, <2>1, ServeGetEffect DEF Snapshot, At, NoDoc
<1>6. CASE ServePut
  BY <1>6, ServePutEffect, AtAppend, CallTypes DEF Snapshot, At, NoDoc
<1>7. CASE CallFails
  BY <1>7, CallFailsEffect DEF Snapshot
<1>8. CASE \E a \in AppEdits, s \in Sections : AppWrites(a, s)
  <2>1. PICK d \in Docs : log' = Append(log, d) /\ call' = call
    BY <1>8, AppWritesEffect
  <2>2. \A r \in 0 .. Len(log) : At(r)' = At(r)
    BY <2>1, AtAppend
  <2>3. Learned => call.rev \in 0 .. Len(log)
    BY CallTypes DEF Revisions
  <2>4. QED
    BY <2>1, <2>2, <2>3 DEF Snapshot, Learned, At, NoDoc
<1>9. QED
  BY <1>2, <1>3, <1>4, <1>5, <1>6, <1>7, <1>8, StepKinds

\* What a PUT carries stays the files' contents, or what the server never had.
LEMMA CarriesStep ==
  ASSUME TypeOK, CallBasis, Revisions, Snapshot, OwnContents, CarriesFiles,
         [Next]_vars
  PROVE  CarriesFiles'
<1>1. ASSUME UNCHANGED <<file, log, call>> PROVE CarriesFiles'
  BY <1>1 DEF CarriesFiles, Carried, NotOlder, HeldSince
<1>2. ASSUME call'.pc \in {"none", "get", "got"} \/ call'.status = "fail",
             call'.pc # "put"
      PROVE  CarriesFiles'
  BY <1>2 DEF CarriesFiles
<1>3. ASSUME NEW e \in Edits, WriteFile(e)
      PROVE  CarriesFiles'
  <2>1. UNCHANGED <<log, call>> /\ e \notin done
    BY <1>3 DEF WriteFile
  <2>2. \A s \in Sections : file'[s] \in {e, file[s]}
    BY <1>3 DEF WriteFile
  <2>3. \A s \in Sections : ~HeldSince(1, s, e)
    BY <1>3, <2>1 DEF OwnContents
  <2>4. QED
    BY <2>1, <2>2, <2>3, CallTypes DEF CarriesFiles, Carried, NotOlder, HeldSince
<1>4. CASE Stays
  BY <1>1, <1>4 DEF Stays
<1>5. CASE Ends \/ Lays
  BY <1>2, <1>5 DEF Ends, Lays, Cleared
<1>6. CASE Puts
  <2>1. \A s \in Sections : s \in Carried' => file'[s] = call'.doc[s]
    BY <1>6 DEF Puts
  <2>2. Carried' \in SUBSET Sections
    BY <1>6, CallTypes DEF Puts, Carried
  <2>3. QED
    BY <1>6, <2>1, <2>2 DEF Puts, CarriesFiles
<1>7. CASE ServeGet
  BY <1>2, <1>7, ServeGetEffect
<1>8. CASE ServePut
  <2>1. Carried' = Carried
    BY <1>8, ServePutEffect DEF Carried
  <2>2. CASE log' = log /\ call'.status \in {"conflict", "notfound"}
    BY <1>8, <2>2, ServePutEffect DEF CarriesFiles
  <2>3. ASSUME call.rev = Len(log), log' = Append(log, call.doc),
               call'.status = "ok", call'.rev = Len(log) + 1
        PROVE  CarriesFiles'
    <3>1. ASSUME NEW s \in Carried, NEW r \in Nat, r = Len(log) + 1,
                 NEW v, v = file[s]
          PROVE  HeldSince(r, s, v)' \/ ~HeldSince(1, s, v)'
      <4>1. v = call.doc[s] \/ ~HeldSince(1, s, v)
        BY <1>8, <2>3, <3>1, ServePutEffect DEF CarriesFiles
      <4>2. /\ HeldSince(1, s, v)' => HeldSince(1, s, v) \/ call.doc[s] = v
            /\ call.doc[s] = v => HeldSince(r, s, v)'
        BY <2>3, <3>1, CallTypes, HeldAppend
      <4>3. QED
        BY <4>1, <4>2
    <3>2. \A s \in Carried : \A r \in Nat : r = Len(log) + 1 => NotOlder(r, s)'
      BY <1>8, <3>1, ServePutEffect DEF NotOlder, HeldSince
    <3>3. \A s \in Carried : NotOlder(call.rev, s)'
      BY <2>3, <3>2, CallTypes
    <3>4. QED
      BY <1>8, <2>1, <3>3, ServePutEffect DEF CarriesFiles
  <2>4. QED
    BY <1>8, <2>2, <2>3, ServePutEffect
<1>9. CASE CallFails
  BY <1>2, <1>9, CallFailsEffect
<1>10. ASSUME NEW a \in AppEdits, NEW t \in Sections, AppWrites(a, t)
       PROVE  CarriesFiles'
  <2>1. PICK d \in Docs : log' = Append(log, d)
    BY <1>10, AppWritesEffect
  <2>2. call' = call /\ file' = file /\ Carried' = Carried
    BY <1>10, AppWritesEffect DEF Carried
  <2>3. Learned => call.rev <= Len(log)
    BY CallTypes DEF Revisions
  <2>4. Len(log') = Len(log) + 1
    BY <2>1, CallTypes
  <2>5. ASSUME call.pc = "answered", call.status = "ok", NEW s \in Carried
        PROVE  NotOlder(call.rev, s)'
    <3>1. \A r \in Nat : r <= Len(log) + 1 /\ NotOlder(r, s) => NotOlder(r, s)'
      BY <2>1, <2>2, CallTypes, NotOlderAppend
    <3>2. NotOlder(call.rev, s) /\ call.rev <= Len(log) + 1
      BY <2>3, <2>5, CallTypes DEF CarriesFiles, Learned
    <3>3. QED
      BY <2>2, <3>1, <3>2, CallTypes
  <2>6. call.pc = "put" => call'.rev # Len(log')
    BY <2>2, <2>3, <2>4, CallTypes DEF Learned
  <2>7. QED
    BY <2>2, <2>5, <2>6 DEF CarriesFiles
<1>11. QED
  BY <1>3, <1>4, <1>5, <1>6, <1>7, <1>8, <1>9, <1>10, StepKinds

\* No step leaves a file stale behind the remembered revision.
LEMMA NoStaleStep ==
  ASSUME TypeOK, CallBasis, FileInv, [Next]_vars
  PROVE  NoStaleFile'
<1> USE DEF FileInv
<1> DEFINE Kept(r, s) == log[r][s] = Absent \/ NotOlder(r, s)
<1>0. NoStaleFile <=> (known > 0 => \A s \in Sections : Kept(known, s))
  BY DEF NoStaleFile, NotOlder
<1>1. ASSUME UNCHANGED <<file, log>>, known' \in {known, 0} PROVE NoStaleFile'
  BY <1>1 DEF NoStaleFile, HeldSince
<1>2. ASSUME NEW e \in Edits, WriteFile(e)
      PROVE  NoStaleFile'
  <2>1. UNCHANGED <<log, known>> /\ e \notin done
    BY <1>2 DEF WriteFile, local
  <2>2. \A s \in Sections : file'[s] \in {e, file[s]}
    BY <1>2 DEF WriteFile
  <2>3. \A s \in Sections : ~HeldSince(1, s, e)
    BY <1>2, <2>1 DEF OwnContents
  <2>4. QED
    BY <2>1, <2>2, <2>3 DEF NoStaleFile, HeldSince
<1>3. CASE Stays \/ Puts
  BY <1>1, <1>3 DEF Stays, Puts
<1>4. CASE Ends
  <2>1. CASE Handling("seed", "answered", "ok") /\ known' = call.rev
    <3>1. \A s \in Sections : NotOlder(call.rev, s)
      BY <2>1 DEF Handling, CarriesFiles, Carried
    <3>2. QED
      BY <1>4, <2>1, <3>1 DEF Ends, NoStaleFile, NotOlder, HeldSince
  <2>2. QED
    BY <1>1, <1>4, <2>1 DEF Ends
<1>5. CASE Lays
  <2>1. log' = log
    BY <1>5 DEF Lays
  <2>2. SUFFICES ASSUME known' > 0, NEW s \in Sections
                 PROVE  \/ log[known'][s] = Absent
                        \/ HeldSince(known', s, file'[s])
                        \/ ~HeldSince(1, s, file'[s])
    BY <2>1 DEF NoStaleFile, HeldSince
  <2>3. CASE file'[s] = file[s] /\ known' = known
    BY <2>2, <2>3 DEF NoStaleFile
  <2>4. CASE file'[s] = call.doc[s]
    <3>1. known' \in {known, call.rev}
      BY <1>5, LaysEffect
    <3>2. known' <= call.rev /\ HeldSince(call.rev, s, call.doc[s])
      BY <1>5, <3>1, LaidDocument, CallTypes
    <3>3. HeldSince(known', s, call.doc[s])
      BY <3>1, <3>2, CallTypes DEF HeldSince
    <3>4. QED
      BY <2>4, <3>3
  <2>5. CASE file'[s] = file[s] /\ known' = call.rev /\ s \in Excluded
    <3>1. Handling("push", "answered", "ok") /\ Carried = Excluded
      BY <1>5, <2>5 DEF Lays, Excluded, Handling, Carried
    <3>2. NotOlder(call.rev, s)
      BY <2>5, <3>1 DEF CarriesFiles, Handling
    <3>3. QED
      BY <2>5, <3>2 DEF NotOlder
  <2>6. CASE known' = call.rev /\ call.doc[s] = Absent
    BY <1>5, <2>6, LaidDocument
  <2>7. QED
    BY <1>5, <2>3, <2>4, <2>5, <2>6, LaysEffect
<1>6. CASE ServeGet \/ CallFails
  BY <1>1, <1>6, ServeGetEffect, CallFailsEffect
<1>7. ASSUME NEW d \in Docs, log' = Append(log, d), UNCHANGED <<file, known>>
      PROVE  NoStaleFile'
  <2>1. SUFFICES ASSUME known > 0, NEW s \in Sections
                 PROVE  log'[known][s] = Absent \/ NotOlder(known, s)'
    BY <1>7 DEF NoStaleFile, NotOlder, HeldSince
  <2>2. known \in 1 .. Len(log)
    BY <2>1, CallTypes DEF Revisions
  <2>3. log'[known] = log[known]
    BY <1>7, <2>2, CallTypes
  <2>4. log[known][s] = Absent \/ NotOlder(known, s)
    BY <1>0, <2>1
  <2>5. \A r \in Nat : r <= Len(log) + 1 /\ NotOlder(r, s) => NotOlder(r, s)'
    BY <1>7, CallTypes, NotOlderAppend
  <2>6. NotOlder(known, s) => NotOlder(known, s)'
    BY <1>7, <2>2, <2>5, CallTypes
  <2>7. QED
    BY <2>3, <2>4, <2>6
<1>8. CASE ServePut
  BY <1>1, <1>7, <1>8, ServePutEffect, CallTypes
<1>9. CASE \E a \in AppEdits, s \in Sections : AppWrites(a, s)
  BY <1>7, <1>9, AppWritesEffect
<1>10. QED
  BY <1>2, <1>3, <1>4, <1>5, <1>6, <1>8, <1>9, StepKinds

\* Initially nothing is remembered, no call is made and no edit's contents are
\* anywhere.
LEMMA FileInit == Init => FileInv
<1> SUFFICES ASSUME Init PROVE FileInv
  OBVIOUS
<1>1. TypeOK
  BY InitType
<1>2. call = NoCall /\ call.pc = "none" /\ call.doc = NoDoc /\ known = 0
  BY DEF Init, NoCall
<1>3. \A s \in Sections : /\ file[s] \in {Installed, Absent} /\ NoDoc[s] = Absent
                          /\ \A i \in 1 .. Len(log) : log[i][s] \in {Installed, Absent}
  BY DEF Init, NoDoc
<1>4. OwnContents
  BY <1>2, <1>3, ConstantsAssumption DEF OwnContents, HeldSince
<1>5. Revisions /\ Snapshot /\ CarriesFiles /\ NoStaleFile
  BY <1>1, <1>2, CallTypes DEF Revisions, Learned, Snapshot, CarriesFiles, NoStaleFile
<1>6. QED
  BY <1>4, <1>5 DEF FileInv

\* Every reachable state satisfies the invariant of the files.
THEOREM FilesInductive == Spec => [](IInv /\ FileInv)
<1>1. Init => IInv /\ FileInv
  BY InitType, NoCallType, FileInit DEF Init, CallBasis, IInv
<1>2. IInv /\ FileInv /\ [Next]_vars => (IInv /\ FileInv)'
  BY TypeStep, BasisStep, OwnStep, RevisionsStep, SnapshotStep, CarriesStep,
     NoStaleStep DEF IInv, FileInv
<1>3. QED
  BY <1>1, <1>2, PTL DEF Spec

\* The files never sit stale behind the remembered revision, whatever edits,
\* documents, faults and restarts come in between.
THEOREM FilesNotStale == Spec => []NoStaleFile
<1>1. IInv /\ FileInv => NoStaleFile
  BY DEF FileInv
<1>2. QED
  BY <1>1, FilesInductive, PTL

-----------------------------------------------------------------------------
(* No edit is forgotten.                                                   *)

\* What a PUT read from the files is still there, or its editor waits.
LEMMA EditedWaitsStep ==
  ASSUME TypeOK, CallBasis, EditedWaits, [Next]_vars
  PROVE  EditedWaits'
<1> USE DEF Carrying
<1>1. ASSUME UNCHANGED <<file, unavailable>>, waiting \subseteq waiting',
             call'.phase = call.phase, call'.batch = call.batch,
             call'.doc = call.doc, Carrying' => Carrying
      PROVE  EditedWaits'
  BY <1>1 DEF EditedWaits, Carried
<1>2. ASSUME NEW e \in Edits, WriteFile(e)
      PROVE  EditedWaits'
  <2>1. UNCHANGED <<call, unavailable>>
        /\ (unavailable \/ waiting' = waiting \cup {e})
    BY <1>2 DEF WriteFile, local
  <2>2. \A s \in Sections : file'[s] \in {e, file[s]}
    BY <1>2 DEF WriteFile
  <2>3. QED
    BY <2>1, <2>2, CallTypes DEF EditedWaits, Carried
<1>3. CASE Stays
  BY <1>1, <1>3 DEF Stays
<1>4. CASE Ends \/ Lays
  BY <1>4 DEF Ends, Lays, Cleared, EditedWaits
<1>5. CASE Puts
  <2>1. \A s \in Sections : s \in Carried' => file'[s] = call'.doc[s]
    BY <1>5 DEF Puts
  <2>2. Carried' \in SUBSET Sections
    BY <1>5, CallTypes DEF Puts, Carried
  <2>3. QED
    BY <2>1, <2>2 DEF EditedWaits
<1>6. CASE ServeGet
  BY <1>6, ServeGetEffect DEF EditedWaits
<1>7. CASE ServePut
  BY <1>1, <1>7, ServePutEffect
<1>8. CASE CallFails
  BY <1>8, CallFailsEffect DEF EditedWaits
<1>9. CASE \E a \in AppEdits, s \in Sections : AppWrites(a, s)
  BY <1>1, <1>9, AppWritesEffect
<1>10. QED
  BY <1>2, <1>3, <1>4, <1>5, <1>6, <1>7, <1>8, <1>9, StepKinds

\* A push never leaves a pending section, or its own edit's, out of its batch.
LEMMA PushesPendingStep ==
  ASSUME TypeOK, CallBasis, PushesPending, [Next]_vars
  PROVE  PushesPending'
<1> USE DEF local, lock, ghosts, bounds
<1>1. ASSUME UNCHANGED <<pending, holder>>, call'.phase = call.phase,
             call'.batch = call.batch
      PROVE  PushesPending'
  BY <1>1 DEF PushesPending
<1>2. ASSUME call'.phase = "none" \/ (call'.phase = "fetch" /\ holder' \notin Edits)
      PROVE  PushesPending'
  BY <1>2 DEF PushesPending
<1>3. None \notin Edits /\ \A w \in Wakes : w \notin Edits
  BY ConstantsAssumption DEF Tasks
<1>4. ASSUME NEW e \in Edits, TakeLockToPush(e)
      PROVE  PushesPending'
  BY <1>4, GetFields DEF TakeLockToPush, PushesPending, BatchOf
<1>5. ASSUME NEW w \in Wakes, TakeLockToSync(w)
      PROVE  PushesPending'
  <2>1. CASE ThenFetch(w)
    BY <1>2, <1>3, <2>1, ThenFetchClears
  <2>2. CASE holder' = w /\ call' = Get("push", pending, 1)
    BY <1>3, <1>5, <2>2, GetFields DEF TakeLockToSync, PushesPending
  <2>3. QED
    BY <1>5, <2>1, <2>2 DEF TakeLockToSync
<1>6. ASSUME NEW ok \in BOOLEAN, EndPush(ok)
      PROVE  PushesPending'
  BY <1>2, <1>3, <1>6, EndPushClears
<1>7. ASSUME Release PROVE PushesPending'
  BY <1>2, <1>7, ReleaseClears
<1>8. ASSUME UNCHANGED <<pending, call, holder>> PROVE PushesPending'
  BY <1>1, <1>8
<1>9. CASE \E e \in Edits : WriteFile(e)
  BY <1>8, <1>9 DEF WriteFile
<1>10. CASE \E w \in Wakes : Wake(w)
  BY <1>8, <1>10 DEF Wake
<1>11. CASE PushRead
  <2>1. CASE /\ Handling("push", "got", "ok")
             /\ call' = Put("push", Rebase(call.doc, call.batch), call.rev)
             /\ UNCHANGED <<holder, pending>>
    BY <1>1, <2>1, CallTypes, PutType, RebaseType DEF Handling
  <2>2. QED
    BY <1>6, <1>11, <2>1 DEF PushRead
<1>12. CASE PushAccepted
  BY <1>6, <1>12 DEF PushAccepted
<1>13. CASE PushRefused
  <2>1. CASE call.phase = "push" /\ call' = Get("push", call.batch, 2)
             /\ UNCHANGED <<holder, pending>>
    BY <1>1, <2>1, GetFields
  <2>2. QED
    BY <1>6, <1>13, <2>1 DEF PushRefused, Handling
<1>14. CASE FetchRead
  <2>1. CASE call.phase = "fetch" /\ call' = Put("seed", file, 0) /\ holder' = holder
    <3>1. call'.phase = "seed"
      BY <2>1, CallTypes, PutType
    <3>2. QED
      BY <2>1, <3>1 DEF PushesPending
  <2>2. QED
    BY <1>7, <1>14, <2>1 DEF FetchRead, Handling
<1>15. CASE SeedAnswered
  <2>1. CASE call.phase = "seed" /\ call' = Get("refetch", {}, 1) /\ holder' = holder
    BY <2>1, GetFields DEF PushesPending
  <2>2. QED
    BY <1>7, <1>15, <2>1 DEF SeedAnswered, Handling
<1>16. CASE RefetchRead \/ CancelSync \/ Restart
  BY <1>7, <1>16 DEF RefetchRead, CancelSync, Restart
<1>17. CASE ServeGet \/ ServePut \/ CallFails
  BY <1>1, <1>17, ServeGetEffect, ServePutEffect, CallFailsEffect
<1>18. CASE \E a \in AppEdits, s \in Sections : AppWrites(a, s)
  BY <1>8, <1>18, AppWritesEffect
<1>19. CASE Expire \/ Deploy \/ UNCHANGED vars
  BY <1>8, <1>19 DEF Expire, Deploy, vars
<1>20. QED
  BY <1>4, <1>5, <1>9, <1>10, <1>11, <1>12, <1>13, <1>14, <1>15, <1>16, <1>17,
     <1>18, <1>19 DEF Next, Handle, Serve

\* The claim EditPushedOrPending makes of one edit and section.
PushedOrPending(e, s) ==
  e \notin waiting \cup {holder} /\ file[s] = e =>
    s \in pending \/ HeldSince(1, s, e) \/ unavailable

\* No step forgets an edit whose handler has returned.
LEMMA EditPushedStep ==
  ASSUME TypeOK, CallBasis, FileInv, EditInv, [Next]_vars
  PROVE  EditPushedOrPending'
<1> USE DEF local, lock, ghosts, bounds
<1>0. EditPushedOrPending <=>
        \A e \in done \ earlier : \A s \in Touches[e] : PushedOrPending(e, s)
  BY DEF EditPushedOrPending, PushedOrPending
<1> SUFFICES ASSUME NEW e \in done' \ earlier', NEW s \in Touches[e],
                    e \notin waiting' \cup {holder'}, file'[s] = e
             PROVE  s \in pending' \/ HeldSince(1, s, e)' \/ unavailable'
  BY DEF EditPushedOrPending, HeldSince
<1>1. /\ s \in Sections /\ e \in Edits /\ e # None /\ e \notin Wakes
      /\ None \notin Edits /\ Edits \cap Wakes = {}
  <2>1. e \in Edits
    BY TypeStep DEF TypeOK
  <2>2. QED
    BY <2>1, ConstantsAssumption DEF Tasks
<1>2. ASSUME e \in done \ earlier PROVE PushedOrPending(e, s)
  BY <1>0, <1>2 DEF EditInv
<1>3. ASSUME log' = log PROVE HeldSince(1, s, e)' <=> HeldSince(1, s, e)
  BY <1>3 DEF HeldSince
<1>4. ASSUME UNCHANGED <<file, done, earlier, pending, unavailable>>,
             e \notin waiting \cup {holder},
             HeldSince(1, s, e) => HeldSince(1, s, e)'
      PROVE  s \in pending' \/ HeldSince(1, s, e)' \/ unavailable'
  BY <1>2, <1>4 DEF PushedOrPending
<1>5. ASSUME NEW f \in Edits, WriteFile(f)
      PROVE  s \in pending' \/ HeldSince(1, s, e)' \/ unavailable'
  <2>1. CASE e = f
    BY <1>5, <2>1 DEF WriteFile
  <2>2. CASE e # f
    <3>1. e \in done \ earlier /\ file[s] = e /\ e \notin waiting \cup {holder}
      BY <1>1, <1>5, <2>2 DEF WriteFile
    <3>2. QED
      BY <1>2, <1>3, <1>5, <3>1 DEF WriteFile, PushedOrPending
  <2>3. QED
    BY <2>1, <2>2
<1>6. ASSUME NEW f \in Edits, TakeLockToPush(f)
      PROVE  s \in pending' \/ HeldSince(1, s, e)' \/ unavailable'
  BY <1>1, <1>3, <1>4, <1>6 DEF TakeLockToPush
<1>7. ASSUME NEW w \in Wakes, TakeLockToSync(w)
      PROVE  s \in pending' \/ HeldSince(1, s, e)' \/ unavailable'
  BY <1>1, <1>3, <1>4, <1>7 DEF TakeLockToSync
<1>8. ASSUME NEW w \in Wakes, Wake(w)
      PROVE  s \in pending' \/ HeldSince(1, s, e)' \/ unavailable'
  BY <1>3, <1>4, <1>8 DEF Wake
<1>9. ASSUME call.phase = "push", EndPush(FALSE), unavailable' = unavailable,
             UNCHANGED <<file, log, waiting, done, earlier>>
      PROVE  s \in pending' \/ HeldSince(1, s, e)' \/ unavailable'
  <2>1. pending' = IF holder \in Edits THEN pending \cup call.batch ELSE pending
    BY <1>9 DEF EndPush, PendingAfter
  <2>2. CASE e = holder
    BY <1>1, <1>9, <2>1, <2>2 DEF EditInv, PushesPending
  <2>3. CASE e # holder
    BY <1>2, <1>3, <1>9, <2>1, <2>3 DEF PushedOrPending
  <2>4. QED
    BY <2>2, <2>3
<1>10. CASE PushRead
  <2>1. CASE UNCHANGED <<holder, pending, unavailable>>
    BY <1>3, <1>4, <1>10, <2>1 DEF PushRead
  <2>2. QED
    BY <1>9, <1>10, <2>1 DEF PushRead, Handling
<1>11. CASE PushRefused
  <2>1. CASE UNCHANGED <<holder, pending, unavailable>>
    BY <1>3, <1>4, <1>11, <2>1 DEF PushRefused
  <2>2. QED
    BY <1>9, <1>11, <2>1 DEF PushRefused, Handling
<1>12. ASSUME Lays, file'[s] # file[s]
       PROVE  HeldSince(1, s, e)'
  <2>1. e = call.doc[s] /\ log' = log
    BY <1>1, <1>12, LaysEffect DEF Lays
  <2>2. HeldSince(call.rev, s, e) /\ call.rev > 0
    BY <1>1, <1>12, <2>1, LaidDocument DEF FileInv
  <2>3. HeldSince(1, s, e)
    BY <2>2, CallTypes DEF HeldSince
  <2>4. QED
    BY <1>3, <2>1, <2>3
<1>13. CASE PushAccepted
  <2>0. /\ Handling("push", "answered", "ok") /\ EndPush(TRUE)
        /\ UNCHANGED <<log, unavailable, waiting, done, earlier>>
        /\ WriteSections(call.doc, call.rev, call.batch)
    BY <1>13 DEF PushAccepted
  <2>1. Lays
    BY <2>0, EndPushClears DEF Lays
  <2>2. CASE file'[s] # file[s]
    BY <1>12, <2>1, <2>2
  <2>3. ASSUME file'[s] = file[s], s \in call.batch
        PROVE  HeldSince(1, s, e)' \/ unavailable'
    <3>1. unavailable \/ e = call.doc[s] \/ e \in waiting
      BY <2>0, <2>3 DEF EditInv, EditedWaits, Carrying, Carried, Handling
    <3>2. HeldSince(call.rev, s, call.doc[s]) /\ call.rev > 0
      BY <1>1, <2>1, LaidDocument DEF FileInv
    <3>3. e = call.doc[s] => HeldSince(1, s, e)
      BY <3>2, CallTypes DEF HeldSince
    <3>4. QED
      BY <1>3, <2>0, <3>1, <3>3
  <2>4. ASSUME file'[s] = file[s], s \notin call.batch
        PROVE  HeldSince(1, s, e)' \/ unavailable'
    <3>1. e # holder /\ s \notin pending
      BY <1>1, <2>0, <2>4 DEF EditInv, PushesPending, Handling
    <3>2. QED
      BY <1>2, <1>3, <2>0, <2>4, <3>1 DEF PushedOrPending
  <2>5. QED
    BY <2>2, <2>3, <2>4
<1>14. ASSUME e # holder, UNCHANGED <<log, pending, waiting, done, earlier>>,
              file'[s] = file[s] \/ Lays, unavailable => unavailable'
       PROVE  s \in pending' \/ HeldSince(1, s, e)' \/ unavailable'
  <2>1. CASE file'[s] # file[s]
    BY <1>12, <1>14, <2>1
  <2>2. CASE file'[s] = file[s]
    BY <1>2, <1>3, <1>14, <2>2 DEF PushedOrPending
  <2>3. QED
    BY <2>1, <2>2
<1>15. ASSUME call.phase \in {"fetch", "seed", "refetch"} PROVE e # holder
  BY <1>1, <1>15 DEF EditInv, PushesPending
<1>16. CASE FetchRead
  <2>1. file'[s] = file[s] \/ Lays
    BY <1>16, ReleaseClears DEF FetchRead, Lays, Handling
  <2>2. QED
    BY <1>14, <1>15, <1>16, <2>1 DEF FetchRead, Handling
<1>17. CASE SeedAnswered
  BY <1>14, <1>15, <1>17 DEF SeedAnswered, Handling
<1>18. CASE RefetchRead
  <2>1. file'[s] = file[s] \/ Lays
    BY <1>18, ReleaseClears DEF RefetchRead, Lays, Handling
  <2>2. QED
    BY <1>14, <1>15, <1>18, <2>1 DEF RefetchRead, Handling
<1>19. CASE CancelSync
  BY <1>1, <1>14, <1>19 DEF CancelSync
<1>20. CASE Restart
  BY <1>20 DEF Restart
<1>21. CASE ServeGet \/ CallFails
  BY <1>3, <1>4, <1>21, ServeGetEffect, CallFailsEffect
<1>22. ASSUME NEW d \in Docs, log' = Append(log, d)
       PROVE  HeldSince(1, s, e) => HeldSince(1, s, e)'
  BY <1>1, <1>22, CallTypes, HeldAppend
<1>23. CASE ServePut
  BY <1>3, <1>4, <1>22, <1>23, ServePutEffect, CallTypes
<1>24. CASE \E a \in AppEdits, t \in Sections : AppWrites(a, t)
  BY <1>4, <1>22, <1>24, AppWritesEffect
<1>25. CASE Expire \/ Deploy \/ UNCHANGED vars
  BY <1>3, <1>4, <1>25 DEF Expire, Deploy, vars
<1>26. QED
  BY <1>5, <1>6, <1>7, <1>8, <1>10, <1>11, <1>13, <1>16, <1>17, <1>18, <1>19,
     <1>20, <1>21, <1>23, <1>24, <1>25 DEF Next, Handle, Serve

\* An edit whose handler has returned and that is still the working copy has
\* been on the server or is pending, unless the sync is off or its process is
\* gone: write_back never forgets a failed push.
THEOREM EditsNotForgotten == Spec => []EditPushedOrPending
<1>1. Init => EditInv
  BY NoCallType DEF Init, EditInv, EditedWaits, Carrying, PushesPending,
                    EditPushedOrPending, NoCall
<1>2. IInv /\ FileInv /\ EditInv /\ [Next]_vars => EditInv'
  BY EditedWaitsStep, PushesPendingStep, EditPushedStep DEF IInv, EditInv
<1>3. EditInv => EditPushedOrPending
  BY DEF EditInv
<1>4. QED
  BY <1>1, <1>2, <1>3, FilesInductive, PTL DEF Spec
=============================================================================
