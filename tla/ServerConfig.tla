---------------------------- MODULE ServerConfig ----------------------------
(***************************************************************************)
(* The synchronisation of the agent's local configuration files with the   *)
(* revisioned document the Filament server holds for it: per-wake sync,    *)
(* seed and write-back (server_config.py), the set_* handlers that edit a  *)
(* file and push it (__init__.py), the app editing the document, faults of *)
(* the network and the disk, and restarts of the gateway.                  *)
(*                                                                         *)
(* A section's contents are identified with the edit that wrote them.  The *)
(* tasks of the one event loop exchange with the server under              *)
(* ServerConfigSync._lock, so one outstanding exchange, call, is enough.   *)
(***************************************************************************)
EXTENDS Naturals, Sequences

CONSTANTS
  Sections,     \* the document's top-level sections
  Absent,       \* a section with no file, or not in a document
  Installed,    \* contents a file or the document held before this history
  Edits,        \* edits made by the set_* handlers, each made once
  Touches,      \* Touches[e]: the sections edit e writes and pushes in one call
  AppEdits,     \* edits made to the server's document by the app, each once
  Wakes,        \* event turns that sync before they run
  None,         \* nobody holds the lock
  MaxFaults,    \* bound on lost calls, failed file writes and cancelled syncs
  MaxRestarts   \* bound on restarts of the gateway

Contents == Edits \cup AppEdits \cup {Installed, Absent}
Tasks    == Edits \cup Wakes

ASSUME ConstantsAssumption ==
  /\ Touches \in [Edits -> SUBSET Sections]
  /\ Edits \cap Wakes = {}
  /\ None \notin Tasks
  /\ Absent \notin Edits \cup AppEdits \cup {Installed}
  /\ Edits \cap (AppEdits \cup {Installed}) = {}
  /\ MaxFaults \in Nat
  /\ MaxRestarts \in Nat

VARIABLES
  file,         \* the store files, by section
  log,          \* the server's documents; its revision is the log's length
  endpoint,     \* does the server have /mcp/agents/config?
  known,        \* _revision, 0 while it is None
  pending,      \* _pending_write_back
  fresh,        \* _last_sync lies within the TTL
  unavailable,  \* _config_unavailable
  waiting,      \* tasks queued on _lock
  holder,       \* the task that holds _lock
  call,         \* the holder's exchange with the server
  done,         \* edits made so far
  earlier,      \* edits made by earlier processes
  appDone,      \* app edits made so far
  faults, restarts

local  == <<known, pending, fresh, unavailable>>
lock   == <<waiting, holder, call>>
bounds == <<faults, restarts>>
ghosts == <<done, earlier, appDone>>
vars   == <<file, log, endpoint, local, lock, ghosts, bounds>>

-----------------------------------------------------------------------------
(* Documents and files.                                                    *)

Docs  == [Sections -> Contents]
NoDoc == [s \in Sections |-> Absent]

\* The server's current document; revision 0 stands for "never written".
Doc == IF log = <<>> THEN NoDoc ELSE log[Len(log)]

\* The rebased document of a write-back: the fetched one, with the sections
\* of the batch replaced by what the local files hold.
RebaseAll(doc, batch) == file
Rebase(doc, batch) ==
  [s \in Sections |-> IF s \in batch THEN file[s] ELSE doc[s]]

\* Sections a document writes to files when batch is excluded.
Writable(doc, batch) == {s \in Sections \ batch : doc[s] # Absent}

\* The files after _write_sections, where writing those in broken failed.
Written(doc, batch, broken) ==
  [s \in Sections |->
     IF s \in Writable(doc, batch) \ broken THEN doc[s] ELSE file[s]]

\* The revision remembered after writing a document's sections.
RememberAlways(rev, broken) == rev
Remember(rev, broken) == IF broken = {} THEN rev ELSE known

\* Write a document's sections, each file on its own; a failed write leaves
\* its file and the remembered revision alone.
WriteSections(doc, rev, batch) ==
  \E broken \in SUBSET Writable(doc, batch) :
    /\ broken = {} \/ faults < MaxFaults
    /\ file' = Written(doc, batch, broken)
    /\ known' = Remember(rev, broken)
    /\ faults' = IF broken = {} THEN faults ELSE faults + 1

-----------------------------------------------------------------------------
(* Calls: a GET or PUT is outstanding ("get", "put") until it is answered  *)
(* ("got", "answered"); the answer is handled in a later step.             *)

Call == [phase   : {"none", "push", "fetch", "seed", "refetch"},
         pc      : {"none", "get", "got", "put", "answered"},
         batch   : SUBSET Sections,
         attempt : 1 .. 2,
         doc     : Docs,
         rev     : Nat,
         status  : {"none", "ok", "conflict", "notfound", "fail"}]

NoCall == [phase |-> "none", pc |-> "none", batch |-> {}, attempt |-> 1,
           doc |-> NoDoc, rev |-> 0, status |-> "none"]

Get(phase, batch, attempt) ==
  [NoCall EXCEPT !.phase = phase, !.pc = "get", !.batch = batch,
                 !.attempt = attempt]

Put(phase, doc, rev) ==
  [call EXCEPT !.phase = phase, !.pc = "put", !.doc = doc, !.rev = rev,
               !.status = "none"]

Handling(phase, pc, status) ==
  call.phase = phase /\ call.pc = pc /\ call.status = status

ReleaseLockOnly == holder' = None /\ UNCHANGED call
Release == holder' = None /\ call' = NoCall

\* The second TTL check of _sync_locked, then the stamp and the fetch.
ThenFetch(w) ==
  \/ fresh  /\ Release /\ UNCHANGED fresh
  \/ ~fresh /\ fresh' = TRUE /\ holder' = w /\ call' = Get("fetch", {}, 1)

-----------------------------------------------------------------------------
(* The tasks.                                                              *)

\* A set_* handler (or a slash command) writes its sections' files, outside
\* the lock, and calls write_back.
WriteFile(e) ==
  /\ e \notin done
  /\ file' = [s \in Sections |-> IF s \in Touches[e] THEN e ELSE file[s]]
  /\ done' = done \cup {e}
  /\ waiting' = IF unavailable THEN waiting ELSE waiting \cup {e}
  /\ UNCHANGED <<log, endpoint, local, holder, call, earlier, appDone, bounds>>

\* An event turn calls sync.
Wake(w) ==
  /\ w \notin waiting \cup {holder}
  /\ ~unavailable /\ ~fresh
  /\ waiting' = waiting \cup {w}
  /\ UNCHANGED <<file, log, endpoint, local, holder, call, ghosts, bounds>>

\* write_back under the lock: the batch carries every pending section too.
BatchAlone(e) == Touches[e]
BatchOf(e) == Touches[e] \cup pending

TakeLockToPush(e) ==
  /\ holder = None /\ e \in waiting
  /\ holder' = e /\ waiting' = waiting \ {e}
  /\ call' = Get("push", BatchOf(e), 1)
  /\ UNCHANGED <<file, log, endpoint, local, ghosts, bounds>>

\* _sync_locked: a failed write-back is retried first.
TakeLockToSync(w) ==
  /\ holder = None /\ w \in waiting
  /\ waiting' = waiting \ {w}
  /\ \/ /\ pending # {}
        /\ holder' = w /\ call' = Get("push", pending, 1)
        /\ UNCHANGED fresh
     \/ pending = {} /\ ThenFetch(w)
  /\ UNCHANGED <<file, log, endpoint, known, pending, unavailable, ghosts,
                 bounds>>

\* What write_back, and the retry in sync, do with the outcome of a push.
PendingAfterDropped(ok) == IF ok THEN {} ELSE pending
PendingAfter(ok) ==
  IF ok THEN {} ELSE IF holder \in Edits THEN pending \cup call.batch ELSE pending

EndPush(ok) ==
  /\ pending' = PendingAfter(ok)
  /\ IF holder \in Edits THEN Release /\ UNCHANGED fresh ELSE ThenFetch(holder)

\* _write_back_locked, on the answer to its GET: rebase on the document, with
\* the files as they are now, and PUT against the revision just read.
PushRead ==
  /\ \/ /\ Handling("push", "got", "ok")
        /\ call' = Put("push", Rebase(call.doc, call.batch), call.rev)
        /\ UNCHANGED <<holder, pending, fresh, unavailable>>
     \/ /\ Handling("push", "got", "notfound")
        /\ unavailable' = TRUE /\ EndPush(TRUE)
     \/ /\ Handling("push", "got", "fail")
        /\ EndPush(FALSE) /\ UNCHANGED unavailable
  /\ UNCHANGED <<file, log, endpoint, known, waiting, ghosts, bounds>>

\* _write_back_locked, on a 200: the other sections' files are brought up to
\* the document just rebased on.
PushAccepted ==
  /\ Handling("push", "answered", "ok")
  /\ WriteSections(call.doc, call.rev, call.batch)
  /\ EndPush(TRUE)
  /\ UNCHANGED <<log, endpoint, unavailable, waiting, ghosts, restarts>>

\* _write_back_locked, on any other answer: a first conflict starts over.
PushRefused ==
  /\ \/ /\ Handling("push", "answered", "conflict") /\ call.attempt = 1
        /\ call' = Get("push", call.batch, 2)
        /\ UNCHANGED <<holder, pending, fresh, unavailable>>
     \/ /\ Handling("push", "answered", "conflict") /\ call.attempt = 2
        /\ EndPush(FALSE) /\ UNCHANGED unavailable
     \/ /\ Handling("push", "answered", "notfound")
        /\ unavailable' = TRUE /\ EndPush(TRUE)
     \/ /\ Handling("push", "answered", "fail")
        /\ EndPush(FALSE) /\ UNCHANGED unavailable
  /\ UNCHANGED <<file, log, endpoint, known, waiting, ghosts, bounds>>

\* Is a fetched revision news?
News(rev) == rev > known

\* _sync_locked, on the answer to its GET.
FetchRead ==
  /\ \/ /\ Handling("fetch", "got", "ok") /\ call.rev = 0
        /\ call' = Put("seed", file, 0)
        /\ UNCHANGED <<file, known, holder, unavailable, faults>>
     \/ /\ Handling("fetch", "got", "ok") /\ call.rev > 0 /\ News(call.rev)
        /\ WriteSections(call.doc, call.rev, {})
        /\ Release /\ UNCHANGED unavailable
     \/ /\ Handling("fetch", "got", "ok") /\ call.rev > 0 /\ ~News(call.rev)
        /\ Release /\ UNCHANGED <<file, known, unavailable, faults>>
     \/ /\ Handling("fetch", "got", "notfound")
        /\ unavailable' = TRUE /\ Release /\ UNCHANGED <<file, known, faults>>
     \/ /\ Handling("fetch", "got", "fail")
        /\ Release /\ UNCHANGED <<file, known, unavailable, faults>>
  /\ UNCHANGED <<log, endpoint, pending, fresh, waiting, ghosts, restarts>>

\* _seed, on the answer to its create-only PUT.
SeedAnswered ==
  /\ \/ /\ Handling("seed", "answered", "ok")
        /\ known' = call.rev /\ Release /\ UNCHANGED unavailable
     \/ /\ Handling("seed", "answered", "conflict")
        /\ call' = Get("refetch", {}, 1) /\ UNCHANGED <<known, holder, unavailable>>
     \/ /\ Handling("seed", "answered", "notfound")
        /\ unavailable' = TRUE /\ Release /\ UNCHANGED known
     \/ /\ Handling("seed", "answered", "fail")
        /\ Release /\ UNCHANGED <<known, unavailable>>
  /\ UNCHANGED <<file, log, endpoint, pending, fresh, waiting, ghosts, bounds>>

\* _seed, on the refetch of the document that won.
RefetchRead ==
  /\ \/ /\ Handling("refetch", "got", "ok") /\ call.rev > 0
        /\ WriteSections(call.doc, call.rev, {})
     \/ /\ call.phase = "refetch" /\ call.pc = "got"
        /\ call.status # "ok" \/ call.rev = 0
        /\ UNCHANGED <<file, known, faults>>
  /\ Release
  /\ UNCHANGED <<log, endpoint, pending, fresh, unavailable, waiting, ghosts,
                 restarts>>

\* A sync is cancelled at an await: the startup sync's timeout, or the end of
\* the turn's task.
CancelSync ==
  /\ holder \in Wakes /\ faults < MaxFaults
  /\ faults' = faults + 1
  /\ Release
  /\ UNCHANGED <<file, log, endpoint, local, waiting, ghosts, restarts>>

-----------------------------------------------------------------------------
(* The server, the network, the app and the process.                       *)

ServeGet ==
  /\ call.pc = "get"
  /\ call' = IF endpoint
             THEN [call EXCEPT !.pc = "got", !.status = "ok", !.doc = Doc,
                               !.rev = Len(log)]
             ELSE [call EXCEPT !.pc = "got", !.status = "notfound"]
  /\ UNCHANGED <<file, log, endpoint, local, waiting, holder, ghosts, bounds>>

\* A PUT is accepted exactly when its base is the current revision.
ServePut ==
  /\ call.pc = "put"
  /\ \/ /\ endpoint /\ call.rev = Len(log)
        /\ log' = Append(log, call.doc)
        /\ call' = [call EXCEPT !.pc = "answered", !.status = "ok",
                                !.rev = Len(log) + 1]
     \/ /\ ~endpoint \/ call.rev # Len(log)
        /\ call' = [call EXCEPT !.pc = "answered",
                      !.status = IF endpoint THEN "conflict" ELSE "notfound"]
        /\ UNCHANGED log
  /\ UNCHANGED <<file, endpoint, local, waiting, holder, ghosts, bounds>>

\* A call fails before it reaches the server, or its answer is lost.
CallFails ==
  /\ faults < MaxFaults
  /\ call.pc \in {"get", "put", "answered"} /\ call.status # "fail"
  /\ call' = [call EXCEPT !.pc = IF call.pc = "get" THEN "got" ELSE "answered",
                          !.status = "fail"]
  /\ faults' = faults + 1
  /\ UNCHANGED <<file, log, endpoint, local, waiting, holder, ghosts, restarts>>

\* The app writes or removes a section of the document, creating it if need be.
AppWrites(a, s) ==
  /\ endpoint /\ a \notin appDone
  /\ appDone' = appDone \cup {a}
  /\ \E v \in {a, Absent} : log' = Append(log, [Doc EXCEPT ![s] = v])
  /\ UNCHANGED <<file, endpoint, local, lock, done, earlier, bounds>>

\* The TTL of the last sync runs out.
Expire ==
  /\ fresh /\ fresh' = FALSE
  /\ UNCHANGED <<file, log, endpoint, known, pending, unavailable, lock, ghosts,
                 bounds>>

\* An older server is upgraded to one with the endpoint.
Deploy ==
  /\ ~endpoint /\ endpoint' = TRUE
  /\ UNCHANGED <<file, log, local, lock, ghosts, bounds>>

\* The gateway stops, or is killed, and starts: only the files are kept.
Restart ==
  /\ restarts < MaxRestarts /\ restarts' = restarts + 1
  /\ known' = 0 /\ pending' = {} /\ fresh' = FALSE /\ unavailable' = FALSE
  /\ waiting' = {} /\ Release
  /\ earlier' = done
  /\ UNCHANGED <<file, log, endpoint, done, appDone, faults>>

-----------------------------------------------------------------------------
Init ==
  /\ file \in [Sections -> {Installed, Absent}]
  /\ endpoint \in BOOLEAN
  /\ log \in {<<>>} \cup
       {<<d>> : d \in IF endpoint THEN [Sections -> {Installed, Absent}] ELSE {}}
  /\ known = 0 /\ pending = {} /\ fresh = FALSE /\ unavailable = FALSE
  /\ waiting = {} /\ holder = None /\ call = NoCall
  /\ done = {} /\ earlier = {} /\ appDone = {}
  /\ faults = 0 /\ restarts = 0

Handle == PushRead \/ PushAccepted \/ PushRefused \/ FetchRead
            \/ SeedAnswered \/ RefetchRead
Serve  == ServeGet \/ ServePut

Next ==
  \/ \E e \in Edits : WriteFile(e) \/ TakeLockToPush(e)
  \/ \E w \in Wakes : Wake(w) \/ TakeLockToSync(w)
  \/ Handle \/ Serve
  \/ CallFails \/ CancelSync
  \/ \E a \in AppEdits, s \in Sections : AppWrites(a, s)
  \/ Expire \/ Deploy \/ Restart

Spec == Init /\ [][Next]_vars

\* The event loop runs every handler, a call is answered or times out, the
\* lock serves its waiters in turn, events keep coming and time passes.
Fairness ==
  /\ WF_vars(Handle) /\ WF_vars(Serve) /\ WF_vars(Expire)
  /\ \A e \in Edits : SF_vars(TakeLockToPush(e))
  /\ \A w \in Wakes : SF_vars(TakeLockToSync(w)) /\ WF_vars(Wake(w))

FairSpec == Spec /\ Fairness

-----------------------------------------------------------------------------
(* Properties.                                                             *)

\* Every variable stays in its type, a task never both waits for and holds the
\* lock, and an edit's handler does so only after the edit was made.
TypeOK ==
  /\ file \in Docs /\ log \in Seq(Docs) /\ endpoint \in BOOLEAN
  /\ known \in Nat /\ pending \in SUBSET Sections
  /\ fresh \in BOOLEAN /\ unavailable \in BOOLEAN
  /\ waiting \in SUBSET Tasks /\ holder \in Tasks \cup {None}
  /\ holder \notin waiting /\ (waiting \cup {holder}) \cap Edits \subseteq done
  /\ call \in Call /\ (holder = None <=> call.pc = "none")
  /\ done \in SUBSET Edits /\ earlier \in SUBSET done
  /\ appDone \in SUBSET AppEdits
  /\ faults \in 0 .. MaxFaults /\ restarts \in 0 .. MaxRestarts

\* Is v what some server revision from r on holds for section s?
HeldSince(r, s, v) == \E i \in 1 .. Len(log) : i >= r /\ log[i][s] = v

\* The files never sit stale behind the remembered revision: a section's file
\* holds what the server held at that revision or later, unless the document
\* lacks the section or the file is a local edit the server never saw
\* (the write_back docstring and the comment in _apply).
NoStaleFile ==
  known > 0 =>
    \A s \in Sections :
      \/ log[known][s] = Absent
      \/ HeldSince(known, s, file[s])
      \/ ~HeldSince(1, s, file[s])

\* An edit whose handler has returned, and that is still the working copy, has
\* been on the server or is remembered as pending, unless the sync is off or
\* the process that made it is gone (write_back never forgets a failed push).
EditPushedOrPending ==
  \A e \in done \ earlier :
    e \notin waiting \cup {holder} =>
      \A s \in Touches[e] :
        file[s] = e => s \in pending \/ HeldSince(1, s, e) \/ unavailable

\* A PUT of this gateway changes no section of the server's document but those
\* it pushes: a write-back keeps what the app wrote to the others meanwhile,
\* and a seed is accepted only where there is no document.
PutKeepsOthersWork ==
  [][call.pc = "put" /\ call'.pc = "answered" /\ log' # log =>
       IF call.phase = "seed" THEN log = <<>>
       ELSE \A s \in Sections \ call.batch : Doc'[s] = Doc[s]]_vars

\* Once edits, faults and restarts cease, the files and the server's document
\* agree on every section it has, and nothing is left to push.
Converges ==
  <>[](unavailable \/ /\ pending = {}
                      /\ \A s \in Sections : Doc[s] \in {Absent, file[s]})

\* What the comment on _pending_write_back says: a failed push is not
\* overwritten by the fetch that follows; only an edit changes its file.
PendingNotOverwritten ==
  [][\A s \in pending : file'[s] # file[s] => file'[s] \in done' \ done]_vars

\* What the write_back docstring says: the edits of concurrent handlers to
\* different sections compose.  When no call failed, nobody else edits and
\* every handler has returned, both edits are on the server.
ConcurrentEditsCompose ==
  done = Edits /\ waiting \cup {holder} = {None} /\ faults = 0 /\ ~unavailable =>
    \A e \in Edits : \A s \in Touches[e] : Doc[s] = e

\* What the module docstring says: when the server holds no document, the
\* local files seed it, every section that has a file.
SeededFromAllFiles ==
  [][call.pc = "put" /\ call'.pc = "answered" /\ log = <<>> /\ log' # log =>
       \A s \in Sections : file[s] # Absent => Doc'[s] # Absent]_vars

\* What the write_back docstring says of a failed push: the local change is
\* kept until a later write-back or the next process reconciles it; no
\* document overwrites the edit of an earlier process that never was pushed.
UnpushedEditOutlivesRestart ==
  [][\A s \in Sections :
       file[s] \in earlier /\ ~HeldSince(1, s, file[s]) /\ file'[s] # file[s]
         => file'[s] \in done' \ done]_vars
=============================================================================
