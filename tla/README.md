# filament-hermes in TLA+

The plugin connects a Hermes agent to Filament, a chat server: it receives pushes (over FCM, or by long polls),
decides which of them wake the agent, runs the turn with the right history and configuration, and posts replies
and status. This directory models the parts of it that keep state and run concurrently, checks them with TLC on
small instances, and proves with TLAPS, for every instance, every safety property that the passing runs check.

`src/hermes_filament_fcm` is 18,000 lines in 26 files, nearly all of it asyncio code of one event loop. Every `await`
is a place where another task runs; tools also run on engine threads of Hermes; and a gateway may be restarted at
any time by its own commands. Local files are written whole, without fsync, by helpers that swallow failed writes.
Those three facts are behind most of what the modules are about.

* [Inventory](#inventory) · [Modules and code](#modules-and-code) · [Runs](#runs) · [Departures](#departures) ·
  [Fairness](#fairness) · [Proofs](#proofs) · [Not modelled](#not-modelled) · [Plan](#plan)

## Inventory

Each part with the state it keeps, its operations, what it exchanges with the others, and what makes it correct.
`PROJECT.json` lists the parts with their files, and the hazards at their lines.

### Configuration sync (`server_config.py`, the `set_*` handlers of `__init__.py`)

* State: one JSON file per section (wake policy, capabilities, instructions, ...); in memory the revision last applied,
  the sections whose push failed, the time of the last sync, "this server has no endpoint", and an asyncio lock.
  The server holds one revisioned document.
* Operations: `sync` before each event turn (retry pending pushes, fetch, apply, or seed when there is no document),
  `write_back` after an edit (read, rebase the edited sections, PUT with the revision read, one retry after a 409).
* Interactions: handlers write a file and only then call `write_back`; the app edits the document; a sync is cut by
  a timeout of the wake; a restart keeps the files only.
* Hard: file writes outside the lock, optimistic concurrency with a retry, partial file writes, forgotten pending pushes.
* Correct when: a push never undoes what somebody else wrote; a failed push is not forgotten; files never sit behind
  the revision the gateway believes it has; files and document agree once things are quiet.

### Poll transport (`poll_transport.py`, `adapter.py`)

* State: the cursor in memory and in `poll_cursor.json`; the items handed out; turns scheduled and running.
* Operations: poll, dispatch the work of the answer, back off after a failure, leave an answer that comes in a drain,
  save the cursor on the way out and drop it once used.
* Interactions: the cursor a poll passes finishes everything before it on the server; a reply finishes its item.
* Hard: at-most-once dispatch over drains, cancellation of a held poll, lost answers, crashes, a cursor that could not be
  saved or removed.
* Correct when: no item is dispatched after it was finished, none twice unless an old cursor could not be removed, and no item
  is finished undispatched except in the gaps the module docstring admits.

### Push intake (`credentials.py`, `fcm_client.py`, `_handle_data_message` of the vendored client)

* State: the ids of the last 1,000 pushes, in memory and on disk; the ids told to MCS at login; MCS' unacknowledged pushes.
* Operations: login naming received ids, record an id, dispatch, acknowledge; `/restart` ends the process inside dispatch.
* Hard: redelivery, a trim at the bound, a failed write that truncates the file, a crash between two of these steps.
* Correct when: a push is handled once unless its id is gone; MCS stops redelivering only what was handled or recorded;
  a `/restart` does not loop.

### Push receiver (`vendor/firebase_messaging/fcmpushclient.py`, `fcm_client.py`, `adapter.py`)

* State: `run_state`, `do_listen`, one connection, a reset lock, error counters; two tasks (listen, monitor) and the
  done-callbacks that watch them; the adapter's fatal error.
* Operations: connect, log in, read, reset, heartbeat, terminate, report a death, rebuild through Hermes.
* Hard: both tasks reset and terminate the same client; death of one task must become a new client.
* Correct when: resets do not overlap, a working connection is not torn down, and pushes are heard again.

### Status line (`status.py`, hooks in `adapter.py` and `__init__.py`)

* State: entries of turns begun, found through `_pending` (by trigger) and `_bound` (by session); a flush task, a grace
  timer and a refresh loop per entry; `_session_room`; what each room shows on the server.
* Operations: `begin_turn`, `ensure_turn`, `on_tool_call` (claims an entry, on an engine thread), `end_turn`, `reset`, `_prune`.
* Hard: threads against the loop, a publish on the wire when its turn ends, completions that come early or never.
* Correct when: every live line can be found and ended, nothing is published after an end, every room goes dark.

### Seen history (`SeenHistoryStore`, `history_key` in `reactive.py`; `_history_for_wake`, `_wake` in `adapter.py`)

* State: per conversation, the newest message its model context was shown; the flag that keys a channel to one session or
  one per sender.
* Operations: read what is unseen, dispatch with it inlined, record the mark; the model's own reads record too.
* Hard: concurrent wakes of one conversation, marks recorded out of order, a key computed before two awaits.
* Correct when: whatever a mark hides, the session it belongs to was shown.

### Wake gate (`_handle_push_message_turn`, `WakePolicyStore`, `EngagedThreadStore`)

* State: event ids seen, classified senders, the wake policy, the threads the agent is engaged in.
* Operations: deduplicate, detect a mention, classify a sender (may await a call), decide, engage a thread; a reaction is
  decided by its emoji alone and engages nothing.
* Hard: several agents in one channel, each waking on what the others reply; an unknown sender; the store at its bound.
* Correct when: agents do not keep each other awake; engaged threads are those of turns that addressed the agent.

### Self-upgrade and update check (`self_update.py`, `update_check.py`, `adapter.py`)

* State: version on disk, version running, the pending-upgrade marker, the notice file.
* Operations: `/fil-upgrade` (pull, start notice, marker, restart), the announcement on connect, the daily check.
* Hard: the process that announces is not the one that started; reconnects, crashes and failed writes in between.
* Correct when: one announcement per marker, one reminder per version, no success claimed by old code, no start notice
  left without a result.

### First hello (`_maybe_greet`, `_hello_fallback`, `_post_canned_hello`, `_send_hello` in `adapter.py`)

* State: per adapter, the server's directive, `_hello_delivered`, the fallback task, the hello turn.
* Hard: a reply, its retries, a failure hook and a deadline share one flag; adapters outlive their connection.
* Correct when: one hello per adapter, and one in the end.

### Connect, invites and vouches (`_connect_attempt`, `_initialize_api`, `_accept_vouch` in `adapter.py`; `filament_api.py`)

* State: the stage of the attempt under way; per adapter the loops whose vouch is being accepted; on the server, invites
  and vouches that wait; the MCP session.
* Operations: the stages in order (session, who we are, invites, push registration, listener, vouches, hello), each of which
  may fail and leave the rest to the next attempt; the live invite and the live vouch; accepts with their retries.
* Interactions: the session's answer carries the directive that `FirstHello` follows; pushes reach an adapter from Stage 4 on.
* Hard: what comes between a sweep and the listener; a sweep and a push that name the same loop; an accept that outlives
  its adapter; a session that is opened by the next tool call after the first try failed.
* Correct when: no vouch waits for the next connect, no loop is accepted twice at a time or blocked for good, and an agent
  whose setup is finished says its hello.

### Capability policy and tool gate (`CapabilityPolicyStore`, `capability_denies` in `reactive.py`; `turn_context.py`; `__init__.py`)

* State: the policy document (custom bundles, default list, per-channel lists) and the flags, in files; per turn its zone
  and its resolved set of tools; the live tools of the host's toolsets.
* Operations: resolve a channel's grants, walking an include graph that may have cycles and diamonds; ask before every
  tool call; edit policy and flags from a control turn.
* Hard: the walk with its explicit stack; edits and toolsets that change while a turn runs; a policy whose names dangle.
* Correct when: a resolution equals its reference, and a turn is answered by what its wake read.

### Slash commands (`slash.py`, `_handle_slash_command` in `adapter.py`)

* State: none of its own; it reads the vocabularies and stores, writes files and mirrors them to the server. Every message
  is handled by a task of its own (`_on_push_message`).
* Operations: parse words in free order against closed vocabularies, with near misses; compile a change to one or two
  documents; write them, write them back in one batch, answer.
* Interactions: the same files are edited by the tools of control turns and laid over by `write_back`; `ToolGate` reads them.
* Hard: commands and syncs that overlap, each laying the server's copy over what the other has not pushed; a null over the
  policy; names spelled in command words, a channel's first own list, a second file that cannot be written.
* Correct when: what the principal is told holds; a change touches one channel; the view agrees with the gate.

### The parts without a module of their own

| Part | State and operations | What would make it correct |
|---|---|---|
| Control turns and context cues (`ChannelCursorStore`, `context_breadcrumb`) | per-channel cursor, inlined context (the authority of a control turn is in `ToolGate`) | a message between two control turns is offered once |
| The rest of the MCP client (`filament_api.py`) | one HTTP client per event loop, request bodies, uploads (the handshake is in `Connect`) | no client is used from another loop |
| Reply routing, media, prompts | per-call shaping of data | pure functions of their input |
| Setup, login, profile seeding, dependency checks, logging | one-shot programs and plumbing | not concurrent |
| Vendored registration and decryption | third-party code | out of scope |

## Modules and code

A definition's lines are in `PROJECT.json` under `map`. In every module an action is one stretch of code between two
awaits (or between two lock operations, on engine threads); calls are split into request, effect on the server, and
handling of the answer wherever something can come between. Names are the code's where TLA+ allows it.
`None`-like values are constants; ghosts (history variables that no guard reads) are named so in the comments.
An operator that differs from another only in a plausible mistake (`RebaseAll` beside `Rebase`, `AlwaysDue` beside
`StillDue`) is there for `mutants` in `PROJECT.json`: with it in place of the right one, its property fails.

| Module | Variables | Code | Abstractions |
|---|---|---|---|
| `ServerConfig` | `file` the store files, `log` the server's documents (revision = length), `known` `_revision`, `pending` `_pending_write_back`, `fresh` `_last_sync` within TTL, `unavailable`, `waiting`/`holder` `_lock`, `call` the one outstanding exchange | `sync`/`_sync_locked` 393-478, `_seed` 480-539, `write_back` 543-662, `_write_sections` 337-375 | A section's contents are the edit that wrote them; a section of the wrong type counts as absent. Waiters of the lock are served in any order. A first sync is not forced: it finds `fresh` false anyway. Not modelled: the gating of the first push until startup ends, a PUT that lands after its caller gave up on it, a handler cancelled while it waits for the lock. |
| `InboundDelivery` | `deliveries`, `forsaken`, `forgotten`, `finished` | the promise of the docstrings of `poll_transport.py` and of `ReceivedPersistentIds` | abstract specification of both transports, implemented by `PollWork` and `PushIntake` |
| `PollWork` | `cursor`, `toDrop` of the loop, `saved` the file, `admitting` the gateway, `handed`/`finished` the server; histories `stale` (the file's cursor was to be dropped), `forgotten` (items out when a loop started from such a cursor) | `PollLoop` 300-462, the adapter's dispatch and disconnect, `credentials.py` 119-127, 172-202 | A save or drop of the file that fails is swallowed: a save leaves the old file or a torn one, which reads as none, a drop leaves the old one. An answer carries everything that arrived (`max_items` is left out); a fatal poll error is a failed one. A turn refused just as a drain starts counts as dispatched. The dedupe of the adapter is another level and is left out, so the module is stricter than the code. |
| `StatusTurns` | `pending`, `bound`, `session`, `room` the four dicts; `trigger`, `ended`, `early`, `held` fields of `_Pending`; `queued`, `wire`, `clears`, `shown` the way of a publish; `engine` the thread holding the lock | `status.py` 387-704 with the adapter hooks | Phrases have no text. `CompleteQueued` is a completion Hermes reports for a message it only queued. |
| `PushIntake` | `unacked` MCS, `wire`/`acks` the link, `file` and `ids` the store, `told` the login list, `pc` and `current` the push in hand | `credentials.py` 119-282, `fcm_client.py`, `fcmpushclient.py` | An absent, empty or torn file read alike, as the reader does. `record` and the dispatch that follows are one synchronous call, cut only by a crash. A reconnect with a new client is an end and a start. Pushes that are only badges or cannot be decrypted are left out; the adapter's event-id dedupe is another level. |
| `PushReceiver` | `run`, `listening`, `lock`, `conn`, `errors` the client; `at` of both tasks; `watched`, `stopped`, `reported` the plugin; `life` the adapter; history `judged` (the last heartbeat went out on this connection) | `fcmpushclient.py` 174-836, `fcm_client.py` 553-634 | The five attempts of `_connect_with_retry` are one step; time is `fresh` (a message came within the interval); it does not run out during the monitor's 5 seconds for an ack, as the interval is 20. The caller of `_terminate` leaves its loop at once. `SilentIn` says where a peer may go silent without an error. The client's own `stop()` is never called by the plugin. |
| `SeenHistory` | `posts` the channel, `shared` the flag, `marks` the store with `fresh` for its TTL, `shown` what each session's context holds, `wakes` and `reads` under way; history: `misled` | `reactive.py` 473-540, `adapter.py` 2661, 2816-2891, 3460-3658 | A message is its position. Expiry only while nothing is under way. Left out: a render that fails, `/new` and `/reset`, reactions, narrower reads of the model. |
| `WakeGate` | `seen`, `cache`, `policy`, `engaged` per agent; `task` where a push's handling is; `turns` | `adapter.py` 2458-2691, 2893-2934, `reactive.py` 860-1090 | Replies thread under their trigger. `to = {}` is a message to nobody, or to @everyone. The owner counts like any human. The 2,000 bound of `_seen_events` and a restart are left out, as are the per-channel overrides (there is one channel). The emoji of a reaction is one that triggers or one that does not. The sync before the decision is merged with taking the push. |
| `Upgrade` | `main`, `disk`, `running` versions; `marker`, `noticed` the files; `ask`, `target` per command; `gw` | `adapter.py` 1861-1984, `self_update.py`, `update_check.py` | git is one outcome; service managers and a failing unlink are left out. The runner refuses a restart only while it runs normally (assumed of Hermes). |
| `FirstHello` | `said` by adapter, `phase`, `pending`, `delivered`, `fallback`, `posting`, `turn`, `resends` per adapter | `adapter.py` 903-1059, 1988-2024 | The deadline may come at any time. Messages of the turn before its final reply are dropped, so they are no steps. A post on the wire when the process ends lands or does not. Every reconnect builds a new adapter (`adapter.py` 1420). |
| `Connect` (on `FirstHello`) | `stage` of the attempt; `waiting` and `pushes` the server's invites and vouches; `sweep`, `guard` (`_vouch_accepts_in_flight`), `accepts` under way; `finalized`; histories `missed`, `unasked` | `adapter.py` 735-900, 1074-1385, `filament_api.py` 157-204, 325-345 | A stage's own calls are one step that succeeds or fails; what Stage 1 reads beside the setup's end is left out, as are heartbeat and probe. The server answers a vouch that is no longer pending by a refusal. |
| `BundleExpansion` | `known`, `includes`, `live`, `grants` what the walk reads; `frames` its stack, `left` what each frame has still to visit, `expanded`, `tools`; history `entered` | `reactive.py` 1360-1560 | A list is a set, its entries visited in any order. `Reach` and `Granted` are the reference: the least closed set. The path set of the code is what its stack holds. |
| `ToolGate` (on `BundleExpansion`) | `stores` the files by section, `server`, `pending`, `synced`; `toolsets`; `turns` (zone, caps, the section a tool has `unsent`, and the history `promised`); `waking` | `reactive.py` 1348-1386, 1500-1710, `turn_context.py`, `__init__.py` 700-1197, `server_config.py` 337-662, `adapter.py` 3514-3640 | A file is a set: empty when it is absent or holds null, else its one object. A tool's file write and its write-back are two steps; a write-back is one, and lands or fails: the app's edits, answers that are lost, a server without the endpoint and what comes between its read and its PUT are in `ServerConfig`. A sync fetches only while the revision is unknown, as nobody else edits the document here. `per_user` is stored and ignored. A walk awaits nothing, so no other step comes between. |
| `SlashParse` | none: functions of a message and the vocabularies | `slash.py` 150-1170 | Words are whole; `Near` gives difflib's ratio of the runs that are alike. What is asked or answered has no text: a result that changes nothing is an answer. Names have at most two words, so that runs of three suffice. |
| `SlashConfig` (on `ToolGate`, `SlashParse`) | `handling` the messages under way, by task; histories `echo` the change last confirmed, `undisturbed` (nobody changed the files since a command read them), `wipes` | `slash.py` 1519-1840, `adapter.py` 2364-2380, 2514-2518, 2970-3010, 3219-3341 | Each task waits twice: for the channels and for its write-back. Between them it awaits nothing (`LoopFree`), so only a tool, which runs on its own thread, comes between its reads and its writes. Only the change is compared, not the wording of its answer. |

`MC_ServerConfig`, `MC_StatusTurns`, `MC_WakeGate` and `MC_SlashConfig` define the constants a `.cfg` cannot (functions,
vocabularies, the symmetry set); the other modules are checked as they are. Each `...Proofs` module holds the proofs about
the module it is named for, with those below it: `ConnectProofs` has `FirstHello`'s too, and `CapabilityProofs` those of
`BundleExpansion`, `ToolGate`, `SlashParse` and `SlashConfig`. `PushProofs` has those of `PushIntake` and `PushReceiver`, and
`WakeProofs` those of `WakeGate` and `SeenHistory`; the names of `PushReceiver` and `SeenHistory` (`ReceiverSpec`, `SeenSpec`)
are their own for that reason.

How they meet: `Connect` brings the adapter up and ends in `FirstHello`; `PushIntake` or `PollWork` hands a push over,
`WakeGate` decides, `ServerConfig` syncs first, `ToolGate` resolves what the turn may do, `SeenHistory` gives it its context,
`StatusTurns` shows its progress; `SlashConfig` edits what `ToolGate` reads. Three compositions share state: `Connect` drives
the adapters of `FirstHello`; `SlashConfig`, `ToolGate` and `BundleExpansion` work on the same files and turns; `PollWork`
and `PushIntake` are both mapped to `InboundDelivery`. Between the others nothing is shared but the push itself, so each is checked alone, with the others'
behaviour as its environment.

## Runs

`tlc -workers 2 -config <cfg> <module>`; each finishes within three minutes on two workers.

| Run | Module, cfg | States | What it checks | What it shows |
|---|---|---|---|---|
| `config` | `MC_ServerConfig`, `MC_ServerConfig.cfg` | 590,000 | `NoStaleFile`, `EditPushedOrPending`, `PutKeepsOthersWork`, `Converges` | Two handlers editing different sections, one edit of the app, one syncing wake, one fault (lost call, failed file write or cancelled sync) and one restart: no file goes stale behind the remembered revision, no failed push is forgotten, no PUT touches what it does not push, and files and document agree in the end. |
| `poll` | `PollWork`, `MC_PollWork.cfg` | 352,000 | `SavedCursorIsExact`, `ImplementsDelivery`, `EventuallyDispatched` | The loop implements `InboundDelivery` through failed polls, drains, a crash and a failed save or drop of the cursor, and leaves a cursor behind that neither loses work nor, if the drop of an older one did not fail, repeats any. |
| `status` | `MC_StatusTurns`, `MC_StatusTurns.cfg` | 1,080,000 | `NoOrphanLine`, `NoPublishAfterEnd`, `SessionKeepsRoom` | Two turns in two rooms, claims on engine threads, a spurious completion and a reset: no live line is out of reach, none is published after its end. |
| `status_live` | `MC_StatusTurns`, `MC_StatusTurns_live.cfg` | 18,000 | `EventuallyDark` | Once tool calls stop, no room stays lit, whichever completion never came. |
| `intake` | `PushIntake`, `MC_PushIntake.cfg` | 25,000 | `HandledOnce`, `ImplementsDelivery`, `RestartsEnd`, `EventuallyHandled` | Three pushes, the first a `/restart`, an id store of two, lost connections, a crash and a failed write: nothing is handled twice, handled after MCS gave it up, or lost, outside the store's two gaps. |
| `receiver` | `PushReceiver`, `MC_PushReceiver.cfg` | 39,000 | `NewConnectionKept`, `HearsAgain` | Six faults, enough for the receiver to give up and be rebuilt twice over: a monitor that waits for the ack of a heartbeat resets only the connection the heartbeat went out on, whatever the listen task resets and sets up meanwhile, and pushes are heard again. |
| `seen` | `SeenHistory`, `MC_SeenHistory.cfg` | 6,524,000 | `MarkMeansShown`, `WakeKnowsItsHistory` | Three messages, concurrent wakes, an overlapping read of the model, an expiry, a flip of the flag at any moment: a mark hides only what its session holds, unless the flip sent a turn to another session than its key names. |
| `gate` | `MC_WakeGate`, `MC_WakeGate.cfg` | 1,600,000 | `NoStorm`, `EngagedByMention`, `FreshTurnEngaged` | Two agents answering each other and reacting, repeated pushes, one edit of a setting: turns stay bounded by what people wrote and what addressed the agent. |
| `upgrade` | `Upgrade`, `MC_Upgrade.cfg` | 762,000 | `AnnouncedOnce`, `RemindedOnce`, `CompleteMeansNewCode`, `StartIsAnswered` | Two commands, three versions, a crash, a reconnect, a failed write, a lost post. |
| `connect` | `Connect`, `MC_Connect.cfg` | 421,000 | `OneHelloEach`, `OneAcceptAtATime`, `VouchTaken`, `GreetedOnceFinalized` | Connects whose stages fail, an agent that is not finalized yet, an invite, a vouch that comes at any point, accepts that are retried, the hello with its deadline, a reconnect and a crash: a vouch is taken up by the push or the sweep and by one of them at a time, an adapter says one hello, and an agent whose setup is finished says it. |
| `slash` | `MC_SlashConfig`, `MC_SlashConfig.cfg` | 329,000 | `ResolvedAsGranted`, `AnsweredAsPromised`, `EchoHolds`, `StaleIsOwed`, `ViewAgrees`, `SameInEveryOrder`, `NoDanglingGrant`, `EditsOneChannel`, `WakesDispatch` | Two `/fil-` messages of any kind that overlap, edits of a control turn, syncs of other messages, two turns, toolsets that come and go, failed write-backs and a file that cannot be written, from an installation without a policy and from one whose gate was turned off, over policies with a cycle, a diamond, an alias and a bundle that takes a row's name: what the principal was told holds, no file differs from the server unnoticed, and a turn may do what its wake read. |
| `slash_null` | `MC_SlashConfig`, `MC_SlashConfig_null.cfg` | | `MatchedIsEnforced` | violated: see departures |

Each module has a type invariant. `config` checks `ServerConfig`'s, which is more than types (a lock has its holder); the
others (`TypeOK`, `ConnectTypeOK`, `BundleTypeOK`, `SeenTypeOK`, `ReceiverTypeOK`) hold too, and can be added to the `INVARIANTS` of a cfg.

### Bounds, and why they are enough

* `config`: conflicts need two writers of the document, and a lost file update a second handler, so two edits and one of the
  app; a third of either only repeats an overlap of two. One fault and one restart let every error path meet every step;
  the departures that need two faults have a cfg of their own.
* `poll`: three items put one before the cursor, one in the answer and one behind it; two drains let a resumed loop drain again. One failed write is
  enough: of a save it loses the cursor, of a drop it leaves one that a later loop starts from.
* `status`: a wrong claim needs two sessions and two rooms; `MaxEntries` is two because a trigger that is ensured gets a
  second entry only after its first ended (`ensure` allows three). Liveness runs with one trigger: with two, TLC's
  search for a fair cycle does not end in reasonable time; what two turns do to each other is covered by the safety run only.
* `intake`: three pushes against a store of two make a trim, and a push behind the trimmed one; two losses let a push be
  redelivered after a redelivery.
* `receiver`: `AbortCount` is three as configured; three errors in a row are a termination, six are two.
* `seen`: a window of two with three messages pushes one out; a wake beside a wake beside a read needs three.
* `gate`: a storm needs two agents and a human; three messages are a question, an answer and an answer to that. The store
  holds one thread, so that each engagement evicts. The mode `off` only takes wakes away and is left out.
* `upgrade`: three versions let a release come between a pull and its restart, twice.
* `connect`: two troubles in all, whatever their kind, so that a stage fails and then its repetition does, an accept fails and
  is retried, or a crash follows a reconnect. Every run of the adapters stays within that one bound (`AllTroubles`). One
  invite and one vouch: loops do not meet but in the sweep.
* `slash`: two handlers, as commands meet in the files and at the server, where what a third has not pushed is treated like what the
  second has not (`Owing`). Two edits, of tools or commands, let one be laid over, or undone, by the other's write-back, and three
  inputs add a wake, or two wakes to one edit. Two turns let one be resolved while the other holds an older set. A null
  needs a policy and the gate off, which is one of the two starts; a fetch needs a process that has not reached the server yet, as
  half of the starts have it. `MCPolicies` has one document for each way the walk and the validation can go. The words
  are those of `MCMessages`, with every order of each (`SameInEveryOrder`): "tools post" and "posts grant" are channels named in command
  words, and the second shares a word with a third channel. No toolset of the host but the plugin's own is there: the words for others
  are in `SlashParse`, and a grant of one goes the way of an MCP server's.

The failure bounds (`MaxFaults`, `MaxLosses`, ...) bound what the environment does; no guard of the program mentions them.

`CHECK_DEADLOCK FALSE` is set where a model may stop because its bounded inputs are used up.

## Departures

Where a doc or comment of the repository says more than the code does. Each has a property in its module, with the words it
states, and a cfg under which TLC finds a trace. The first is a run in `PROJECT.json`; the others are kept beside it
and can be run by hand: `tlc -config MC_PollWork_retry.cfg PollWork.tla`.

| Property (cfg) | What the repository says | What the trace shows |
|---|---|---|
| `MatchedIsEnforced` (`MC_SlashConfig_null`) | `slash.py:1527`: "the principal asked for this state to *apply*, so if `advanced_tool_controls` is still off the same write turns it on" | For a grant that is already as asked, `apply_tools` changes the flags alone, but the handler also writes the mutation's policy, which is None: `null` over `capability_policy.json`, read as the defaults. The section is neither pushed nor pending. A write-back that succeeds lays the server's policy over it again; when it fails, every list and custom bundle is gone from the working copy, the gate is on, and the principal was told that the grant is enforced. |
| `FlagAsSaid` (`MC_SlashConfig_feature`) | `reactive.py:1674`: "The flag's stored value, or its default when absent" | `apply_feature` reads an absent flag as off, also the one that is on by default: turning it off on a fresh install writes nothing, is answered "already off", and leaves it on. |
| `ConcurrentEditsCompose` (`MC_ServerConfig_compose`) | `server_config.py:550`: "two concurrent handlers compose instead of last-writer-wins" | A handler writes its file outside the lock. Another's write-back, past its read, lays the document's copy of that section over it; the first handler then pushes the reverted value. No call fails. |
| `NeverDoubleGreets` (`MC_FirstHello_reconnect`) | `adapter.py:908`: "Because the gate clears as soon as the agent posts there, this never double-greets" | Disconnecting stops neither the hello turn nor the fallback. A reconnect before the hello landed is asked for one again; both adapters say it. |
| `PendingNotOverwritten` (`MC_ServerConfig_clobber`) | `server_config.py:272`: "a failed push must not be overwritten by the subsequent fetch" | The write-back fails, and so does its retry in the next sync, which goes on to fetch and overwrite the file. |
| `SeededFromAllFiles` (`MC_ServerConfig_seed`) | `server_config.py:28`: "the local files SEED it exactly once" | A write-back that finds no document creates it with its own sections only; the others are never seeded. |
| `UnpushedEditOutlivesRestart` (`MC_ServerConfig_restart`) | `server_config.py:559`: "the server copy stays stale until a later write-back or the next process's seed cycle reconciles it" | The next process applies the document over the edit. |
| `RetryLosesNothing` (`MC_PollWork_retry`) | `poll_transport.py:436`: "nothing is lost or doubled" | A loop without a cursor loses its first answer; the retry omits the cursor, which finishes that work. `InboundDelivery` calls these items forsaken, as the module docstring admits the gap. |
| `NeverTheWrongRoom` (`MC_StatusTurns_room`) | `status.py:516`: "Never claim into the wrong room" | A session whose room is unknown claims the one turn that is left, its own having been finalized by a spurious completion. |
| `OneLinePerTurn` (`MC_StatusTurns_ensure`) | `status.py:447`: "A turn already pending or bound keeps its line" | `ensure_turn` reads two dicts without the lock while a claim moves the turn from one to the other. |
| `DurableBeforeDispatch` (`MC_PushIntake_durable`) | `credentials.py:247`: "`record()` persists *before* the message is dispatched" | A failed write truncates the file and is swallowed; the push is dispatched. |
| `StaleConnectionNoticed` (`MC_PushReceiver_stale`) | `fcmpushclient.py:152`: "the monitor task to fire and check for heartbeats, stale connections" | A peer silent between login request and answer leaves both tasks alive and waiting: only `STARTED` is monitored. |
| `SameKeySameContext` (`MC_SeenHistory_flip`) | `reactive.py:480`: "Two wakes with the same key land in the same model context" | The flag flips between the choice of a wake's key and its dispatch. |
| `AgentsWakeByMentionOnly` (`MC_WakeGate_named`) | `reactive.py:887`: "Agents therefore never wake each other without an explicit @-mention" | Without the server's flag, a bare name in an agent's reply counts as a mention. |
| `AnnouncedByNextProcess` (`MC_Upgrade_next`) | `self_update.py:21`: "the next process reads that marker on connect and posts the result" | A reconnect while the gateway drains finds the marker, announces a failed upgrade and clears it. |
| `ExactlyOneHello` (`MC_FirstHello_lost`) | `adapter.py:1020`: "the principal sees exactly one hello" | A post that landed and whose answer was lost counts as failed and is followed by another. |
| `AnyOrderIsFree` (`MC_SlashConfig_order`) | `slash.py:679`: "Order-free classification" | A run of words that spells a channel's longer name is read as that channel: with channels "posts" and "posts grant", `posts grant wake all` sets the mode of one, and `posts wake all grant` that of the other. |
| `InviteTaken` (`MC_Connect_invite`) | `adapter.py:824`: "a vouch landing in between was missed by both paths" (the reason the vouches' sweep follows Stage 4) | The sweep of invites still precedes the listener: an invite in between is met by neither. |
| `GreetedWhenAsked` (`MC_Connect_unasked`) | `adapter.py:456`: "The server decides whether a hello is due" | An initialize that is refused is passed over; the next tool call makes another, and nobody reads its directive. |
| `OneAcceptPerLoop` (`MC_Connect_overlap`) | `adapter.py:451`: "a duplicate accept_vouch would knock twice" | The guard is the adapter's, and a disconnect stops no accept: the next adapter accepts the loop beside it. |

Two more were met in passing and have no property: the view calls a granted `toolset:<name>` unrecognized while the gate
expands it, and a default list that is no list counts as all rows in `apply_tools` and in the view, and as none at the gate.

The passing properties are stated so that they hold beside these departures: `HandledOnce` excepts pushes whose id is gone, `SavedCursorIsExact` a cursor whose removal failed,
`OneHelloEach` is per adapter and counts lost answers, `StartIsAnswered` excepts reconnects, `EchoHolds` and `StaleIsOwed` except files that could not be written and the null over the policy, until
a write-back puts the policy back, and `EchoHolds` also a change beside which another was edited and not pushed (`ConcurrentEditsCompose`) and one that
a sync laid over (`PendingNotOverwritten`); `EditsOneChannel` excepts that null, `ViewAgrees` a row of which a granted toolset has some tools,
`SameInEveryOrder` the names of `AnyOrderIsFree`, `GreetedOnceFinalized` a directive nobody read, `VouchTaken` a list or a last attempt that failed, and `MarkMeansShown` and `WakeKnowsItsHistory` the keys under
which a flip made a turn record for another session; the `receiver` run keeps peers from going silent during a login.

## Fairness

`FairSpec` (`ReceiverFairSpec`) of each module states it with the action it is about:

* The event loop runs every task that can run, a call is answered or times out, a timer fires, threads are scheduled:
  weak fairness of handlers, answers and timers. Every wait for the server in the modelled code has a timeout, but for the
  vendored client's wait for a login's answer, and there the server is assumed to answer.
* `ServerConfig`: strong fairness of taking the lock. `asyncio.Lock` is first in, first out, so nobody starves; the model
  serves waiters in any order, in which weak fairness would let one wait for ever.
* `StatusTurns`: strong fairness of an entry's tasks and of `ensure_turn`, which are disabled for moments while an engine
  thread holds the lock, and of the server's timeout of a line, which each refresh restarts. Nothing says that turns
  complete or that tool calls come or end: `EventuallyDark` assumes only that tool calls stop.
* `PushReceiver`, `PushIntake`, `PollWork`: a service manager starts a gateway that ended, and Hermes' reconnect watcher
  reconnects after a fatal error (`adapter.py` 1415-1425 relies on it). Weak fairness of `MessageArrives` says that an open
  connection brings something, a push or the ack of a heartbeat.
* `Connect`: the gateway connects again after a retryable failure, a call is answered, a push to an adapter that listens
  arrives. The principal may never finish the setup. `SlashConfig`: a walk and its dispatch wait for nothing.
* No fairness is assumed of users, the app, faults, restarts, crashes, drains, policy edits or releases.

## Proofs

Run `tlapm` on the module. Constants are arbitrary but for the assumptions named, and so are all bounds.

`ServerConfigProofs`, for every set of sections, edits, app edits and wakes, from
`ConstantsAssumption` alone (tasks are distinct, each edit touches sections, `Absent` is no contents, an edit's contents are
its own).

* `TypeCorrect`: `Spec => []TypeOK`. Beside the types this says that the lock has a holder exactly when an exchange is
  under way, and that no task waits for a lock it holds.
* `Inductive`: `Spec => []IInv`, where `IInv == TypeOK /\ CallBasis`. `CallBasis` is what an exchange in flight knows: a
  PUT is a push or a seed, a seed's base revision is 0, and a push carries, outside its batch, the document at its base
  revision.
* `PutKeeps`: `Spec => PutKeepsOthersWork`. The server accepts a PUT only at its current revision, so at that moment the
  base of `CallBasis` is the current document, and the accepted one differs from it inside the batch only. The types alone
  do not give it: they say nothing about the document that is in flight.

The proof that a step keeps `CallBasis` goes action by action: a GET's answer is a snapshot of the log, whose old entries never
change (`AppendKeeps`); the rebase keeps what is outside the batch (`RebaseType`); every other step either leaves call and log
alone or ends the exchange (`NoBasis`). `IInv` was checked with TLC on the `config` instance before it was proved.

Of the files, from the same assumption:

* `FilesNotStale`: `Spec => []NoStaleFile`, by `FilesInductive`: `Spec => [](IInv /\ FileInv)`. `FileInv` adds what an exchange
  knows: its revision is one of the log and no older than the remembered one (`Revisions`), an answer is the document at that
  revision (`Snapshot`), and what a PUT carries from the files is what they hold, or they hold what the server never had
  (`CarriesFiles`). The last is what an accepted push needs: between its read of the files and its answer a handler may write one,
  outside the lock; that the server cannot know such contents is `OwnContents`, the one use of the assumption on edits.
* `EditsNotForgotten`: `Spec => []EditPushedOrPending`, by `EditInv`: a file edited since a PUT read it is of a handler that
  still waits for the lock (`EditedWaits`), and a push under way carries every pending section (`PushesPending`).
* Most steps are of four kinds (`Stays`, `Ends`, `Lays`, `Puts`); each kind keeps each part once, and each action is shown to be of a kind.

`PollWorkProofs`, for any number of items, faults, drains, crashes and failed writes, from `PollAssumption` alone.

* `LoopImplementsDelivery`: `Spec => ImplementsDelivery`, the refinement of `InboundDelivery`: initial states map to initial
  states, and each step is a dispatch, a finish, a loss or a stutter of it. It needs that the work of an answer is new to the gateway (`Answered`): not finished
  and never dispatched, or out when a loop started from a cursor that could not be dropped.
* `SavedIsExact`: `Spec => []SavedCursorIsExact`; `LoopTypes`: `Spec => []TypeOK`.
* All rest on `LoopInductive`. `Exact`: a poll that passes the cursor (or the saved one) has the server finish all that was
  dispatched (`Known`: and not forgotten since), and only what was dispatched or forsaken; a stale file is exact only in the second
  half. `Answered`: once a poll has arrived, everything known to be dispatched is finished, and its answer holds the rest. No cursor at all is exact only when a poll is yet to pass it: one that waits may have handed over
  more since, which is why `Exact` distinguishes `pc`, and why a lost first answer forsakes work.

`StatusTurnsProofs`, for every set of triggers, sessions and rooms and any number of entries, from `StatusAssumption` (the rooms
are functions; `None` is no trigger, session, room or tool call).

* `LiveLinesAreFound`: `Spec => []NoOrphanLine`, `EndedStaysQuiet`: `Spec => NoPublishAfterEnd`, and `StatusTypes`: `Spec => []TypeOK`,
  all by `StatusInductive`.
* A new entry would orphan the one it overwrites. `NothingOverwritten` says there is none: a trigger whose turn was not begun has no
  entry, nor has the one that `ensure_turn` is about to begin, though it read that without the lock; only a tool call can take an
  entry meanwhile, and none can be added. `PendingOwn`: a pending entry has not ended and is bound to no session, so no end of a
  bound one reaches it. `CallHolds`: while a tool call has the lock its entry has not ended, and a session that claims one
  was bound to none.

`PushProofs`: pushes and their ids, for any number of pushes, losses, crashes and failed writes, and any bound on the ids, from `PushAssumption` alone.

* `PushesHandledOnce`: `Spec => []HandledOnce`. By `Remembered`, a push that was handed over, or dropped by a crash, is in memory, or
  on disk when no gateway runs, or forgotten; by `Recorded`, the push in hand is already recorded, and was not settled before
  unless forgotten.
  `RecentAppend` is the lemma about the trim: it keeps the id just added.
* `GivenUpWhenHandled`: `Spec => []GivenUpOnlyWhenHandled`. By `ToldSettled`, whatever tells MCS of a push, now or at some later
  login (an ack, `told`, the ids in memory and on disk), is of one that was handled or dropped by a crash, but for the push in hand.
* `IntakeImplementsDelivery`: `Spec => ImplementsDelivery`, the refinement of `InboundDelivery`, which says more than the two
  above: a push that MCS has given up is not handed over again either, unless forgotten. MCS gives up only what is settled, and
  by `Recorded` the push in hand is not. A step gives pushes up (`GivingUpPromised`), loses ids and drops the push in hand
  (`LosingPromised`), hands it over (`DispatchPromised`), or stutters. `GivenUpOnlyWhenHandled` has no run of its own: it is the
  guard of `Finish`, which the run `intake` checks.
* `IntakeTypes`: `Spec => []TypeOK`, for which `TypesKept` adds that no id is on disk twice (a restart reads them back) and that a push
  in hand is no login. `OrderExists` is the lemma about what MCS resends: whatever it holds can be put in order (no least bound
  on the pushes is an exception). `InOrder` chooses that order by itself, because TLAPS cannot look into the library's `SortSeq`.

The receiver, for any number of faults and disconnects, any limit of errors and wherever a peer may go silent, from
`ReceiverAssumption`:

* `OneReset`: `ReceiverSpec => []ReceiverTypeOK`, the part that matters being that the lock has a holder exactly when that task
  is inside a reset: two resets of one connection would leave one open that nobody reads. `LateMonitorYields`: `ReceiverSpec =>
  NewConnectionKept`, by `HeardSince`: a connection that the listen task set up during the monitor's wait, and that is logged in,
  was heard from. The guard after the wait does not look at the connection, only at the time of the last message, so this is
  what makes it safe; it rests on `heartbeat_ack_timeout` being the shorter of the two times (`Quiet`).
* All by `ReceiverInductive`. A counter stays within its limit only because the error that fills it ends both tasks: a full
  counter leaves nobody to count on (`ErrorsOK`). `CountKeeps` and `ResetKeeps` are the lemmas about the two helpers that the
  tasks share, each from any place outside a reset.

`UpgradeProofs`, for any number of versions, commands, crashes, reconnects and failed writes, from `UpgradeAssumption` alone.

* `MarkersAnnouncedOnce`, `CompleteIsNewCode` (by `Markers`: a marker is newer than the code that saved it, because what was
  pulled is newer than what runs as long as the process of the command lives), `RemindersOnce` and `UpgradeTypes`.
* `RemindedOnce` is not inductive: it allows one more reminder when one was sent. `Reminders` adds that a version of which a
  reminder may still come, and none is on record, was reminded of no more often than records were cut or undone.

Each of these invariants was checked with TLC on the instance of its run before it was proved.

`ConnectProofs`, for any number of retries, reconnects, crashes and failures, from the assumptions of `Connect` and `FirstHello`.

* `HelloOnce`: `ConnectSpec => []OneHelloEach`, `AcceptsAreGuarded`: `ConnectSpec => []OneAcceptAtATime`, and `ConnectTypes`,
  all by `ConnectInductive`: `ConnectSpec => []ConnectInv`.
* `OneHelloEach` counts: an adapter said at most one hello more than there were lost answers. What makes it inductive is
  `SaidAndLost`: while the flag is down, or up for a post that waits for its answer, every hello so far is a lost one. That
  needs `FlagHeld` (whoever waits for an answer has raised the flag, so a second post cannot start beside it) and `OneReply`
  (a turn's reply is still to come, on the wire, or to be sent again: never two of these).
* `Guarded` is the in-flight guard of `_accept_vouch` as a bijection: each accept under way is marked, no two share a mark, and
  no mark is left without an accept. The first two give `OneAcceptAtATime`; the third, that a loop is never blocked for good,
  is what the first two must not be bought with.

`WakeProofs`: the gate, for any number of agents, humans, messages and policy edits and any bound of the store, from `WakeGateAssumption`.

* `StormsDieOut`: `Spec => []NoStorm`, `EngagedIsRecord`: `Spec => []EngagedByMention`, `FreshTurnStays`: `Spec =>
  FreshTurnEngaged`, and `GateTypes`, all by `GateInductive`: `Spec => []GateInv`.
* `NoStorm` compares two cardinalities. Inductive is the reason for it: no message spends two turns (`OneTurn`, with what the
  push that was not taken and the classification under way have not done yet), and each turn of an agent that is not eager is on a message of
  `Asking` (`TurnsAsked`). A map of turns into messages that is one to one then gives the count (`NoMoreThanAsked`).
* A follow-up waits for its sender's kind across a call, during which its thread may be evicted from the store. `Classifying` says
  that the thread nevertheless is one that a mention engaged (`TurnRoots`), so that engaging it again brings in no thread that no mention engaged.
* `EngagedKept`: the store holds no thread twice, only threads of `TurnRoots`, and all of these unless it is full. `Recorded` is
  the lemma about `RecordThread`, on `TakenOut` about `RemoveFirst`: the thread just recorded is there afterwards, whatever the bound.

Seen history, for any number of senders, messages, wakes, reads of the model and expiries, either reply style and any window, from
`SeenHistoryAssumption`, with the flag flipping at any moment. A turn whose key and session a flip drove apart records its mark for a
session it did not join; the history variable `misled` names such keys until a day without a turn drops their marks, and both
properties are about all others (`WakesKnow`: the turns that are `Straight`).

* `NothingIsHidden`: `SeenSpec => []MarkMeansShown`, `WakesStartInformed`: `SeenSpec => WakeKnowsItsHistory`, by `SeenInductive`.
* A mark stands for everything up to it, but a later read of the channel shows only its window, and what a wake left out was
  decided two awaits before it is recorded. `HistoryShrinks`: a read up to a mark shows every message, up to the mark, that a
  later read shows. `HistoryToNewest`: what a read showed is what a read up to its newest message shows. By the first, what a wake leaves
  out is in its session (`WakesKnow`, at `HistoryReadyKeeps`); by the second, so is everything up to the mark that it records.
* The key of a top-level message whose reply will root a thread is of that thread, but the history read for it is the channel's. Its
  mark must not be taken for one of the channel's messages: `MarkedByReplies` says that until the root had its turn, the mark is one of
  the thread's replies, and the channel's history holds none of those.

`CapabilityProofs`: the expansion, for every set of bundles, toolsets and tools, every include graph and grant list, from
`BundleAssumption` alone (the three kinds of names are disjoint).

* `ExpandInv`: `ExpandSpec => []Inv`; `ExpandTypeCorrect`; `ExpandResolves`: `ExpandSpec => []ResolvedAsGranted`.
* The reference is the least set of names that holds the grants and is closed under inclusion. `Inv` says two things of the
  names entered so far. `NothingMore`: the grants lead to each of them, and to all tools collected. `NothingLost`: every entry of
  one of them was met, or is still left to visit on the path (`Whole`). A name met again, on the path or off it, was entered
  before, so passing it loses nothing: that is why a cycle and a diamond are harmless, and it needs `PathEntered`. When the
  path is empty the names entered are closed (`InvResolves`), so they hold the least closed set, and by `NothingMore` no more.
  `ResolvedAsGranted` alone is not inductive: it says nothing of a walk under way.
* One lemma per step; the five ways to enter a name share `EnterKeeps`. `Inv` was checked with TLC on two bundles, a toolset
  and a tool with every include graph over them (270,000 states).

The gate alone (`GateSpec`), and with the commands' steps (`Spec` of `SlashConfig`), for every set of policies, documents, rooms,
turns, toolsets, messages and vocabularies, from `PolicyAssumption` (a policy has its three parts, grants are names and entries
are tools or names, flags are true or false, the documents of other sections are of other sections), `SlashAssumption` (channels
are of rooms, rows and aliases are built-in bundles, the words for servers and sources lead to toolsets, a word with a shape names a channel or a
target and is no filler), `FilesAssumption` (what an earlier process left in the files is readable, absent or null, and the policy valid) and those above.

* `GateExpands`, `CommandsExpand`: `=> ExpandSpec`, refinements: whatever is edited, every resolution is one undisturbed walk of
  a policy that a wake read.
* `FilesStay`: `Spec => [](FilesOK /\ CommandsOK)`. `FilesOK` is what the gate needs of the files and of the server's copy: each is empty, or null, or
  holds an object of its type, and the policy is valid. `CommandsOK` says the same of all that a command has still to write, and for that, that
  what a parse answers names rooms, rows and bundles that exist (`FillMeant`: whatever the words, a slot is filled from its vocabulary).
* `GateAnswers`, `CommandsAnswer`: `=> []AnsweredAsPromised`. By `Promised`: the walk under way is of the grants the turn was
  promised, and a turn that is resolved holds what it was promised; `Dispatch` keeps it by `InvResolves`.
* `NoGrantDangles`: `Spec => NoDanglingGrant`: every policy in a file names only what is defined, and the default list, which a null is read
  as, names built-in bundles.
* `StaleIsPushed`: `Spec => []StaleIsOwed`, by `Mirrored`, which says it of one section. A push takes everything pending along and lays the
  server's copy over the rest, so it makes alike all but what others owe; and who owes does not stop owing but by a push.
* `ToldIsSo`: `Spec => []EchoHolds`, for any number of overlapping commands. `Keeps` follows a command from its compilation on: what it has still to write
  serves its change, and every other section does already, in the file and in what will come into the file (`Coming`: the server's
  copy, where nobody has the section still to push). So does `Told`, once the command has confirmed: then nobody owes anything and the
  files are what they are, or what is coming. A push and a fetch only put the second in place of the first (`PushBrings`,
  `FetchBrings`), so neither can take the change away. `Alike` gives the start of it, when a command reads the files.
* `CommandsEditOne`: `Spec => EditsOneChannel`, by `EditsOne`: of what an undisturbed command has still to write, at most the first document is a
  policy, and it is null or the one in force but for the channel named.
* `ViewIsExact`: `Spec => []ViewAgrees`, for every policy and toolset. That a row shown as on is granted is `ShownIsGranted`; the converse
  (`GrantedIsShown`) holds but where a granted toolset lends some of the row's tools, because the view does not open toolsets. No command can
  grant such a toolset, as the code keeps Filament's own out of those a word can name (`adapter.py:280`, `__init__.py:521`); the agent's
  own tool can grant `toolset:filament`.
* `OrderIsKept`: `Spec => []SameInEveryOrder`, by induction along the words of any order (`PlainFill`): so far
  the words have filled just the slots they mean, or the message is a question (`Unclear`). A word that stands alone fills the slot it
  means (`PlainReading`). A run of words that spells a longer channel name would be taken for that channel, and the order would
  matter: but each of its words then means a command word whose slot is still open (`SpelledIsPlain`, `SpelledIsCommand`), so that there are
  two readings and the parser asks (`SpelledIsAsked`). What all words mean together does not depend on their order
  (`ReorderedMeans`). Nothing is assumed of the channels: the property is about the messages whose words spell no longer name with a word that
  is a filler, has a shape (`#posts`) or is by itself the key of a channel (`NamesApart`), and `AnyOrderIsFree` shows what the others do.

`Fill` and `AsCommandWords` are recursive functions over the words. That they have a solution, and what they come to, is proved
without the library's induction theorems: the words for which the claim holds have no least exception (`Climb`, from the library's
`WFMin`).

Only model-checked:

* Liveness under fairness, and `ENABLED`: out of TLAPS' reach. These are `Converges`, `EventuallyDispatched`, `EventuallyDark`,
  `RestartsEnd`, `EventuallyHandled`, `HearsAgain`, `StartIsAnswered`, `VouchTaken`, `GreetedOnceFinalized` and `WakesDispatch`.

## Not modelled

The table under the inventory, and the abstractions listed by module. Beside those: what the sections of the configuration mean;
what is rendered into prompts; the media paths; the interactive setup; third-party code. Hazards of modelled parts that no
run covers are listed in `PROJECT.json` with the reason.

## Plan

Done: the modules above, their runs, and their proofs. Next, in this order:

1. `ChannelCursor`: the cursor of control turns and the breadcrumb; a promise shared with `SeenHistory` as an abstract module
   (what a conversation was shown), implemented by both.
2. An abstract promise in the manner of `InboundDelivery` for `StatusTurns` (a room shows a line only of a turn that runs).
3. The OAuth device flow of `oauth_login.py` and the steps of `profile_seed.py`, the one-shot programs that a crash can cut.

Proofs: the refinements of items 1 and 2, once they are stated.
