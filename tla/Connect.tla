-------------------------------- MODULE Connect --------------------------------
(***************************************************************************)
(* FCMFilamentAdapter.connect, stage by stage, and what it overlaps with:  *)
(* the session and who we are (Stage 1), invites, the push registration    *)
(* (Stages 2 and 3), the listener or the poll loop (Stage 4), the vouches, *)
(* and the hello of FirstHello.  A vouch comes by push while the adapter   *)
(* listens, and the sweep after Stage 4 takes up those that came before;   *)
(* _accept_vouch is the one way of both.                                   *)
(*                                                                         *)
(* An attempt that fails before the listener runs leaves nothing behind:   *)
(* the gateway's next adapter starts where it did.  A push to one that     *)
(* does not listen may be kept for it or lost (adapter.py:823-827).        *)
(***************************************************************************)
EXTENDS FirstHello

CONSTANTS
  Vouched,     \* loops the agent may be vouched into
  Invited,     \* loops it may be invited to
  Attempts,    \* _VOUCH_ACCEPT_ATTEMPTS
  MaxTroubles  \* bound on all that fails, breaks or is lost, with what FirstHello bounds

ASSUME ConnectAssumption ==
  Attempts \in Nat \ {0} /\ MaxTroubles \in Nat

Loops == Vouched \cup Invited

VARIABLES
  stage,     \* of the connect under way, "down" when there is none, or "refused"
  finalized, \* the principal has finished the setup
  waiting,   \* what the server holds for a loop: "none", "pending", "taken", "refused"
  pushes,    \* loops of the pushes on their way
  sweep,     \* listed by the sweep and not yet tried
  guard,     \* _vouch_accepts_in_flight
  accepts,   \* accepts under way: adapter, loop, by whom, attempt
  missed,    \* a vouch was not listed, or was given up (history)
  unasked,   \* a session was opened without a look at its directive (history)
  troubles   \* stages and calls that failed

mail        == <<waiting, pushes, sweep, guard, accepts, missed>>
connectVars == <<stage, finalized, unasked, troubles, mail>>
allVars     == <<vars, connectVars>>

AcceptsOf(a, l) == {t \in accepts : t.adapter = a /\ t.loop = l}
AllTroubles     == rejects + losts + reconnects + crashes + troubles
Sweeping        == \E t \in accepts : t.by = "sweep" /\ phase[t.adapter] = "init"

\* Mutant: the listener starts after the sweep.
ListensLast(a) == phase[a] = "on"
\* The adapter's pushes arrive: from Stage 4 on.
Listens(a) == phase[a] = "on" \/ (phase[a] = "init" /\ stage \in {"listening", "sweeping"})

-----------------------------------------------------------------------------
(* The stages.                                                             *)

At(a, s) == phase[a] = "init" /\ stage = s
GoTo(s)  == stage' = s /\ UNCHANGED <<vars, finalized, unasked>>
Fails    == AllTroubles < MaxTroubles /\ troubles' = troubles + 1

\* _initialize_api, initialize: the directive comes with the answer.
OpenSession(a) ==
  /\ stage = "down" /\ Initialize(a) /\ stage' = "session"
  /\ UNCHANGED <<finalized, unasked, troubles, mail>>

\* An initialize that is refused, the token apart, is passed over: the next tool
\* call makes another one and does not look at its directive.
OpenUnasked(a) ==
  /\ stage = "down" /\ Connected = {} /\ phase[a] = "new"
  /\ \A b \in 1 .. a - 1 : phase[b] # "new"
  /\ phase' = [phase EXCEPT ![a] = "init"] /\ stage' = "session" /\ unasked' = TRUE /\ Fails
  /\ UNCHANGED <<said, pending, delivered, fallback, posting, turn, resends, bounds,
                 finalized, mail>>

\* A refused token is no retryable failure: only a new sign-in helps.
AuthRefused ==
  /\ stage = "down" /\ Connected = {} /\ Fails /\ stage' = "refused"
  /\ UNCHANGED <<vars, finalized, unasked, mail>>

\* The attempt is over, and the gateway tries again.
GiveUp(a) ==
  /\ stage' = "down" /\ phase' = [phase EXCEPT ![a] = "new"]
  /\ pending' = [pending EXCEPT ![a] = FALSE]
  /\ UNCHANGED <<said, delivered, fallback, posting, turn, resends, bounds,
                 finalized, unasked, mail>>

\* get_self, on an agent that is reserved and not finalized: _note_reserved.
NotFinalized(a) == At(a, "session") /\ ~finalized /\ GiveUp(a) /\ UNCHANGED troubles
GetSelf(a)      == At(a, "session") /\ finalized /\ GoTo("known") /\ UNCHANGED <<troubles, mail>>

\* Stages 1 to 4 report what went wrong, or an exception does.
StageFails(a) ==
  phase[a] = "init" /\ stage \in {"session", "joined", "token", "registered"} /\ GiveUp(a) /\ Fails

\* Stages 2 and 3, which polling skips.
RegisterFCM(a)    == At(a, "joined") /\ GoTo("token") /\ UNCHANGED <<troubles, mail>>
RegisterPusher(a) == At(a, "token") /\ GoTo("registered") /\ UNCHANGED <<troubles, mail>>
SkipFCM(a)        == At(a, "joined") /\ GoTo("registered") /\ UNCHANGED <<troubles, mail>>

\* _start_listener or _start_polling, after the sync of the config.
StartListener(a) == At(a, "registered") /\ GoTo("listening") /\ UNCHANGED <<troubles, mail>>

\* _maybe_greet, once every vouch of the sweep was tried.
Greet(a) ==
  /\ At(a, "sweeping") /\ sweep = {} /\ ~Sweeping /\ MaybeGreet(a) /\ stage' = "down"
  /\ UNCHANGED <<finalized, unasked, troubles, mail>>

\* The principal finishes the setup in the app, or never does.
Finalize == ~finalized /\ finalized' = TRUE /\ UNCHANGED <<vars, stage, unasked, troubles, mail>>

-----------------------------------------------------------------------------
(* Invites.  The result of accept_invite is not looked at.                 *)

ToTake   == {l \in Invited : waiting[l] = "pending"}
Taken(S) == waiting' = [l \in Loops |-> IF l \in S THEN "taken" ELSE waiting[l]]

\* _accept_pending_invites: all of them, or, when a call fails, some.
SweepInvites(a) ==
  /\ At(a, "known") /\ GoTo("joined")
  /\ \/ Taken(ToTake) /\ UNCHANGED troubles
     \/ Fails /\ \E S \in SUBSET ToTake : S # ToTake /\ Taken(S)
  /\ UNCHANGED <<pushes, sweep, guard, accepts, missed>>

\* The server: an invite or a vouch, with its push.
Comes(l) ==
  /\ finalized /\ waiting[l] = "none" /\ waiting' = [waiting EXCEPT ![l] = "pending"]
  /\ \/ pushes' = pushes \cup {l}
     \/ UNCHANGED pushes /\ \A a \in Connected : ~Listens(a)
  /\ UNCHANGED <<vars, stage, finalized, unasked, sweep, guard, accepts, missed, troubles>>

\* _on_invite: one call.
InvitePushed(l) ==
  /\ l \in pushes \cap Invited /\ pushes' = pushes \ {l} /\ \E a \in Connected : Listens(a)
  /\ \/ Taken({l}) /\ UNCHANGED troubles
     \/ Fails /\ UNCHANGED waiting
  /\ UNCHANGED <<vars, stage, finalized, unasked, sweep, guard, accepts, missed>>

-----------------------------------------------------------------------------
(* Vouches.                                                                *)

\* _accept_pending_vouches: what the mailbox holds, read after Stage 4.
ListVouches(a) ==
  /\ At(a, "listening") /\ GoTo("sweeping")
  /\ sweep' = {l \in Vouched : waiting[l] = "pending"}
  /\ UNCHANGED <<waiting, pushes, guard, accepts, missed, troubles>>

ListFails(a) ==
  /\ At(a, "listening") /\ GoTo("sweeping") /\ Fails
  /\ missed' = (missed \/ \E l \in Vouched : waiting[l] = "pending")
  /\ UNCHANGED <<waiting, pushes, sweep, guard, accepts>>

\* Mutant: the return of a second accept passes the finally of the first.
SkipReleases(a, l) == l \in guard[a] /\ guard' = [guard EXCEPT ![a] = @ \ {l}]
\* _accept_vouch: not while another accept of the loop is in flight.
Skip(a, l) == l \in guard[a] /\ UNCHANGED guard

AcceptVouch(a, l, by) ==
  \/ Skip(a, l) /\ UNCHANGED accepts
  \/ /\ l \notin guard[a] /\ guard' = [guard EXCEPT ![a] = @ \cup {l}]
     /\ accepts' = accepts \cup {[adapter |-> a, loop |-> l, by |-> by, attempt |-> 1]}

\* The sweep takes one vouch after the other.
SweepNext(a, l) ==
  /\ At(a, "sweeping") /\ l \in sweep /\ ~Sweeping /\ sweep' = sweep \ {l}
  /\ AcceptVouch(a, l, "sweep")
  /\ UNCHANGED <<vars, stage, finalized, unasked, waiting, pushes, missed, troubles>>

\* _on_vouch.
VouchPushed(a, l) ==
  /\ l \in pushes \cap Vouched /\ Listens(a) /\ pushes' = pushes \ {l}
  /\ AcceptVouch(a, l, "push")
  /\ UNCHANGED <<vars, stage, finalized, unasked, waiting, sweep, missed, troubles>>

EndsAccept(t) ==
  /\ accepts' = accepts \ {t}
  /\ guard' = [guard EXCEPT ![t.adapter] = @ \ {t.loop}]

\* accept_vouch knocks, or the server says no: to this vouch, or because an
\* earlier attempt has taken it.
AcceptAnswered(t) ==
  /\ EndsAccept(t)
  /\ IF waiting[t.loop] = "pending"
     THEN \E outcome \in {"taken", "refused"} : waiting' = [waiting EXCEPT ![t.loop] = outcome]
     ELSE UNCHANGED waiting
  /\ UNCHANGED <<vars, stage, finalized, unasked, pushes, sweep, missed, troubles>>

\* A call that fails, landed or not: by itself, or cut by disconnect().  It is
\* tried again, up to the last attempt.
AcceptFails(t) ==
  /\ Fails \/ (phase[t.adapter] = "gone" /\ UNCHANGED troubles)
  /\ Taken({}) \/ (waiting[t.loop] = "pending" /\ Taken({t.loop}))
  /\ IF t.attempt < Attempts
     THEN /\ accepts' = (accepts \ {t}) \cup {[t EXCEPT !.attempt = @ + 1]}
          /\ UNCHANGED <<guard, missed>>
     ELSE EndsAccept(t) /\ missed' = (missed \/ waiting'[t.loop] = "pending")
  /\ UNCHANGED <<vars, stage, finalized, unasked, pushes, sweep>>

-----------------------------------------------------------------------------
\* disconnect() leaves the accepts of the old adapter running; pushes on their
\* way go to the next one or nowhere.
Disconnects(a) ==
  /\ Reconnect(a) /\ pushes' \in {pushes, {}}
  /\ UNCHANGED <<stage, finalized, unasked, waiting, sweep, guard, accepts, missed, troubles>>
  /\ AllTroubles' <= MaxTroubles

Dies ==
  /\ Crash /\ stage' = "down" /\ sweep' = {} /\ pushes' \in {pushes, {}}
  /\ guard' = [a \in Adapters |-> {}] /\ accepts' = {}
  /\ UNCHANGED <<finalized, unasked, waiting, missed, troubles>> /\ AllTroubles' <= MaxTroubles

HelloStep(a) ==
  /\ \/ TurnReplies(a) \/ TurnFails(a) \/ FallbackSees(a) \/ FallbackTimesOut(a)
     \/ \E who \in Posters : PostLands(a, who) \/ PostRejected(a, who) \/ AnswerLost(a, who)
  /\ UNCHANGED connectVars /\ AllTroubles' <= MaxTroubles

StageStep(a) ==
  \/ OpenSession(a) \/ NotFinalized(a) \/ GetSelf(a) \/ SweepInvites(a)
  \/ RegisterFCM(a) \/ RegisterPusher(a) \/ SkipFCM(a)
  \/ StartListener(a) \/ ListVouches(a) \/ (\E l \in Vouched : SweepNext(a, l)) \/ Greet(a)

PushStep(l) == InvitePushed(l) \/ \E a \in Adapters : VouchPushed(a, l)

ConnectInit ==
  /\ Init /\ stage = "down" /\ finalized \in BOOLEAN
  /\ waiting = [l \in Loops |-> "none"] /\ pushes = {} /\ sweep = {} /\ accepts = {}
  /\ guard = [a \in Adapters |-> {}] /\ missed = FALSE /\ unasked = FALSE
  /\ troubles = 0

ConnectNext ==
  \/ \E a \in Adapters :
       \/ StageStep(a) \/ OpenUnasked(a) \/ StageFails(a) \/ ListFails(a)
       \/ HelloStep(a) \/ Disconnects(a)
  \/ \E l \in Loops : Comes(l) \/ PushStep(l)
  \/ \E t \in accepts : AcceptAnswered(t) \/ AcceptFails(t)
  \/ AuthRefused \/ Finalize \/ Dies

ConnectSpec == ConnectInit /\ [][ConnectNext]_allVars

\* The gateway connects again, calls are answered, pushes to a listener arrive.
ConnectFairSpec ==
  /\ ConnectSpec
  /\ \A a \in Adapters :
       /\ WF_allVars(StageStep(a))
       /\ WF_allVars((FallbackSees(a) \/ FallbackTimesOut(a)) /\ UNCHANGED connectVars)
       /\ \A who \in Posters : WF_allVars(PostLands(a, who) /\ UNCHANGED connectVars)
       /\ \A l \in Vouched :
            WF_allVars(\E t \in AcceptsOf(a, l) : AcceptAnswered(t))
  /\ \A l \in Loops : WF_allVars(PushStep(l))

-----------------------------------------------------------------------------
ConnectTypeOK ==
  /\ stage \in {"down", "session", "known", "joined", "token", "registered", "listening",
                "sweeping", "refused"}
  /\ {finalized, missed, unasked} \subseteq BOOLEAN
  /\ waiting \in [Loops -> {"none", "pending", "taken", "refused"}]
  /\ pushes \subseteq Loops /\ sweep \subseteq Vouched
  /\ guard \in [Adapters -> SUBSET Vouched]
  /\ accepts \subseteq [adapter : Adapters, loop : Vouched, by : {"sweep", "push"},
                        attempt : 1 .. Attempts]
  /\ AllTroubles <= MaxTroubles

\* The app waits for the hello: once the setup is finished the agent says it,
\* through failed stages, crashes and reconnects, unless the server rejects it,
\* its directive was not looked at, or the token is refused.
GreetedOnceFinalized ==
  finalized ~> (~Silent \/ rejects > 0 \/ unasked \/ stage = "refused")

\* Wherever in a connect a vouch comes, the push or the sweep takes it up: it does
\* not wait for the next connect unless the list could not be read or the last
\* attempt failed.
VouchTaken ==
  \A l \in Vouched :
    waiting[l] = "pending" ~> (waiting[l] # "pending" \/ missed \/ stage = "refused")

\* Sweep and push never accept one loop side by side, and no loop stays marked
\* as in flight when nobody accepts it: its vouches would be dropped for good.
OneAcceptAtATime ==
  \A a \in Adapters, l \in Vouched :
    Cardinality(AcceptsOf(a, l)) = IF l \in guard[a] THEN 1 ELSE 0

-----------------------------------------------------------------------------
\* What _accept_pending_invites is for: a loop the agent is invited to is joined.
\* An invite between that sweep and the listener is met by neither.
InviteTaken ==
  \A l \in Invited :
    waiting[l] = "pending" ~> (waiting[l] # "pending" \/ troubles > 0 \/ stage = "refused")

\* What _initialize_api reads the gate for: an agent that is asked for a hello says
\* it.  The directive of a second initialize is not looked at.
GreetedWhenAsked == finalized ~> (~Silent \/ rejects > 0 \/ stage = "refused")

\* What the comment on _vouch_accepts_in_flight says: at most one accept per loop
\* is in flight.  The set is the adapter's, and a disconnect stops no accept.
OneAcceptPerLoop ==
  \A l \in Vouched : Cardinality({t \in accepts : t.loop = l}) <= 1
=============================================================================
