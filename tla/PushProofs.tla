----------------------------- MODULE PushProofs -----------------------------
(***************************************************************************)
(* Proofs about pushes.  PushIntake, for every number of pushes and every  *)
(* bound: a push is handled twice only if its id was forgotten, and MCS    *)
(* gives it up only once it was handled or was dropped by a crash, so that *)
(* the intake implements InboundDelivery.                                  *)
(* PushReceiver, for any number of faults and disconnects: the two tasks   *)
(* never reset one connection both, and a late monitor resets none that    *)
(* works.                                                                  *)
(***************************************************************************)
EXTENDS PushIntake, PushReceiver, SequenceTheorems, FiniteSetTheorems, WellFoundedInduction, TLAPS

\* The ids in memory and on disk are sequences, no longer than their bound; and
\* something arrives only at a running gateway.
IdsOK ==
  /\ ids \in Seq(ToSet(ids)) /\ file \in Seq(ToSet(file))
  /\ Len(ids) <= MaxIds /\ Len(file) <= MaxIds
  /\ handled \in [Pushes -> 0 .. 2] /\ issued \in 0 .. NPushes
  /\ up \in BOOLEAN
  /\ link # "down" \/ wire # <<>> => up

\* The push in hand is being recorded or handed over.
InHand == pc \in {"write", "dispatch"}

\* A push that was handed over, or that a crash kept from it.
Settled(p) == handled[p] > 0 \/ p \in dropped

\* A settled push is remembered, by the gateway that runs or on disk, or its id
\* is forgotten.
Remembered ==
  \A p \in Pushes :
    Settled(p) => p \in (IF up THEN ToSet(ids) ELSE ToSet(file)) \cup forgotten

\* The push in hand is recorded, and was not settled before unless forgotten.
Recorded ==
  /\ pc # "idle" => up
  /\ InHand => current \in ToSet(ids)
               /\ (current \in Pushes /\ Settled(current) => current \in forgotten)

\* The invariant of the ids.
IdsInv == IdsOK /\ Remembered /\ Recorded /\ HandledOnce

\* Whatever tells MCS of a push, now or later, is of a settled one: its ack, a
\* login that names it, an id in memory or on disk; but for the push in hand,
\* whose id is on disk only once it is about to be handed over.
ToldSettled ==
  \A p \in Pushes :
    /\ p \in told \cup acks => Settled(p)
    /\ p \in ToSet(ids) => Settled(p) \/ (InHand /\ p = current)
    /\ p \in ToSet(file) => Settled(p) \/ (pc = "dispatch" /\ p = current)
    /\ pc = "ack" /\ p = current => Settled(p)

\* The inductive invariant.
IInv == IdsInv /\ ToldSettled /\ GivenUpOnlyWhenHandled

-----------------------------------------------------------------------------
(* Recent, the trim of the ids.                                            *)

\* No ids at all are a sequence of ids.
LEMMA EmptyIds ==
  <<>> \in Seq(ToSet(<<>>)) /\ ToSet(<<>>) = {} /\ Len(<<>>) <= MaxIds
  BY PushAssumption DEF ToSet

\* A trim keeps at most MaxIds elements, the last ones, and loses none of a
\* sequence within the bound.
LEMMA RecentProperties ==
  ASSUME NEW S, NEW s \in Seq(S)
  PROVE  /\ Recent(s) \in Seq(ToSet(Recent(s))) /\ Len(Recent(s)) <= MaxIds
         /\ ToSet(Recent(s)) \subseteq ToSet(s)
         /\ Len(s) <= MaxIds => Recent(s) = s
         /\ Len(s) > 0 => s[Len(s)] \in ToSet(Recent(s))
<1> DEFINE m == IF Len(s) > MaxIds THEN Len(s) - MaxIds + 1 ELSE 1
           r == Recent(s)
<1>1. /\ Len(s) \in Nat /\ MaxIds \in Nat \ {0} /\ m \in Int /\ m >= 1
      /\ \A i \in m .. Len(s) : s[i] \in ToSet(s)
  BY PushAssumption DEF ToSet
<1>2. r = SubSeq(s, m, Len(s))
  BY DEF Recent
<1>3. /\ r \in Seq(ToSet(s))
      /\ Len(r) = IF m <= Len(s) THEN Len(s) - m + 1 ELSE 0
      /\ \A i \in 1 .. Len(s) - m + 1 : r[i] = s[m + i - 1]
  <2> HIDE DEF m, r
  <2>1. Len(s) \in Int
    BY <1>1
  <2>2. QED
    BY <1>1, <1>2, <2>1, SubSeqProperties
<1>4. DOMAIN r = 1 .. Len(r)
  BY <1>3
<1>5. Len(r) <= MaxIds
  BY <1>1, <1>3
<1>6. ToSet(r) \subseteq ToSet(s)
  BY <1>3, <1>4 DEF ToSet
<1>7. r \in Seq(ToSet(r))
  BY <1>3, <1>4 DEF ToSet
<1>8. ASSUME Len(s) <= MaxIds PROVE r = s
  <2>1. m = 1
    BY <1>1, <1>8
  <2>2. QED
    BY <1>2, <2>1, SubSeqFull
<1>9. ASSUME Len(s) > 0 PROVE s[Len(s)] \in ToSet(r)
  <2>1. Len(r) \in 1 .. Len(s) - m + 1 /\ m + Len(r) - 1 = Len(s)
    <3>1. m \in 1 .. Len(s)
      BY <1>1, <1>9
    <3> HIDE DEF m, r
    <3>2. QED
      BY <1>1, <1>3, <3>1
  <2>2. r[Len(r)] = s[Len(s)] /\ Len(r) \in DOMAIN r
    BY <1>3, <1>4, <2>1
  <2>3. QED
    BY <2>2 DEF ToSet
<1>10. QED
  BY <1>5, <1>6, <1>7, <1>8, <1>9

\* Recording an id keeps it, and no other that was not there.
LEMMA RecentAppend ==
  ASSUME NEW s, s \in Seq(ToSet(s)), NEW p
  PROVE  LET r == Recent(Append(s, p))
         IN  /\ r \in Seq(ToSet(r)) /\ Len(r) <= MaxIds
             /\ p \in ToSet(r) /\ ToSet(r) \subseteq ToSet(s) \cup {p}
<1> DEFINE t == Append(s, p)
<1>1. /\ t \in Seq(ToSet(s) \cup {p}) /\ Len(t) = Len(s) + 1 /\ Len(s) \in Nat
      /\ t[Len(t)] = p
      /\ DOMAIN t = 1 .. Len(t)
      /\ \A i \in 1 .. Len(t) : t[i] \in ToSet(s) \cup {p}
  <2>1. s \in Seq(ToSet(s) \cup {p})
    OBVIOUS
  <2>2. QED
    BY <2>1
<1>2. ToSet(t) \subseteq ToSet(s) \cup {p}
  BY <1>1 DEF ToSet
<1>3. /\ Recent(t) \in Seq(ToSet(Recent(t))) /\ Len(Recent(t)) <= MaxIds
      /\ ToSet(Recent(t)) \subseteq ToSet(t)
      /\ t[Len(t)] \in ToSet(Recent(t))
  <2> HIDE DEF t
  <2>1. QED
    BY <1>1, RecentProperties
<1>4. QED
  BY <1>1, <1>2, <1>3

-----------------------------------------------------------------------------
(* The invariant.                                                          *)

\* It holds before the first gateway.
LEMMA InitInv == Init => IInv
<1> SUFFICES ASSUME Init PROVE IInv
  OBVIOUS
<1>1. /\ ToSet(<<>>) = {} /\ <<>> \in Seq(ToSet(<<>>)) /\ Len(<<>>) <= MaxIds
      /\ 0 \in 0 .. NPushes /\ NPushes \in Nat
  BY EmptyIds, PushAssumption
<1>2. IdsOK
  <2>1. handled \in [Pushes -> 0 .. 2]
    BY DEF Init
  <2>2. issued = 0 /\ up = FALSE /\ ids = <<>> /\ file = <<>> /\ link = "down" /\ wire = <<>>
    BY DEF Init
  <2>3. QED
    BY <1>1, <2>1, <2>2 DEF IdsOK
<1>3. Remembered /\ Recorded /\ HandledOnce
  BY <1>1 DEF Init, Remembered, Recorded, HandledOnce, InHand, Settled
<1>4. ToldSettled /\ GivenUpOnlyWhenHandled
  BY <1>1 DEF Init, ToldSettled, GivenUpOnlyWhenHandled, InHand
<1>5. QED
  BY <1>2, <1>3, <1>4 DEF IInv, IdsInv

\* MCS and the connection change nothing the gateway remembers.
LEMMA ServerStep ==
  ASSUME IInv,
         Send \/ ServeLogin \/ LoseLink \/ (\E p \in Pushes : AckArrives(p)) \/ SendLogin
  PROVE  IInv'
<1> USE PushAssumption DEF IInv, gateway, ghosts
<1>1. /\ UNCHANGED <<ids, file, handled, forgotten, dropped, up, pc, current, told>>
      /\ acks' \subseteq acks
      /\ link' # "down" \/ wire' # <<>> => up
  <2>1. CASE Send
    BY <2>1 DEF Send, IdsInv, IdsOK
  <2>2. CASE ServeLogin
    BY <2>2 DEF ServeLogin, IdsInv, IdsOK
  <2>3. CASE LoseLink
    BY <2>3 DEF LoseLink, Hangup
  <2>4. ASSUME NEW p \in Pushes, AckArrives(p)
        PROVE  <1>1!:
    BY <2>4 DEF AckArrives, IdsInv, IdsOK
  <2>5. CASE SendLogin
    BY <2>5 DEF SendLogin, IdsInv, IdsOK
  <2>6. QED
    BY <2>1, <2>2, <2>3, <2>4, <2>5
<1>2. issued' \in 0 .. NPushes /\ issued \in 0 .. NPushes
  <2>1. /\ issued \in 0 .. NPushes
        /\ issued' = issued \/ (issued < NPushes /\ issued' = issued + 1)
    BY DEF Send, ServeLogin, LoseLink, AckArrives, SendLogin, mcs, IdsInv, IdsOK
  <2>2. QED
    BY <2>1
<1>3. IdsInv'
  BY <1>1, <1>2 DEF IdsInv, IdsOK, Remembered, Recorded, HandledOnce, InHand, Settled
<1>4. ToldSettled'
  BY <1>1 DEF ToldSettled, Settled, InHand
<1>5. ASSUME NEW p \in (1 .. issued') \ unacked'
      PROVE  Settled(p)
  <2>1. p \in Pushes
    BY <1>2 DEF Pushes
  <2>2. CASE Send
    BY <1>2, <2>2 DEF Send, GivenUpOnlyWhenHandled, Settled
  <2>3. CASE ServeLogin
    BY <2>1, <2>3 DEF ServeLogin, GivenUpOnlyWhenHandled, ToldSettled, Settled
  <2>4. ASSUME NEW q \in Pushes, AckArrives(q)
        PROVE  Settled(p)
    BY <2>4, <2>1 DEF AckArrives, GivenUpOnlyWhenHandled, ToldSettled, Settled
  <2>5. CASE LoseLink \/ SendLogin
    BY <2>5 DEF LoseLink, SendLogin, mcs, GivenUpOnlyWhenHandled, Settled
  <2>6. QED
    BY <2>2, <2>3, <2>4, <2>5
<1>6. QED
  BY <1>1, <1>3, <1>4, <1>5 DEF GivenUpOnlyWhenHandled, Settled

\* While MCS keeps to what it gave up, settled pushes stay settled.
LEMMA GivenUpStep ==
  ASSUME GivenUpOnlyWhenHandled, IdsOK, UNCHANGED <<issued, unacked>>,
         \A p \in Pushes : Settled(p) => Settled(p)'
  PROVE  GivenUpOnlyWhenHandled'
<1>1. 1 .. issued \subseteq Pushes
  BY PushAssumption DEF IdsOK, Pushes
<1>2. QED
  BY <1>1 DEF GivenUpOnlyWhenHandled, Settled

\* A gateway that starts remembers what is on disk.
LEMMA StartStep ==
  ASSUME IInv, Start
  PROVE  IInv'
<1> USE DEF IInv
<1>1. /\ ~up /\ up' = TRUE /\ pc = "idle" /\ pc' = "idle"
      /\ UNCHANGED <<issued, unacked, link, wire, acks, file, handled, forgotten, dropped>>
      /\ ids' = Recent(file) /\ told' = ToSet(ids')
      /\ file \in Seq(ToSet(file)) /\ Len(file) <= MaxIds
  BY DEF Start, mcs, line, ghosts, IdsInv, IdsOK, Recorded
<1>2. ids' = file
  BY <1>1, RecentProperties
<1>3. IdsInv'
  BY <1>1, <1>2 DEF IdsInv, IdsOK, Remembered, Recorded, HandledOnce, InHand, Settled
<1>4. ToldSettled'
  BY <1>1, <1>2 DEF ToldSettled, Settled, InHand
<1>5. QED
  BY <1>1, <1>3, <1>4, GivenUpStep DEF Settled, IdsInv

\* A new push is recorded before anything else; one seen before is acked.
LEMMA ReceiveStep ==
  ASSUME IInv, ReceivePush
  PROVE  IInv'
<1> USE DEF IInv, mcs
<1>1. /\ pc = "idle" /\ up /\ ids \in Seq(ToSet(ids)) /\ file \in Seq(ToSet(file))
      /\ UNCHANGED <<issued, unacked, link, acks, up, told, handled, dropped>>
      /\ <<>> \in Seq(ToSet(<<>>)) /\ ToSet(<<>>) = {} /\ Len(<<>>) <= MaxIds
  BY EmptyIds DEF ReceivePush, AckLater, IdsInv, IdsOK, ToSet
<1>2. CASE current' \in ToSet(ids)
  <2>1. pc' = "ack" /\ UNCHANGED <<ids, file, forgotten>>
    BY <1>2 DEF ReceivePush
  <2>2. IdsInv'
    BY <1>1, <2>1 DEF IdsInv, IdsOK, Remembered, Recorded, HandledOnce, InHand, Settled
  <2>3. ToldSettled'
    BY <1>1, <1>2, <2>1 DEF ToldSettled, Settled, InHand
  <2>4. QED
    BY <1>1, <2>2, <2>3, GivenUpStep DEF Settled, IdsInv
<1>3. CASE current' \notin ToSet(ids)
  <2>1. /\ pc' = "write" /\ file' = <<>> /\ ids' = Recent(Append(ids, current'))
        /\ forgotten' = forgotten \cup (ToSet(ids) \ ToSet(ids'))
    BY <1>3 DEF ReceivePush, Record
  <2>2. /\ ids' \in Seq(ToSet(ids')) /\ Len(ids') <= MaxIds
        /\ current' \in ToSet(ids') /\ ToSet(ids') \subseteq ToSet(ids) \cup {current'}
    BY <1>1, <2>1, RecentAppend
  <2>3. IdsOK'
    BY <1>1, <2>1, <2>2 DEF IdsInv, IdsOK
  <2>4. Remembered' /\ HandledOnce'
    BY <1>1, <2>1 DEF IdsInv, Remembered, HandledOnce, Settled
  <2>5. Recorded'
    BY <1>1, <1>3, <2>1, <2>2 DEF IdsInv, Remembered, Recorded, InHand, Settled
  <2>6. ToldSettled'
    BY <1>1, <2>1, <2>2 DEF ToldSettled, Settled, InHand
  <2>7. QED
    BY <1>1, <2>3, <2>4, <2>5, <2>6, GivenUpStep DEF Settled, IdsInv
<1>4. QED
  BY <1>2, <1>3

\* A login that was answered, a write that completes or fails, and an ack.
LEMMA HandleStep ==
  ASSUME IInv, ReceiveLogin \/ Write \/ WriteFails \/ Ack
  PROVE  IInv'
<1> USE DEF IInv, mcs, line, ghosts
<1>1. /\ UNCHANGED <<issued, unacked, link, up, ids, current, handled, forgotten, dropped>>
      /\ wire' # <<>> => wire # <<>>
      /\ file' \in {file, ids}
  BY DEF ReceiveLogin, Write, WriteFails, Ack, Saved
<1>2. /\ pc \in {"idle", "write", "ack"} /\ (pc' # "idle" => pc = "write")
      /\ pc = "write" => pc' = "dispatch"
      /\ pc = "ack" => pc' = "idle"
      /\ file' # file => pc = "write"
      /\ told' \subseteq told \cup (IF pc = "ack" THEN {current} ELSE {})
      /\ acks' \subseteq acks \cup (IF pc = "ack" THEN {current} ELSE {})
  BY DEF ReceiveLogin, Write, WriteFails, Ack, Saved
<1>3. IdsInv'
  <2>1. IdsOK'
    BY <1>1 DEF IdsInv, IdsOK
  <2>2. Recorded' /\ HandledOnce'
    BY <1>1, <1>2 DEF IdsInv, Recorded, HandledOnce, InHand, Settled
  <2>3. Remembered'
    BY <1>1, <1>2 DEF IdsInv, Remembered, Recorded, Settled
  <2>4. QED
    BY <2>1, <2>2, <2>3 DEF IdsInv
<1>4. ToldSettled'
  BY <1>1, <1>2 DEF ToldSettled, Settled, InHand
<1>5. QED
  BY <1>1, <1>3, <1>4, GivenUpStep DEF Settled, IdsInv

\* The push in hand is handed over: again only if it was forgotten.
LEMMA DispatchStep ==
  ASSUME IInv, Dispatch
  PROVE  IInv'
<1> USE DEF IInv, mcs, line
<1>1. /\ pc = "dispatch" /\ pc' = "ack" /\ up /\ handled \in [Pushes -> 0 .. 2]
      /\ UNCHANGED <<issued, unacked, link, wire, acks, file, up, ids, told, current,
                     forgotten, dropped>>
      /\ current \in ToSet(ids)
      /\ current \in Pushes /\ handled[current] > 0 => current \in forgotten
  BY DEF Dispatch, IdsInv, IdsOK, Recorded, InHand, Settled
<1>2. /\ handled' \in [Pushes -> 0 .. 2]
      /\ \A p \in Pushes : handled'[p] =
           IF p = current THEN (IF handled[p] = 0 THEN 1 ELSE 2) ELSE handled[p]
  <2>1. handled' = [handled EXCEPT ![current] = IF handled[current] = 0 THEN 1 ELSE 2]
    BY DEF Dispatch
  <2>2. DOMAIN handled = Pushes /\ \A p \in Pushes : handled[p] \in 0 .. 2
    BY <1>1
  <2>3. \A p \in Pushes : handled'[p] =
          IF p = current THEN (IF handled[p] = 0 THEN 1 ELSE 2) ELSE handled[p]
    BY <2>1, <2>2, Zenon
  <2>4. \A p \in Pushes : handled'[p] \in 0 .. 2
    BY <2>2, <2>3
  <2>5. handled' = [p \in Pushes |-> handled'[p]]
    BY <2>1, <2>2, Zenon
  <2>6. QED
    BY <2>3, <2>4, <2>5
<1>3. IdsInv'
  <2>1. IdsOK' /\ Recorded'
    BY <1>1, <1>2 DEF IdsInv, IdsOK, Recorded, InHand, Settled
  <2>2. Remembered'
    BY <1>1, <1>2 DEF IdsInv, Remembered, Settled
  <2>3. HandledOnce'
    BY <1>1, <1>2 DEF IdsInv, HandledOnce
  <2>4. QED
    BY <2>1, <2>2, <2>3 DEF IdsInv
<1>4. \A p \in Pushes : (Settled(p) \/ p = current) => Settled(p)'
  BY <1>1, <1>2 DEF Settled
<1>5. ToldSettled'
  BY <1>1, <1>4 DEF ToldSettled, InHand
<1>6. QED
  BY <1>1, <1>3, <1>4, <1>5, GivenUpStep DEF IdsInv

\* A gateway that ends forgets what is not on disk, and drops the push it was
\* about to hand over.
LEMMA EndStep ==
  ASSUME IInv, Ends
  PROVE  IInv'
<1> USE DEF IInv, mcs, Hangup
<1>1. /\ link' = "down" /\ wire' = <<>> /\ acks' = {} /\ up' = FALSE /\ ids' = <<>>
      /\ told' = {} /\ pc' = "idle" /\ UNCHANGED <<issued, unacked, file, current, handled>>
      /\ forgotten' = forgotten \cup (ToSet(ids) \ ToSet(file))
      /\ dropped \subseteq dropped' /\ \A p \in dropped' : p \in dropped \cup ToSet(file)
      /\ pc = "dispatch" /\ current \in ToSet(file) => current \in dropped'
      /\ <<>> \in Seq(ToSet(<<>>)) /\ ToSet(<<>>) = {} /\ Len(<<>>) <= MaxIds
  BY EmptyIds DEF Ends, ToSet
<1>2. IdsInv'
  <2>1. IdsOK'
    BY <1>1 DEF IdsInv, IdsOK
  <2>2. Remembered'
    BY <1>1 DEF IdsInv, Remembered, Settled
  <2>3. Recorded' /\ HandledOnce'
    BY <1>1 DEF IdsInv, Recorded, HandledOnce, InHand, Settled
  <2>4. QED
    BY <2>1, <2>2, <2>3 DEF IdsInv
<1>3. \A p \in Pushes : Settled(p) => Settled(p)'
  BY <1>1 DEF Settled
<1>4. ToldSettled'
  BY <1>1, <1>3 DEF ToldSettled, Settled, InHand
<1>5. QED
  BY <1>1, <1>2, <1>3, <1>4, GivenUpStep DEF IdsInv

-----------------------------------------------------------------------------
(* InOrder, what MCS resends.                                              *)

\* s holds what S does, in order.
InOrderOf(S, s) == s \in SetToSeqs(S) /\ \A i, j \in DOMAIN s : i < j => s[i] < s[j]

\* Whatever pushes MCS still holds can be put in order: of the pushes up to n,
\* there is no least n for which they cannot.
LEMMA OrderExists ==
  ASSUME NEW n \in Nat, NEW S \in SUBSET (1 .. n)
  PROVE  \E s : InOrderOf(S, s)
<1> DEFINE Unordered == {m \in Nat : \E T \in SUBSET (1 .. m) : ~\E s : InOrderOf(T, s)}
<1> SUFFICES ASSUME n \in Unordered PROVE FALSE
  OBVIOUS
<1>1. PICK m \in Unordered : \A y \in Unordered : ~(<<y, m>> \in OpToRel(<, Nat))
  <2>1. Unordered \subseteq Nat /\ Unordered # {}
    OBVIOUS
  <2> HIDE DEF Unordered
  <2>2. QED
    BY <2>1, NatLessThanWellFounded, WFMin
<1>2. PICK T \in SUBSET (1 .. m) : ~\E s : InOrderOf(T, s)
  OBVIOUS
<1>3. m \in Nat /\ IsFiniteSet(T) /\ \A x \in T : x \in 1 .. m
  <2>1. m \in Nat /\ m \in Int /\ 1 \in Int
    OBVIOUS
  <2> HIDE DEF Unordered
  <2>2. IsFiniteSet(1 .. m)
    BY <2>1, FS_Interval
  <2>3. QED
    BY <2>1, <2>2, FS_Subset
<1>4. T # {}
  <2>1. InOrderOf({}, <<>>)
    BY FS_EmptySet DEF InOrderOf, SetToSeqs
  <2>2. QED
    BY <1>2, <2>1
<1>5. m >= 1 /\ m - 1 \in Nat
  <2>1. PICK x \in T : x \in 1 .. m
    BY <1>3, <1>4
  <2>2. QED
    BY <1>3, <2>1
<1>6. m - 1 \notin Unordered
  <2>1. <<m - 1, m>> \in OpToRel(<, Nat)
    BY <1>3, <1>5 DEF OpToRel
  <2> HIDE DEF Unordered
  <2>2. QED
    BY <1>1, <2>1
<1>7. CASE m \notin T
  <2>1. T \in SUBSET (1 .. m - 1)
    BY <1>3, <1>7
  <2>2. QED
    BY <1>2, <1>3, <1>5, <1>6, <2>1
<1>8. CASE m \in T
  <2> DEFINE U == T \ {m}
  <2>1. U \in SUBSET (1 .. m - 1)
    BY <1>3
  <2>2. PICK s : InOrderOf(U, s)
    BY <1>3, <1>5, <1>6, <2>1
  <2>3. Cardinality(T) = Cardinality(U) + 1 /\ Cardinality(U) \in Nat
    BY <1>3, <1>8, FS_RemoveElement, FS_CardinalityType, FS_Subset
  <2> DEFINE c == Cardinality(U)
             t == [i \in 1 .. c + 1 |-> IF i = c + 1 THEN m ELSE s[i]]
  <2>4. /\ s \in [1 .. c -> U]
        /\ \A i, j \in 1 .. c : i < j => s[i] < s[j]
        /\ \A i, j \in 1 .. c : i # j => s[i] # s[j]
    BY <2>2 DEF InOrderOf, SetToSeqs
  <2> HIDE DEF U, c
  <2>5. /\ t \in [1 .. c + 1 -> T] /\ DOMAIN t = 1 .. c + 1
        /\ \A i \in 1 .. c + 1 : t[i] = IF i = c + 1 THEN m ELSE s[i]
    <3>1. \A i \in 1 .. c + 1 : (IF i = c + 1 THEN m ELSE s[i]) \in T
      <4>1. c \in Nat /\ U \subseteq T
        BY <2>3 DEF U, c
      <4>2. \A i \in 1 .. c + 1 : i # c + 1 => i \in 1 .. c
        BY <4>1
      <4>3. QED
        BY <1>8, <2>4, <4>1, <4>2
    <3>2. QED
      BY <3>1
  <2>6. c \in Nat /\ t[c + 1] = m
    BY <2>3, <2>5 DEF c
  <2>7. \A i \in 1 .. c : t[i] = s[i] /\ t[i] < m /\ i \in 1 .. c + 1
    <3>1. \A i \in 1 .. c : s[i] \in U /\ i \in 1 .. c + 1 /\ i # c + 1
      BY <2>4, <2>6
    <3>2. \A x \in U : x < m
      BY <1>3, <2>1
    <3>3. QED
      BY <2>5, <3>1, <3>2
  <2> HIDE DEF t
  <2>8. ASSUME NEW i \in 1 .. c + 1, NEW j \in 1 .. c + 1, i < j
        PROVE  t[i] < t[j]
    <3>1. i \in 1 .. c
      BY <2>6, <2>8
    <3>2. CASE j = c + 1
      BY <2>6, <2>7, <3>1, <3>2
    <3>3. CASE j \in 1 .. c
      BY <2>4, <2>7, <2>8, <3>1, <3>3
    <3>4. QED
      BY <2>6, <3>2, <3>3
  <2>9. \A i \in 1 .. c + 1 : t[i] \in Nat
    <3>1. \A x \in T : x \in Nat
      BY <1>3
    <3>2. QED
      BY <2>5, <3>1
  <2>10. \A i, j \in 1 .. c + 1 : i # j => t[i] # t[j]
    <3>1. SUFFICES ASSUME NEW i \in 1 .. c + 1, NEW j \in 1 .. c + 1, i # j
                   PROVE  t[i] # t[j]
      OBVIOUS
    <3>2. i < j \/ j < i
      BY <2>6, <3>1
    <3>3. t[i] < t[j] \/ t[j] < t[i]
      BY <2>8, <3>2
    <3>4. QED
      BY <2>9, <3>3
  <2>11. InOrderOf(T, t)
    BY <2>3, <2>5, <2>8, <2>10 DEF InOrderOf, SetToSeqs, c
  <2>12. QED
    BY <1>2, <2>11
<1>9. QED
  BY <1>7, <1>8

\* What MCS resends is a sequence of what it holds.
LEMMA InOrderIsSeq ==
  ASSUME NEW n \in Nat, NEW S \in SUBSET (1 .. n)
  PROVE  InOrder(S) \in Seq(S)
<1>1. InOrder(S) \in SetToSeqs(S)
  BY OrderExists DEF InOrderOf, InOrder
<1>2. Cardinality(S) \in Nat
  <2>1. IsFiniteSet(1 .. n)
    BY FS_Interval
  <2>2. QED
    BY <2>1, FS_Subset, FS_CardinalityType
<1>3. QED
  BY <1>1, <1>2 DEF SetToSeqs

-----------------------------------------------------------------------------
(* PushIntake: the types.                                                  *)

\* The types, and what they need to be kept: no id is twice on disk either, and
\* the push in hand is one that MCS was sent.
TypesKept ==
  /\ TypeOK /\ IsInjective(file)
  /\ pc # "idle" => current \in 1 .. issued

\* The elements of a sequence, and a sequence over a larger set.
LEMMA SequenceOver ==
  ASSUME NEW S, NEW T, S \subseteq T, NEW s \in Seq(S)
  PROVE  ToSet(s) \subseteq S /\ s \in Seq(T)
<1>1. DOMAIN s = 1 .. Len(s) /\ Len(s) \in Nat /\ \A i \in 1 .. Len(s) : s[i] \in S
  OBVIOUS
<1>2. QED
  BY <1>1 DEF ToSet

\* A trim brings in no id, and none twice.
LEMMA RecentInjective ==
  ASSUME NEW S, NEW s \in Seq(S), IsInjective(s)
  PROVE  Recent(s) \in Seq(S) /\ IsInjective(Recent(s)) /\ Len(Recent(s)) <= MaxIds
<1> DEFINE m == IF Len(s) > MaxIds THEN Len(s) - MaxIds + 1 ELSE 1
           r == Recent(s)
<1>1. Len(s) \in Nat /\ m \in Int /\ m >= 1
  BY PushAssumption
<1>2. r = SubSeq(s, m, Len(s)) /\ Len(r) <= MaxIds
  BY RecentProperties DEF Recent
<1>3. /\ r \in Seq(S)
      /\ Len(r) = IF m <= Len(s) THEN Len(s) - m + 1 ELSE 0
      /\ \A i \in 1 .. Len(s) - m + 1 : r[i] = s[m + i - 1]
  <2>1. \A i \in m .. Len(s) : s[i] \in S
    BY <1>1
  <2> HIDE DEF m, r
  <2>2. Len(s) \in Int
    BY <1>1
  <2>3. QED
    BY <1>1, <1>2, <2>1, <2>2, SubSeqProperties
<1> HIDE DEF m, r
<1>4. ASSUME NEW i \in DOMAIN r, NEW j \in DOMAIN r, r[i] = r[j]
      PROVE  i = j
  <2>1. /\ i \in 1 .. Len(s) - m + 1 /\ j \in 1 .. Len(s) - m + 1
        /\ m + i - 1 \in 1 .. Len(s) /\ m + j - 1 \in 1 .. Len(s)
    BY <1>1, <1>3
  <2>2. s[m + i - 1] = s[m + j - 1] /\ DOMAIN s = 1 .. Len(s)
    BY <1>3, <1>4, <2>1
  <2>3. m + i - 1 = m + j - 1
    BY <2>1, <2>2 DEF IsInjective
  <2>4. QED
    BY <1>1, <2>1, <2>3
<1>5. QED
  BY <1>2, <1>3, <1>4 DEF IsInjective, r

\* Neither does a new id.
LEMMA NewIdInjective ==
  ASSUME NEW S, NEW s \in Seq(S), IsInjective(s), NEW p \in S, p \notin ToSet(s)
  PROVE  Append(s, p) \in Seq(S) /\ IsInjective(Append(s, p))
<1> DEFINE t == Append(s, p)
<1>1. /\ t \in Seq(S) /\ DOMAIN t = 1 .. Len(s) + 1 /\ DOMAIN s = 1 .. Len(s)
      /\ Len(s) \in Nat /\ t[Len(s) + 1] = p
      /\ \A i \in 1 .. Len(s) : t[i] = s[i] /\ s[i] # p
  BY DEF ToSet
<1> HIDE DEF t
<1>2. ASSUME NEW i \in 1 .. Len(s) + 1, NEW j \in 1 .. Len(s) + 1, t[i] = t[j]
      PROVE  i = j
  <2>1. CASE i \in 1 .. Len(s) /\ j \in 1 .. Len(s)
    BY <1>1, <1>2, <2>1 DEF IsInjective
  <2>2. CASE i = Len(s) + 1 /\ j \in 1 .. Len(s)
    BY <1>1, <1>2, <2>2
  <2>3. CASE j = Len(s) + 1 /\ i \in 1 .. Len(s)
    BY <1>1, <1>2, <2>3
  <2>4. QED
    BY <1>1, <2>1, <2>2, <2>3
<1>3. QED
  BY <1>1, <1>2 DEF IsInjective, t

\* No ids at all.
LEMMA EmptyInjective == ASSUME NEW S PROVE <<>> \in Seq(S) /\ IsInjective(<<>>)
  BY DEF IsInjective

\* MCS sends, resends and takes acks, and the connection is lost.
LEMMA ServerTypes ==
  ASSUME TypesKept,
         Send \/ ServeLogin \/ LoseLink \/ (\E p \in Pushes : AckArrives(p)) \/ SendLogin
  PROVE  TypesKept'
<1> USE DEF gateway, ghosts, bounds
<1>1. issued \in 0 .. NPushes /\ NPushes \in Nat
  BY PushAssumption DEF TypesKept, TypeOK
<1>2. CASE Send
  <2>1. /\ issued' \in 0 .. NPushes /\ 1 .. issued \subseteq 1 .. issued'
        /\ 0 .. issued \subseteq 0 .. issued' /\ issued' \in 1 .. issued'
    BY <1>1, <1>2 DEF Send
  <2>2. ids \in Seq(1 .. issued') /\ file \in Seq(1 .. issued') /\ wire \in Seq(0 .. issued')
    BY <2>1, SequenceOver DEF TypesKept, TypeOK
  <2>3. wire' \in Seq(0 .. issued')
    <3>1. wire \in Seq(0 .. issued') /\ issued' \in 0 .. issued'
      BY <1>1, <2>1, <2>2 DEF TypesKept, TypeOK
    <3>2. wire' = wire \/ wire' = Append(wire, issued')
      BY <1>2 DEF Send
    <3>3. QED
      BY <3>1, <3>2
  <2>4. unacked' \subseteq 1 .. issued'
    BY <1>2, <2>1 DEF Send, TypesKept, TypeOK
  <2>5. QED
    BY <1>2, <2>1, <2>2, <2>3, <2>4 DEF Send, TypesKept, TypeOK
<1>3. CASE ServeLogin
  <2>1. unacked' \in SUBSET (1 .. issued) /\ unacked' \subseteq 0 .. issued
    BY <1>1, <1>3 DEF ServeLogin, TypesKept, TypeOK
  <2>2. InOrder(unacked') \in Seq(0 .. issued)
    <3>1. InOrder(unacked') \in Seq(unacked')
      <4>1. issued \in Nat
        BY <1>1
      <4>2. QED
        BY <2>1, <4>1, InOrderIsSeq
    <3>2. QED
      BY <2>1, <3>1, SequenceOver
  <2>3. wire' \in Seq(0 .. issued)
    BY <1>1, <1>3, <2>2 DEF ServeLogin, Login
  <2>4. up
    BY <1>3 DEF ServeLogin, TypesKept, TypeOK
  <2>5. QED
    BY <1>3, <2>1, <2>3, <2>4 DEF ServeLogin, TypesKept, TypeOK
<1>4. CASE LoseLink
  <2>1. losses' \in 0 .. MaxLosses
    BY <1>4, PushAssumption DEF LoseLink, TypesKept, TypeOK
  <2>2. QED
    BY <1>4, <2>1 DEF LoseLink, Hangup, mcs, TypesKept, TypeOK
<1>5. ASSUME NEW p \in Pushes, AckArrives(p)
      PROVE  TypesKept'
  BY <1>5 DEF AckArrives, TypesKept, TypeOK
<1>6. CASE SendLogin
  BY <1>6 DEF SendLogin, mcs, TypesKept, TypeOK
<1>7. QED
  BY <1>2, <1>3, <1>4, <1>5, <1>6

\* The gateway starts, handles what arrives, and ends.
LEMMA GatewayTypes ==
  ASSUME TypesKept, Start \/ Handle \/ Restart \/ Crash
  PROVE  TypesKept'
<1> USE DEF mcs, line, gateway, ghosts, bounds
<1>1. /\ issued \in 0 .. NPushes /\ NPushes \in Nat
      /\ \A S : <<>> \in Seq(S) /\ IsInjective(<<>>) /\ Len(<<>>) <= MaxIds
  BY EmptyInjective, EmptyIds, PushAssumption DEF TypesKept, TypeOK
<1>2. CASE Start
  <2>1. ids' \in Seq(1 .. issued) /\ IsInjective(ids') /\ Len(ids') <= MaxIds
    BY <1>2, RecentInjective DEF Start, TypesKept, TypeOK
  <2>2. told' \subseteq 1 .. issued
    BY <1>2, <2>1, SequenceOver DEF Start
  <2>3. QED
    BY <1>2, <2>1, <2>2 DEF Start, TypesKept, TypeOK
<1>3. CASE ReceiveLogin
  <2>1. wire' \in Seq(0 .. issued)
    BY <1>3 DEF ReceiveLogin, TypesKept, TypeOK
  <2>2. QED
    BY <1>3, <2>1 DEF ReceiveLogin, TypesKept, TypeOK
<1>4. CASE ReceivePush
  <2>1. wire' \in Seq(0 .. issued) /\ current' \in 1 .. issued /\ acks' = acks
    BY <1>1, <1>4 DEF ReceivePush, AckLater, Login, TypesKept, TypeOK
  <2>2. CASE current' \in ToSet(ids)
    <3>1. pc' = "ack" /\ UNCHANGED <<ids, file, forgotten>>
      BY <1>4, <2>2 DEF ReceivePush
    <3>2. QED
      BY <1>4, <2>1, <3>1 DEF ReceivePush, TypesKept, TypeOK
  <2>3. CASE current' \notin ToSet(ids)
    <3>1. pc' = "write" /\ ids' = Recent(Append(ids, current')) /\ file' = <<>>
          /\ forgotten' = forgotten \cup (ToSet(ids) \ ToSet(ids'))
      BY <1>4, <2>3 DEF ReceivePush, Record
    <3>2. ids' \in Seq(1 .. issued) /\ IsInjective(ids') /\ Len(ids') <= MaxIds
      <4>1. ids \in Seq(1 .. issued) /\ IsInjective(ids)
        BY DEF TypesKept, TypeOK
      <4>2. Append(ids, current') \in Seq(1 .. issued) /\ IsInjective(Append(ids, current'))
        BY <2>1, <2>3, <4>1, NewIdInjective
      <4>3. QED
        BY <3>1, <4>2, RecentInjective
    <3>3. forgotten' \subseteq 1 .. issued
      <4>1. forgotten \subseteq 1 .. issued /\ ids \in Seq(1 .. issued)
        BY DEF TypesKept, TypeOK
      <4>2. ToSet(ids) \subseteq 1 .. issued
        BY <4>1, SequenceOver
      <4>3. QED
        BY <3>1, <4>1, <4>2
    <3>4. QED
      BY <1>1, <1>4, <2>1, <3>1, <3>2, <3>3 DEF ReceivePush, TypesKept, TypeOK
  <2>4. QED
    BY <2>2, <2>3
<1>5. CASE Write
  BY <1>5 DEF Write, Saved, TypesKept, TypeOK
<1>6. CASE WriteFails
  <2>1. badWrites' \in 0 .. MaxBadWrites
    BY <1>6, PushAssumption DEF WriteFails, TypesKept, TypeOK
  <2>2. QED
    BY <1>6, <2>1 DEF WriteFails, TypesKept, TypeOK
<1>7. CASE Dispatch
  <2>1. handled' \in [Pushes -> 0 .. 2]
    <3>1. handled \in [Pushes -> 0 .. 2] /\ 1 \in 0 .. 2 /\ 2 \in 0 .. 2
      BY DEF TypesKept, TypeOK
    <3>2. handled' = [handled EXCEPT ![current] = IF handled[current] = 0 THEN 1 ELSE 2]
      BY <1>7 DEF Dispatch
    <3>3. QED
      BY <3>1, <3>2, Zenon
  <2>2. restarting' \in BOOLEAN
    BY <1>7 DEF Dispatch, TypesKept, TypeOK
  <2>3. QED
    BY <1>7, <2>1, <2>2 DEF Dispatch, TypesKept, TypeOK
<1>8. CASE Ack
  BY <1>8 DEF Ack, TypesKept, TypeOK
<1>9. ASSUME Ends, crashes' \in 0 .. MaxCrashes
      PROVE  TypesKept'
  <2>1. forgotten' \subseteq 1 .. issued /\ dropped' \subseteq 1 .. issued
    <3>1. /\ forgotten \subseteq 1 .. issued /\ dropped \subseteq 1 .. issued
          /\ ids \in Seq(1 .. issued) /\ file \in Seq(1 .. issued)
      BY DEF TypesKept, TypeOK
    <3>2. ToSet(ids) \subseteq 1 .. issued /\ ToSet(file) \subseteq 1 .. issued
      <4>1. \A s \in Seq(1 .. issued) : ToSet(s) \subseteq 1 .. issued
        BY SequenceOver
      <4>2. QED
        BY <3>1, <4>1
    <3>3. /\ forgotten' = forgotten \cup (ToSet(ids) \ ToSet(file))
          /\ dropped' = IF pc = "dispatch" /\ current \in ToSet(file)
                        THEN dropped \cup {current} ELSE dropped
      BY <1>9 DEF Ends
    <3>4. QED
      BY <3>1, <3>2, <3>3
  <2>2. QED
    BY <1>1, <1>9, <2>1 DEF Ends, Hangup, TypesKept, TypeOK
<1>10. CASE Restart \/ Crash
  <2>1. crashes' \in 0 .. MaxCrashes
    BY <1>10, PushAssumption DEF Restart, Crash, TypesKept, TypeOK
  <2>2. QED
    BY <1>9, <1>10, <2>1 DEF Restart, Crash
<1>11. QED
  BY <1>2, <1>3, <1>4, <1>5, <1>6, <1>7, <1>8, <1>10 DEF Handle

-----------------------------------------------------------------------------
(* The intake implements the promise.                                      *)

\* A step either leaves alone what was handed over, dropped, forgotten and given
\* up, or changes it as the promise lets it.
Promised == Delivery!Next \/ UNCHANGED Delivery!vars

\* What MCS gave up: it redelivers it no more.
GivenUp == (1 .. issued) \ unacked

\* MCS may give up whatever is settled.
LEMMA GivingUpPromised ==
  ASSUME TypeOK', GivenUpOnlyWhenHandled', UNCHANGED ghosts, GivenUp \subseteq GivenUp'
  PROVE  Promised
<1>1. GivenUp' \in SUBSET Pushes
  BY PushAssumption DEF TypeOK, GivenUp, Pushes
<1>2. Delivery!Finish(GivenUp')
  <2>1. UNCHANGED <<handled, dropped, forgotten>>
    BY DEF ghosts
  <2>2. \A p \in GivenUp' : handled[p] > 0 \/ p \in dropped
    BY <2>1 DEF GivenUpOnlyWhenHandled, GivenUp
  <2>3. GivenUp' = GivenUp \cup GivenUp'
    OBVIOUS
  <2>4. QED
    BY <2>1, <2>2, <2>3 DEF Delivery!Finish, GivenUp
<1>3. QED
  BY <1>1, <1>2 DEF Promised, Delivery!Next

\* A gateway may forget ids, and drop what it did not hand over.
LEMMA LosingPromised ==
  ASSUME TypeOK', UNCHANGED <<handled, issued, unacked>>,
         forgotten \subseteq forgotten', dropped \subseteq dropped',
         \A p \in dropped' \ dropped : handled[p] = 0 \/ p \in forgotten
  PROVE  Promised
<1> DEFINE S == dropped' \ dropped
<1>1. S \in SUBSET Pushes /\ forgotten' \in SUBSET Pushes
  BY PushAssumption DEF TypeOK, Pushes
<1>2. Delivery!Lose(S, forgotten')
  BY DEF Delivery!Lose
<1>3. QED
  BY <1>1, <1>2 DEF Promised, Delivery!Next

\* The push in hand may be handed over: were it settled, its id would be
\* forgotten, and MCS gave up only what is settled.
LEMMA DispatchPromised ==
  ASSUME IInv, TypesKept, Dispatch
  PROVE  Promised
<1>1. /\ pc = "dispatch" /\ current \in Pushes
      /\ UNCHANGED <<dropped, forgotten, issued, unacked>>
      /\ handled \in [Pushes -> 0 .. 2]
      /\ handled' = [handled EXCEPT ![current] = IF handled[current] = 0 THEN 1 ELSE 2]
  BY PushAssumption DEF Dispatch, TypesKept, TypeOK, Pushes, mcs
<1>2. Settled(current) => current \in forgotten
  BY <1>1 DEF IInv, IdsInv, Recorded, InHand
<1>3. current \in GivenUp => Settled(current)
  BY DEF IInv, GivenUpOnlyWhenHandled, GivenUp, Settled
<1>4. current \in forgotten \/ (handled[current] = 0 /\ current \notin GivenUp)
  <2>1. handled[current] \in 0 .. 2
    BY <1>1
  <2>2. handled[current] = 0 \/ handled[current] > 0
    BY <2>1
  <2>3. QED
    BY <1>2, <1>3, <2>2 DEF Settled
<1>5. handled' = [p \in Pushes |-> IF p \in {current} THEN (IF handled[p] = 0 THEN 1 ELSE 2)
                                   ELSE handled[p]]
  BY <1>1, Zenon
<1>6. Delivery!Deliver({current})
  BY <1>1, <1>4, <1>5 DEF Delivery!Deliver, Delivery!Fresh, GivenUp
<1>7. QED
  BY <1>1, <1>6 DEF Promised, Delivery!Next

\* A gateway that ends drops at most the push in hand, which it did not hand
\* over unless its id was forgotten.
LEMMA EndPromised ==
  ASSUME IInv, TypesKept, TypeOK', Ends
  PROVE  Promised
<1>1. /\ UNCHANGED <<handled, issued, unacked>>
      /\ forgotten \subseteq forgotten' /\ dropped \subseteq dropped'
      /\ \A p \in dropped' \ dropped : pc = "dispatch" /\ p = current
  BY DEF Ends, mcs
<1>2. ASSUME pc = "dispatch"
      PROVE  handled[current] = 0 \/ current \in forgotten
  <2>1. current \in Pushes /\ handled[current] \in 0 .. 2
    BY <1>2, PushAssumption DEF TypesKept, TypeOK, Pushes
  <2>2. Settled(current) => current \in forgotten
    BY <1>2, <2>1 DEF IInv, IdsInv, Recorded, InHand
  <2>3. QED
    BY <2>1, <2>2 DEF Settled
<1>3. QED
  BY <1>1, <1>2, LosingPromised

\* Every step of MCS, of the connection and of the gateway is one the promise
\* allows.
LEMMA IntakeStep ==
  ASSUME IInv, TypesKept, [Next]_vars, IInv', TypesKept'
  PROVE  Promised
<1>1. TypeOK' /\ GivenUpOnlyWhenHandled'
  BY DEF IInv, TypesKept
<1>2. CASE Send
  <2>1. issued \in Nat /\ issued' = issued + 1 /\ unacked' = unacked \cup {issued'}
        /\ UNCHANGED ghosts
    BY <1>2, PushAssumption DEF Send, TypesKept, TypeOK
  <2>2. GivenUp \subseteq GivenUp'
    BY <2>1 DEF GivenUp
  <2>3. QED
    BY <1>1, <2>1, <2>2, GivingUpPromised
<1>3. CASE ServeLogin \/ \E p \in Pushes : AckArrives(p)
  <2>1. issued' = issued /\ unacked' \subseteq unacked /\ UNCHANGED ghosts
    BY <1>3 DEF ServeLogin, AckArrives
  <2>2. QED
    BY <1>1, <2>1, GivingUpPromised DEF GivenUp
<1>4. CASE \/ LoseLink \/ Start \/ SendLogin \/ ReceiveLogin \/ Write \/ WriteFails \/ Ack
           \/ UNCHANGED vars
  <2>1. UNCHANGED <<issued, unacked>> /\ UNCHANGED ghosts
    BY <1>4 DEF LoseLink, Start, SendLogin, ReceiveLogin, Write, WriteFails, Ack, vars, mcs,
       ghosts
  <2>2. QED
    BY <1>1, <2>1, GivingUpPromised DEF GivenUp
<1>5. CASE ReceivePush
  <2>1. UNCHANGED <<handled, dropped, issued, unacked>> /\ forgotten \subseteq forgotten'
    BY <1>5 DEF ReceivePush, Record, mcs
  <2>2. QED
    BY <1>1, <2>1, LosingPromised
<1>6. QED
  BY <1>1, <1>2, <1>3, <1>4, <1>5, DispatchPromised, EndPromised
  DEF Next, Handle, Restart, Crash

-----------------------------------------------------------------------------
(* The theorems.                                                           *)

\* Every reachable state satisfies the invariant.
THEOREM IntakeInductive == Spec => []IInv
<1>1. IInv /\ [Next]_vars => IInv'
  <2> SUFFICES ASSUME IInv, [Next]_vars PROVE IInv'
    OBVIOUS
  <2>1. CASE Restart \/ Crash
    BY <2>1, EndStep DEF Restart, Crash
  <2>2. CASE UNCHANGED vars
    BY <2>2 DEF vars, mcs, line, gateway, ghosts, IInv, IdsInv, IdsOK, Remembered, Recorded,
       HandledOnce, ToldSettled, Settled, InHand, GivenUpOnlyWhenHandled
  <2>3. QED
    BY <2>1, <2>2, ServerStep, StartStep, ReceiveStep, HandleStep, DispatchStep DEF Next, Handle
<1>2. QED
  BY InitInv, <1>1, PTL DEF Spec

\* No push is handled twice unless its id was forgotten: it was trimmed, or was
\* not on disk when a gateway ended (ReceivedPersistentIds).
THEOREM PushesHandledOnce == Spec => []HandledOnce
<1>1. IInv => HandledOnce
  BY DEF IInv, IdsInv
<1>2. QED
  BY IntakeInductive, <1>1, PTL

\* MCS gives up a push only once it was handled, or a crash came between its
\* record and its handler (FilamentFCMClient, FcmPushClient._handle_data_message).
THEOREM GivenUpWhenHandled == Spec => []GivenUpOnlyWhenHandled
<1>1. IInv => GivenUpOnlyWhenHandled
  BY DEF IInv
<1>2. QED
  BY IntakeInductive, <1>1, PTL

\* Every reachable state keeps to the types, and to what they need to be kept.
THEOREM TypesInductive == Spec => []TypesKept
<1>1. Init => TypesKept
  <2> SUFFICES ASSUME Init PROVE TypesKept
    OBVIOUS
  <2>1. <<>> \in Seq(1 .. issued) /\ <<>> \in Seq(0 .. issued) /\ IsInjective(<<>>) /\ Len(<<>>) <= MaxIds
    BY EmptyInjective, EmptyIds
  <2>2. handled \in [Pushes -> 0 .. 2]
    BY DEF Init
  <2>3. issued = 0 /\ issued \in 0 .. NPushes /\ current \in 0 .. issued
    BY PushAssumption DEF Init, Login
  <2>4. losses \in 0 .. MaxLosses /\ crashes \in 0 .. MaxCrashes /\ badWrites \in 0 .. MaxBadWrites
    BY PushAssumption DEF Init
  <2>5. QED
    BY <2>1, <2>2, <2>3, <2>4 DEF Init, TypesKept, TypeOK
<1>2. TypesKept /\ [Next]_vars => TypesKept'
  <2>1. TypesKept /\ UNCHANGED vars => TypesKept'
    BY DEF vars, mcs, line, gateway, ghosts, bounds, TypesKept, TypeOK
  <2>2. QED
    BY <2>1, ServerTypes, GatewayTypes DEF Next
<1>3. QED
  BY <1>1, <1>2, PTL DEF Spec

\* The types of the intake.  What matters in them: the ids keep within their
\* bound and hold no push twice, whatever is redelivered, trimmed, reloaded or
\* torn, and something arrives only at a running gateway (ReceivedPersistentIds).
THEOREM IntakeTypes == Spec => []TypeOK
<1>1. TypesKept => TypeOK
  BY DEF TypesKept
<1>2. QED
  BY <1>1, TypesInductive, PTL

\* The intake implements InboundDelivery: whatever is redelivered, lost, trimmed
\* or torn, and whenever a gateway restarts or crashes, no push is handed over
\* again or after MCS gave it up unless its id was forgotten, and MCS gives none
\* up that was neither handed over nor dropped.
THEOREM IntakeImplementsDelivery == Spec => ImplementsDelivery
<1>1. Init => Delivery!Init
  BY PushAssumption DEF Init, Delivery!Init
<1>2. /\ IInv /\ TypesKept /\ [Next]_vars /\ IInv' /\ TypesKept'
      => [Delivery!Next]_(Delivery!vars)
  BY IntakeStep DEF Promised
<1>3. QED
  BY <1>1, <1>2, IntakeInductive, TypesInductive, PTL DEF Spec, ImplementsDelivery, Delivery!Spec

-----------------------------------------------------------------------------
(* PushReceiver: the tasks, the lock and the error counters.               *)

ListenAt  == {"connect", "login", "read", "close", "reconnect", "relogin",
              "closing", "done"}
MonitorAt == {"sleep", "beat", "close", "reconnect", "relogin", "done"}
Inside    == {"close", "reconnect", "relogin"}
Over      == {"closing", "done"}

\* Whoever is inside a reset holds the lock, and once a counter is full no task
\* is left that could count on.
TasksOK ==
  /\ at \in [Tasks -> ListenAt \cup MonitorAt]
  /\ at["listen"] \in ListenAt /\ at["monitor"] \in MonitorAt
  /\ lock \in Tasks \cup {Free}
  /\ \A t \in Tasks : lock = t <=> at[t] \in Inside
ErrorsOK ==
  /\ errors \in [Errors -> 0 .. AbortCount]
  /\ \A e \in Errors : errors[e] = AbortCount => \A t \in Tasks : at[t] \in Over
FlagsOK ==
  /\ run \in {"created", "resetting", "connecting", "login", "started", "stopping"}
  /\ listening \in BOOLEAN
OwnersOK ==
  /\ life \in {"off", "on", "fatal"} /\ asked \in BOOLEAN /\ fresh \in BOOLEAN
  /\ conn \in {"none", "open", "broken", "silent"}
  /\ watched \subseteq Tasks /\ stopped \in BOOLEAN /\ reported \in BOOLEAN
  /\ judged \in BOOLEAN
  /\ faults \in 0 .. MaxFaults /\ stops \in 0 .. MaxStops
ClientOK == TasksOK /\ ErrorsOK /\ FlagsOK
ReceiverInv == ClientOK /\ OwnersOK

LEMMA ReceiverStarts == ReceiverInit => ReceiverInv
<1> SUFFICES ASSUME ReceiverInit PROVE ReceiverInv
  OBVIOUS
<1>1. TasksOK /\ FlagsOK
  BY DEF ReceiverInit, TasksOK, FlagsOK, Tasks, Free, ListenAt, MonitorAt, Inside
<1>2. ErrorsOK
  BY ReceiverAssumption DEF ReceiverInit, ErrorsOK, ReceiverAssumption, Over, Errors
<1>3. faults \in 0 .. MaxFaults /\ stops \in 0 .. MaxStops
  BY ReceiverAssumption DEF ReceiverInit, ReceiverAssumption
<1>4. OwnersOK
  BY <1>3 DEF ReceiverInit, OwnersOK
<1> QED BY <1>1, <1>2, <1>4 DEF ReceiverInv, ClientOK

\* Cancelled tasks leave their reset, and giving up frees the lock.
LEMMA CancelledEnd ==
  ASSUME TasksOK, at' = Cancelled(Tasks), lock' = Free
  PROVE  TasksOK' /\ \A t \in Tasks : at'[t] \in Over
BY DEF TasksOK, Cancelled, Tasks, Free, ListenAt, MonitorAt, Inside, Over

LEMMA TerminateKeeps ==
  ASSUME ClientOK, Terminate
  PROVE  TasksOK' /\ FlagsOK' /\ \A t \in Tasks : at'[t] \in Over
BY CancelledEnd DEF Terminate, ClientOK, FlagsOK

\* A task that is in no reset begins one, or goes on because another runs.
LEMMA ResetKeeps ==
  ASSUME TasksOK, FlagsOK, NEW t \in Tasks, at[t] \notin Inside,
         t = "monitor" => at[t] # "done", Reset(t), listening' = listening
  PROVE  /\ TasksOK' /\ FlagsOK'
         /\ lock' = t => lock = Free
         /\ lock' # lock => lock' = t
<1>1. CASE lock # Free \/ ~listening
  <2>1. at' = [at EXCEPT ![t] = Home(t)] /\ lock' = lock /\ run' = run
    BY <1>1 DEF Reset
  <2> QED BY <2>1 DEF TasksOK, FlagsOK, Home, Tasks, Free, ListenAt, MonitorAt, Inside
<1>2. CASE ~(lock # Free \/ ~listening)
  <2>1. at' = [at EXCEPT ![t] = "close"] /\ lock' = t /\ lock = Free /\ run' = "resetting"
    BY <1>2 DEF Reset
  <2> QED BY <2>1 DEF TasksOK, FlagsOK, Tasks, Free, ListenAt, MonitorAt, Inside
<1> QED BY <1>1, <1>2

\* An error is counted only while its counter is not full; the error that fills
\* it ends both tasks.
LEMMA CountKeeps ==
  ASSUME ClientOK, NEW t \in Tasks, at[t] \notin Inside \cup Over, NEW e \in Errors,
         CountAndReset(t, e)
  PROVE  ClientOK'
<1>1. errors[e] \in 0 .. AbortCount /\ errors[e] # AbortCount /\ AbortCount \in Nat
  BY ReceiverAssumption DEF ClientOK, ErrorsOK, ReceiverAssumption
<1>2. /\ errors' = [errors EXCEPT ![e] = errors[e] + 1] /\ errors'[e] = errors[e] + 1
      /\ errors' \in [Errors -> 0 .. AbortCount]
      /\ \A f \in Errors : f # e => errors'[f] = errors[f]
  BY <1>1 DEF CountAndReset, Counted, ClientOK, ErrorsOK
<1>3. \A f \in Errors : errors[f] # AbortCount
  BY DEF ClientOK, ErrorsOK
<1>4. CASE errors'[e] >= AbortCount
  <2>1. TasksOK' /\ FlagsOK' /\ \A u \in Tasks : at'[u] \in Over
    BY <1>4, TerminateKeeps DEF CountAndReset
  <2> QED BY <1>2, <2>1 DEF ClientOK, ErrorsOK
<1>5. CASE ~(errors'[e] >= AbortCount)
  <2>1. Reset(t) /\ listening' = listening
    BY <1>5 DEF CountAndReset
  <2>2. TasksOK' /\ FlagsOK'
    BY <2>1, ResetKeeps DEF ClientOK, Over
  <2>3. \A f \in Errors : errors'[f] # AbortCount
    BY <1>1, <1>2, <1>3, <1>5
  <2> QED BY <1>2, <2>2, <2>3 DEF ClientOK, ErrorsOK
<1> QED BY <1>4, <1>5

\* A task goes from one place outside of a reset to another.
LEMMA MoveKeeps ==
  ASSUME ClientOK, NEW t \in Tasks, at[t] \notin Inside,
         NEW to \in (IF t = "listen" THEN ListenAt ELSE MonitorAt) \ Inside,
         at' = [at EXCEPT ![t] = to], lock' = lock, errors' = errors, FlagsOK',
         at[t] \in Over => to \in Over
  PROVE  ClientOK'
<1>1. TasksOK'
  BY DEF ClientOK, TasksOK, Tasks
<1>2. ErrorsOK'
  BY DEF ClientOK, ErrorsOK, TasksOK, Tasks
<1> QED BY <1>1, <1>2 DEF ClientOK

LEMMA FaultCounts ==
  ASSUME OwnersOK, Fault
  PROVE  faults' \in 0 .. MaxFaults
BY ReceiverAssumption DEF OwnersOK, Fault, ReceiverAssumption

\* The steps of a reset.
LEMMA ResettingKeeps ==
  ASSUME ReceiverInv, NEW t \in Tasks, Resetting(t)
  PROVE  ReceiverInv'
<1>1. /\ at[t] \in Inside /\ lock = t /\ at \in [Tasks -> ListenAt \cup MonitorAt]
      /\ \A e \in Errors : errors[e] # AbortCount
  BY DEF Resetting, ResetCloses, ResetConnects, ResetLogsIn, ReceiverInv, ClientOK, TasksOK,
     ErrorsOK, Inside, Over
<1>2. CASE ResetCloses(t)
  <2>1. TasksOK'
    BY <1>1, <1>2 DEF ResetCloses, ReceiverInv, ClientOK, TasksOK, Tasks, ListenAt, MonitorAt,
         Inside
  <2>2. ErrorsOK'
    BY <1>1, <1>2 DEF ResetCloses, ReceiverInv, ClientOK, ErrorsOK
  <2>3. FlagsOK' /\ OwnersOK'
    BY <1>2 DEF ResetCloses, ReceiverInv, ClientOK, FlagsOK, OwnersOK, watch
  <2> QED BY <2>1, <2>2, <2>3 DEF ReceiverInv, ClientOK
<1>3. CASE ResetConnects(t)
  <2>1. CASE /\ conn' = "open" /\ run' = "login" /\ at' = [at EXCEPT ![t] = "relogin"]
             /\ judged' = FALSE /\ UNCHANGED <<listening, lock, faults>>
    <3>1. TasksOK'
      BY <1>1, <2>1 DEF ReceiverInv, ClientOK, TasksOK, Tasks, ListenAt, MonitorAt, Inside
    <3>2. ErrorsOK'
      BY <1>1, <1>3 DEF ResetConnects, ReceiverInv, ClientOK, ErrorsOK
    <3>3. FlagsOK' /\ OwnersOK'
      BY <1>3, <2>1 DEF ResetConnects, ReceiverInv, ClientOK, FlagsOK, OwnersOK, watch
    <3> QED BY <3>1, <3>2, <3>3 DEF ReceiverInv, ClientOK
  <2>2. CASE Fault /\ Terminate /\ UNCHANGED <<conn, judged>>
    <3>1. TasksOK' /\ FlagsOK' /\ \A u \in Tasks : at'[u] \in Over
      BY <2>2, TerminateKeeps DEF ReceiverInv
    <3>2. ErrorsOK'
      BY <1>3, <3>1 DEF ResetConnects, ReceiverInv, ClientOK, ErrorsOK
    <3>3. OwnersOK'
      BY <1>3, <2>2, FaultCounts DEF ResetConnects, ReceiverInv, OwnersOK, watch
    <3> QED BY <3>1, <3>2, <3>3 DEF ReceiverInv, ClientOK
  <2> QED BY <1>3, <2>1, <2>2 DEF ResetConnects
<1>4. CASE ResetLogsIn(t)
  <2>1. OwnersOK'
    BY <1>4 DEF ResetLogsIn, ReceiverInv, OwnersOK, watch
  <2>2. ASSUME at' = [at EXCEPT ![t] = Home(t)], lock' = Free, UNCHANGED <<run, listening>>
        PROVE  TasksOK' /\ FlagsOK'
    <3>1. TasksOK'
      BY <1>1, <2>2 DEF ReceiverInv, ClientOK, TasksOK, Tasks, ListenAt, MonitorAt, Inside,
           Home, Free
    <3>2. FlagsOK'
      BY <2>2 DEF ReceiverInv, ClientOK, FlagsOK
    <3> QED BY <3>1, <3>2
  <2>3. ASSUME Counted("login")
        PROVE  /\ errors' \in [Errors -> 0 .. AbortCount]
               /\ errors'["login"] < AbortCount => \A e \in Errors : errors'[e] # AbortCount
    <3>1. "login" \in Errors /\ errors \in [Errors -> 0 .. AbortCount] /\ AbortCount \in Nat
      BY ReceiverAssumption DEF ReceiverInv, ClientOK, ErrorsOK, Errors, ReceiverAssumption
    <3>2. errors["login"] + 1 \in 0 .. AbortCount
      BY <1>1, <3>1
    <3>3. errors' = [errors EXCEPT !["login"] = errors["login"] + 1]
      BY <2>3 DEF Counted
    <3> QED BY <1>1, <3>1, <3>2, <3>3
  <2>4. CASE /\ conn # "broken" /\ asked' = TRUE /\ lock' = Free
             /\ at' = [at EXCEPT ![t] = Home(t)] /\ UNCHANGED <<run, listening, errors>>
    <3>1. ErrorsOK'
      BY <1>1, <2>4 DEF ReceiverInv, ClientOK, ErrorsOK
    <3> QED BY <2>1, <2>2, <2>4, <3>1 DEF ReceiverInv, ClientOK
  <2>5. CASE Counted("login") /\ errors'["login"] >= AbortCount /\ Terminate
    <3>1. TasksOK' /\ FlagsOK' /\ \A u \in Tasks : at'[u] \in Over
      BY <2>5, TerminateKeeps DEF ReceiverInv
    <3>2. ErrorsOK'
      BY <2>3, <2>5, <3>1 DEF ErrorsOK
    <3> QED BY <2>1, <3>1, <3>2 DEF ReceiverInv, ClientOK
  <2>6. CASE /\ Counted("login") /\ ~(errors'["login"] >= AbortCount)
             /\ at' = [at EXCEPT ![t] = Home(t)] /\ lock' = Free
             /\ UNCHANGED <<run, listening>>
    <3>1. errors'["login"] < AbortCount
      <4>1. errors'["login"] \in 0 .. AbortCount /\ AbortCount \in Nat
        BY <2>3, <2>6, ReceiverAssumption DEF Errors, ReceiverAssumption
      <4> QED BY <2>6, <4>1
    <3>2. ErrorsOK'
      BY <2>3, <2>6, <3>1 DEF ErrorsOK
    <3> QED BY <2>1, <2>2, <2>6, <3>2 DEF ReceiverInv, ClientOK
  <2> QED BY <1>4, <2>4, <2>5, <2>6 DEF ResetLogsIn
<1> QED BY <1>2, <1>3, <1>4 DEF Resetting

LEMMA ListenKeeps ==
  ASSUME ReceiverInv, Listen
  PROVE  ReceiverInv'
<1>1. "listen" \in Tasks /\ "connection" \in Errors /\ "login" \in Errors
  BY DEF Tasks, Errors
<1>2. CASE Connects
  <2>1. CASE /\ conn' = "open" /\ run' = "login"
             /\ at' = [at EXCEPT !["listen"] = "login"]
             /\ judged' = FALSE /\ UNCHANGED faults
    <3>1. ClientOK'
      BY <1>1, <1>2, <2>1, MoveKeeps
      DEF Connects, ReceiverInv, ClientOK, FlagsOK, ListenAt, Inside, Over
    <3>2. OwnersOK'
      BY <1>2, <2>1 DEF Connects, ReceiverInv, OwnersOK, watch
    <3> QED BY <3>1, <3>2 DEF ReceiverInv
  <2>2. CASE /\ Fault /\ at' = [at EXCEPT !["listen"] = "done"]
             /\ UNCHANGED <<conn, run, judged>>
    <3>1. ClientOK'
      BY <1>1, <1>2, <2>2, MoveKeeps
      DEF Connects, ReceiverInv, ClientOK, FlagsOK, ListenAt, Inside, Over
    <3>2. OwnersOK'
      BY <1>2, <2>2, FaultCounts DEF Connects, ReceiverInv, OwnersOK, watch
    <3> QED BY <3>1, <3>2 DEF ReceiverInv
  <2> QED BY <1>2, <2>1, <2>2 DEF Connects
<1>3. CASE LogsIn
  <2>1. OwnersOK'
    BY <1>3 DEF LogsIn, ReceiverInv, OwnersOK, watch
  <2>2. CASE /\ asked' = TRUE /\ at' = [at EXCEPT !["listen"] = "read"]
             /\ UNCHANGED <<run, listening, lock, errors>>
    <3>1. ClientOK'
      BY <1>1, <1>3, <2>2, MoveKeeps
      DEF LogsIn, ReceiverInv, ClientOK, FlagsOK, ListenAt, Inside, Over
    <3> QED BY <2>1, <3>1 DEF ReceiverInv
  <2>3. CASE CountAndReset("listen", "login")
    <3>1. at["listen"] \notin Inside \cup Over
      BY <1>3 DEF LogsIn, Inside, Over
    <3> QED BY <1>1, <2>1, <2>3, <3>1, CountKeeps DEF ReceiverInv
  <2> QED BY <1>3, <2>2, <2>3 DEF LogsIn
<1>4. CASE LoginAnswered
  <2>1. at["listen"] \notin Inside \cup Over
    BY <1>4 DEF LoginAnswered, Reading, Inside, Over
  <2>2. CASE /\ run' = "started" /\ errors' = [errors EXCEPT !["login"] = 0]
             /\ UNCHANGED <<listening, at, lock, faults>>
    <3>1. TasksOK' /\ FlagsOK' /\ OwnersOK'
      BY <1>4, <2>2 DEF LoginAnswered, ReceiverInv, ClientOK, TasksOK, FlagsOK, OwnersOK, watch
    <3>2. ErrorsOK'
      BY <1>1, <2>1, <2>2, ReceiverAssumption
      DEF ReceiverInv, ClientOK, ErrorsOK, ReceiverAssumption
    <3> QED BY <3>1, <3>2 DEF ReceiverInv, ClientOK
  <2>3. CASE Fault /\ CountAndReset("listen", "login")
    <3>1. OwnersOK'
      BY <1>4, <2>3, FaultCounts DEF LoginAnswered, ReceiverInv, OwnersOK, watch
    <3> QED BY <1>1, <2>1, <2>3, <3>1, CountKeeps DEF ReceiverInv
  <2> QED BY <1>4, <2>2, <2>3 DEF LoginAnswered
<1>5. CASE CloseArrives
  <2>1. at["listen"] \notin Inside \cup Over
    BY <1>5 DEF CloseArrives, Reading, Inside, Over
  <2>2. OwnersOK'
    BY <1>5, FaultCounts DEF CloseArrives, ReceiverInv, OwnersOK, watch
  <2> QED BY <1>1, <1>5, <2>1, <2>2, CountKeeps DEF CloseArrives, ReceiverInv
<1>6. CASE ReadFails
  <2>1. at["listen"] \notin Inside \cup Over
    BY <1>6 DEF ReadFails, Reading, Inside, Over
  <2>2. OwnersOK'
    BY <1>6 DEF ReadFails, ReceiverInv, OwnersOK, watch
  <2> QED BY <1>1, <1>6, <2>1, <2>2, CountKeeps DEF ReadFails, ReceiverInv
<1>7. CASE OldReadFails
  <2>1. at["listen"] \notin Inside \cup Over
    BY <1>7 DEF OldReadFails, Inside, Over
  <2>2. OwnersOK'
    BY <1>7, FaultCounts DEF OldReadFails, ReceiverInv, OwnersOK, watch
  <2> QED BY <1>1, <1>7, <2>1, <2>2, CountKeeps DEF OldReadFails, ReceiverInv
<1>8. CASE ListenEnds
  <2>1. ClientOK'
    BY <1>1, <1>8, MoveKeeps DEF ListenEnds, ReceiverInv, ClientOK, FlagsOK, ListenAt, Inside, Over
  <2>2. OwnersOK'
    BY <1>8 DEF ListenEnds, ReceiverInv, OwnersOK, watch
  <2> QED BY <2>1, <2>2 DEF ReceiverInv
<1> QED BY <1>2, <1>3, <1>4, <1>5, <1>6, <1>7, <1>8 DEF Listen

LEMMA MessageArrivesKeeps ==
  ASSUME ReceiverInv, MessageArrives
  PROVE  ReceiverInv'
<1>1. TasksOK' /\ FlagsOK' /\ OwnersOK'
  BY DEF MessageArrives, ReceiverInv, ClientOK, TasksOK, FlagsOK, OwnersOK, watch
<1>2. \A e \in Errors : errors[e] # AbortCount
  BY DEF MessageArrives, Reading, ReceiverInv, ClientOK, ErrorsOK, Tasks, Over
<1>3. PICK S \in {{"connection"}, {"connection", "notify"}} :
         errors' = [e \in Errors |-> IF e \in S THEN 0 ELSE errors[e]]
  BY DEF MessageArrives
<1>4. ErrorsOK'
  BY <1>2, <1>3, ReceiverAssumption DEF ReceiverInv, ClientOK, ErrorsOK, ReceiverAssumption
<1> QED BY <1>1, <1>4 DEF ReceiverInv, ClientOK

LEMMA CallbackFailsKeeps ==
  ASSUME ReceiverInv, CallbackFails
  PROVE  ReceiverInv'
<1>1. OwnersOK'
  BY FaultCounts DEF CallbackFails, ReceiverInv, OwnersOK, watch
<1>2. /\ \A e \in Errors : errors[e] # AbortCount
      /\ errors \in [Errors -> 0 .. AbortCount] /\ AbortCount \in Nat \ {0}
  BY ReceiverAssumption
  DEF CallbackFails, Reading, ReceiverInv, ClientOK, ErrorsOK, Tasks, Over, ReceiverAssumption
<1>3. errors' = [errors EXCEPT !["notify"] = errors["notify"] + 1, !["connection"] = 0]
  BY DEF CallbackFails
<1>4. /\ errors' \in [Errors -> 0 .. AbortCount]
      /\ errors'["notify"] < AbortCount => \A e \in Errors : errors'[e] # AbortCount
  <2>1. errors["notify"] + 1 \in 0 .. AbortCount
    BY <1>2 DEF Errors
  <2> QED BY <1>2, <1>3, <2>1 DEF Errors
<1>5. CASE errors'["notify"] >= AbortCount /\ Terminate
  <2>1. TasksOK' /\ FlagsOK' /\ \A u \in Tasks : at'[u] \in Over
    BY <1>5, TerminateKeeps DEF ReceiverInv
  <2> QED BY <1>1, <1>4, <2>1 DEF ReceiverInv, ClientOK, ErrorsOK
<1>6. CASE ~(errors'["notify"] >= AbortCount) /\ UNCHANGED <<run, listening, at, lock>>
  <2>1. errors'["notify"] < AbortCount
    <3>1. errors'["notify"] \in 0 .. AbortCount
      BY <1>4 DEF Errors
    <3> QED BY <1>2, <1>6, <3>1
  <2> QED BY <1>1, <1>4, <1>6, <2>1 DEF ReceiverInv, ClientOK, ErrorsOK, TasksOK, FlagsOK
<1> QED BY <1>5, <1>6 DEF CallbackFails

LEMMA MonitorKeeps ==
  ASSUME ReceiverInv, Monitor
  PROVE  ReceiverInv'
<1>1. OwnersOK'
  BY DEF Monitor, Heartbeat, BeatOver, ReceiverInv, OwnersOK, watch
<1>2. "monitor" \in Tasks /\ at["monitor"] \in {"sleep", "beat"}
  BY DEF Tasks, Monitor, Heartbeat, BeatOver
<1>3. CASE Heartbeat
  <2>1. PICK next \in {"beat", "done"} : at' = [at EXCEPT !["monitor"] = next]
    BY <1>3 DEF Heartbeat
  <2>2. ClientOK'
    BY <1>2, <1>3, <2>1, MoveKeeps
    DEF Heartbeat, ReceiverInv, ClientOK, FlagsOK, MonitorAt, Inside, Over
  <2> QED BY <1>1, <2>2 DEF ReceiverInv
<1>4. CASE BeatOver
  <2>1. CASE Reset("monitor")
    <3>1. TasksOK' /\ FlagsOK'
      BY <1>2, <1>4, <2>1, ResetKeeps DEF BeatOver, ReceiverInv, ClientOK, Inside
    <3>2. \A e \in Errors : errors[e] # AbortCount
      BY <1>2 DEF ReceiverInv, ClientOK, ErrorsOK, Over
    <3>3. ErrorsOK'
      BY <1>4, <3>2 DEF BeatOver, ReceiverInv, ClientOK, ErrorsOK
    <3> QED BY <1>1, <3>1, <3>3 DEF ReceiverInv, ClientOK
  <2>2. CASE at' = [at EXCEPT !["monitor"] = "sleep"] /\ UNCHANGED <<run, lock>>
    <3>1. ClientOK'
      BY <1>2, <1>4, <2>2, MoveKeeps
      DEF BeatOver, ReceiverInv, ClientOK, FlagsOK, MonitorAt, Inside, Over
    <3> QED BY <1>1, <3>1 DEF ReceiverInv
  <2> QED BY <1>4, <2>1, <2>2 DEF BeatOver
<1> QED BY <1>3, <1>4 DEF Monitor

LEMMA WorldKeeps ==
  ASSUME ReceiverInv,
         \/ ConnectionBreaks \/ PeerGoesSilent \/ Quiet
         \/ \E t \in Tasks : TaskDone(t)
  PROVE  ReceiverInv'
<1>1. UNCHANGED <<run, listening, at, lock, errors>>
  BY DEF ConnectionBreaks, PeerGoesSilent, Quiet, TaskDone, client
<1>2. ClientOK'
  BY <1>1 DEF ReceiverInv, ClientOK, TasksOK, ErrorsOK, FlagsOK
<1>3. CASE ConnectionBreaks \/ PeerGoesSilent
  BY <1>2, <1>3, FaultCounts DEF ConnectionBreaks, PeerGoesSilent, ReceiverInv, OwnersOK, watch
<1>4. CASE Quiet
  BY <1>2, <1>4 DEF Quiet, ReceiverInv, OwnersOK, watch
<1>5. CASE \E t \in Tasks : TaskDone(t)
  BY <1>2, <1>5 DEF TaskDone, ReceiverInv, OwnersOK, client
<1> QED BY <1>3, <1>4, <1>5

LEMMA ConnectKeeps ==
  ASSUME ReceiverInv, Connect
  PROVE  ReceiverInv'
<1>1. TasksOK'
  BY DEF Connect, StartTasks, TasksOK, Tasks, Free, ListenAt, MonitorAt, Inside
<1>2. ErrorsOK'
  BY ReceiverAssumption DEF Connect, StartTasks, ErrorsOK, ReceiverAssumption
<1>3. FlagsOK' /\ OwnersOK'
  BY DEF Connect, StartTasks, FlagsOK, ReceiverInv, OwnersOK
<1> QED BY <1>1, <1>2, <1>3 DEF ReceiverInv, ClientOK

LEMMA DisconnectKeeps ==
  ASSUME ReceiverInv, Disconnect
  PROVE  ReceiverInv'
<1>1. TasksOK' /\ \A t \in Tasks : at'[t] \in Over
  BY CancelledEnd DEF Disconnect, ReceiverInv, ClientOK
<1>2. ErrorsOK' /\ FlagsOK'
  BY <1>1 DEF Disconnect, ReceiverInv, ClientOK, ErrorsOK, FlagsOK
<1>3. stops' \in 0 .. MaxStops
  BY ReceiverAssumption DEF Disconnect, ReceiverInv, OwnersOK, ReceiverAssumption
<1>4. OwnersOK'
  BY <1>3 DEF Disconnect, Silence, ReceiverInv, OwnersOK
<1> QED BY <1>1, <1>2, <1>4 DEF ReceiverInv, ClientOK

\* In every reachable state the lock is held exactly by the task that is inside
\* a reset, and a full counter leaves no task to go on.
THEOREM ReceiverInductive == ReceiverSpec => []ReceiverInv
<1>1. ReceiverInv /\ [ReceiverNext]_receiverVars => ReceiverInv'
  <2> SUFFICES ASSUME ReceiverInv, [ReceiverNext]_receiverVars PROVE ReceiverInv'
    OBVIOUS
  <2>1. CASE UNCHANGED receiverVars
    BY <2>1 DEF receiverVars, client, watch, ReceiverInv, ClientOK, TasksOK, ErrorsOK,
         FlagsOK, OwnersOK
  <2> QED BY <2>1, ListenKeeps, MessageArrivesKeeps, CallbackFailsKeeps, MonitorKeeps,
            ResettingKeeps, WorldKeeps, ConnectKeeps, DisconnectKeeps DEF ReceiverNext
<1> QED BY <1>1, ReceiverStarts, PTL DEF ReceiverSpec

\* The variables of the receiver stay in their types, and the tasks never reset
\* one connection both.
THEOREM OneReset == ReceiverSpec => []ReceiverTypeOK
<1>1. ReceiverInv => ReceiverTypeOK
  BY DEF ReceiverInv, ClientOK, TasksOK, ErrorsOK, FlagsOK, OwnersOK, ReceiverTypeOK,
     ListenAt, MonitorAt, Inside
<1> QED BY <1>1, ReceiverInductive, PTL

\* While the monitor waits for the ack of a heartbeat, a connection that was set
\* up since and has been logged in was heard from.
HeardSince == at["monitor"] = "beat" /\ ~judged /\ run = "started" => fresh

\* A task that counts an error leaves the monitor's wait alone; the receiver is
\* then as before, or no longer started.
LEMMA CountIsHeard ==
  ASSUME ReceiverInv, NEW e \in Errors, CountAndReset("listen", e)
  PROVE  /\ at'["monitor"] = "beat" => at["monitor"] = "beat"
         /\ run' = "started" => run = "started"
         /\ lock' # "monitor" \/ lock = "monitor"
<1>1. "listen" \in Tasks /\ "monitor" \in Tasks /\ at \in [Tasks -> ListenAt \cup MonitorAt]
  BY DEF Tasks, ReceiverInv, ClientOK, TasksOK
<1>2. CASE Terminate
  BY <1>1, <1>2 DEF Terminate, Cancelled, Free
<1>3. CASE Reset("listen")
  BY <1>1, <1>3 DEF Reset, Home
<1> QED BY <1>2, <1>3 DEF CountAndReset

LEMMA HeardSinceKept ==
  ASSUME ReceiverInv, HeardSince, [ReceiverNext]_receiverVars
  PROVE  HeardSince'
<1>1. /\ "listen" \in Tasks /\ "monitor" \in Tasks /\ at \in [Tasks -> ListenAt \cup MonitorAt]
      /\ fresh \in BOOLEAN /\ judged \in BOOLEAN /\ "connection" \in Errors /\ "login" \in Errors
  BY DEF Tasks, Errors, ReceiverInv, ClientOK, TasksOK, OwnersOK
<1>2. ASSUME at'["monitor"] = "beat" => at["monitor"] = "beat",
             run' = "started" => run = "started", UNCHANGED judged, fresh => fresh'
      PROVE  HeardSince'
  BY <1>2 DEF HeardSince
<1>3. ASSUME fresh' \/ run' # "started" \/ at'["monitor"] # "beat" \/ judged'
      PROVE  HeardSince'
  BY <1>3 DEF HeardSince
<1>4. ASSUME Listen PROVE HeardSince'
  <2>1. CASE Connects
    BY <1>1, <1>2, <1>3, <2>1 DEF Connects
  <2>2. CASE LogsIn
    <3>1. CASE at' = [at EXCEPT !["listen"] = "read"] /\ UNCHANGED run
      BY <1>1, <1>2, <2>2, <3>1 DEF LogsIn
    <3>2. CASE CountAndReset("listen", "login")
      BY <1>1, <1>2, <2>2, <3>2, CountIsHeard DEF LogsIn
    <3> QED BY <2>2, <3>1, <3>2 DEF LogsIn
  <2>3. CASE LoginAnswered \/ CloseArrives
    BY <1>3, <2>3 DEF LoginAnswered, CloseArrives
  <2>4. CASE ReadFails \/ OldReadFails
    BY <1>1, <1>2, <2>4, CountIsHeard DEF ReadFails, OldReadFails
  <2>5. CASE ListenEnds
    BY <1>1, <1>2, <2>5 DEF ListenEnds
  <2> QED BY <1>4, <2>1, <2>2, <2>3, <2>4, <2>5 DEF Listen
<1>5. CASE MessageArrives \/ CallbackFails
  BY <1>3, <1>5 DEF MessageArrives, CallbackFails
<1>6. CASE Heartbeat
  BY <1>3, <1>6 DEF Heartbeat
<1>7. CASE BeatOver
  BY <1>1, <1>3, <1>7 DEF BeatOver, Reset, Home
<1>8. ASSUME NEW t \in Tasks, Resetting(t) PROVE HeardSince'
  <2>1. CASE ResetCloses(t)
    BY <1>3, <2>1 DEF ResetCloses
  <2>2. CASE ResetConnects(t)
    BY <1>3, <2>2 DEF ResetConnects, Terminate
  <2>3. CASE ResetLogsIn(t)
    <3>1. CASE Terminate
      BY <1>3, <3>1 DEF Terminate
    <3>2. CASE at' = [at EXCEPT ![t] = Home(t)] /\ UNCHANGED run
      BY <1>1, <1>2, <2>3, <3>2 DEF ResetLogsIn, Home
    <3> QED BY <2>3, <3>1, <3>2 DEF ResetLogsIn
  <2> QED BY <1>8, <2>1, <2>2, <2>3 DEF Resetting
<1>9. CASE Quiet
  BY <1>3, <1>9 DEF Quiet
<1>10. CASE ConnectionBreaks \/ PeerGoesSilent \/ \E t \in Tasks : TaskDone(t)
  BY <1>2, <1>10 DEF ConnectionBreaks, PeerGoesSilent, TaskDone, client
<1>11. CASE Connect \/ UNCHANGED receiverVars
  BY <1>2, <1>3, <1>11 DEF Connect, StartTasks, receiverVars, client
<1>12. CASE Disconnect
  BY <1>1, <1>3, <1>12 DEF Disconnect, Cancelled
<1> QED BY <1>4, <1>5, <1>6, <1>7, <1>8, <1>9, <1>10, <1>11, <1>12 DEF ReceiverNext, Monitor

\* A monitor that waited for the ack of its heartbeat resets only the connection
\* that the heartbeat went out on: one that the listen task set up meanwhile was
\* heard from, or is not logged in yet.
THEOREM LateMonitorYields == ReceiverSpec => NewConnectionKept
<1> DEFINE Yields == lock # "monitor" /\ lock' = "monitor" => judged
<1>1. ReceiverInv /\ HeardSince /\ [ReceiverNext]_receiverVars => [Yields]_receiverVars
  <2> SUFFICES ASSUME ReceiverInv, HeardSince, ReceiverNext,
                      lock # "monitor", lock' = "monitor"
               PROVE  judged
    OBVIOUS
  <2>1. "monitor" \in Tasks /\ lock' # Free
    BY DEF Tasks, Free
  <2>2. ~Terminate /\ \A e \in Errors : ~CountAndReset("listen", e)
    BY <2>1, CountIsHeard DEF Terminate
  <2>3. ~Listen
    <3>1. "connection" \in Errors /\ "login" \in Errors
      BY DEF Errors
    <3>2. ~LogsIn /\ ~LoginAnswered /\ ~CloseArrives /\ ~ReadFails /\ ~OldReadFails
      BY <2>2, <3>1 DEF LogsIn, LoginAnswered, CloseArrives, ReadFails, OldReadFails
    <3>3. ~Connects /\ ~ListenEnds
      BY DEF Connects, ListenEnds
    <3> QED BY <3>2, <3>3 DEF Listen
  <2>4. ~MessageArrives /\ ~CallbackFails /\ ~Disconnect /\ ~Connect
    BY <2>1, <2>2 DEF MessageArrives, CallbackFails, Disconnect, Connect, StartTasks
  <2>5. \A t \in Tasks : ~Resetting(t)
    BY <2>1, <2>2 DEF Resetting, ResetCloses, ResetConnects, ResetLogsIn
  <2>6. ~ConnectionBreaks /\ ~PeerGoesSilent /\ ~Quiet /\ \A t \in Tasks : ~TaskDone(t)
    BY DEF ConnectionBreaks, PeerGoesSilent, Quiet, TaskDone, client
  <2>7. at["monitor"] = "beat" /\ StillDue
    <3>1. ~Heartbeat
      BY DEF Heartbeat
    <3>2. BeatOver
      BY <2>3, <2>4, <2>5, <2>6, <3>1 DEF ReceiverNext, Monitor
    <3> QED BY <3>2 DEF BeatOver
  <2> QED BY <2>7 DEF StillDue, HeardSince
<1>2. ReceiverInit => HeardSince
  BY DEF ReceiverInit, HeardSince, Tasks
<1>3. ReceiverSpec => []HeardSince
  BY <1>2, HeardSinceKept, ReceiverInductive, PTL DEF ReceiverSpec
<1> QED BY <1>1, <1>3, ReceiverInductive, PTL DEF ReceiverSpec, NewConnectionKept
=============================================================================
