------------------------------ MODULE MoneyProofs ------------------------------
(***************************************************************************)
(* What the flows of BananoConversion give follows what is paid, and the   *)
(* types of everything that money passes through (the pool, the raffle and *)
(* the withdrawals), for any number of accounts, flows and payments.       *)
(***************************************************************************)
EXTENDS MoneyMC, TransactionProofs, EnqueueTicketProofs

FlowStates == {"none", "starting", "select", "drain", "cleanup", "ended"}

\* The worker of the pool has yet to credit only what it has not seen.
PoolWorkerOK ==
  /\ todo \subseteq Receivers
  /\ worker = Looking(worker.at, worker.of, worker.read)
  /\ worker # Idle => worker.of \in Receivers
  /\ worker.at = "locked" => worker.read \cap seenPendings[worker.of] = {}

FlowTypes ==
  /\ seenPendings \in [Receivers -> SUBSET Payments]
  /\ atClose \in [Receivers -> SUBSET Payments]
  /\ DOMAIN receivable = Receivers
  /\ inbox \in [Receivers -> Seq({1})]
  /\ DOMAIN freeing = Receivers
  /\ flow \in [Receivers -> FlowStates]
  /\ points \in [Receivers -> Nat]
  /\ userFlow \in Receivers \cup {NoReceiver}

\* Nothing is reverted: what is receivable is all that was seen.
Unreverted(r) == receivable[r] = <<Cardinality(seenPendings[r])>>

\* A receiver is closed by its flow.
ClosedAtEnd(r) == Closed(r) <=> flow[r] \in {"cleanup", "ended"}

\* Before its worker starts a flow gives nothing, and a notification of what was
\* credited waits for it.
NothingBefore(r) ==
  flow[r] \in {"none", "starting"} =>
    points[r] = 0 /\ (inbox[r] = <<>> => seenPendings[r] = {})

FollowsPayments(r) ==
  /\ points[r] <= Points(Cardinality(CreditedOpen(r)))
  /\ Settled(r) => points[r] = Points(Cardinality(CreditedOpen(r)))

FlowInv(r) == Unreverted(r) /\ ClosedAtEnd(r) /\ NothingBefore(r) /\ FollowsPayments(r)

FlowIInv == PoolWorkerOK /\ FlowTypes /\ \A r \in Receivers : FlowInv(r)

-----------------------------------------------------------------------------
(* What payments are worth                                                 *)

\* A number of payments is worth a number of points, and none is worth none.
LEMMA PointsType == \A n \in Nat : Points(n) \in Nat /\ Points(0) = 0
  BY DEF Points

\* More payments are worth as much or more.
LEMMA PointsMonotone == ASSUME NEW m \in Nat, NEW n \in Nat, m <= n
                        PROVE  Points(m) <= Points(n)
  BY DEF Points

\* Whatever was seen, or was seen when the receiver was closed, can be counted.
LEMMA SeenIsCounted ==
  ASSUME FlowIInv, NEW r \in Receivers
  PROVE  /\ IsFiniteSet(seenPendings[r]) /\ Cardinality(seenPendings[r]) \in Nat
         /\ IsFiniteSet(CreditedOpen(r)) /\ Cardinality(CreditedOpen(r)) \in Nat
  <1>1. seenPendings[r] \subseteq Payments /\ CreditedOpen(r) \subseteq Payments
    BY DEF FlowIInv, FlowTypes, CreditedOpen
  <1>2. IsFiniteSet(Payments)
    BY PoolAssumption
  <1> QED BY <1>1, <1>2, FS_Subset, FS_CardinalityType

-----------------------------------------------------------------------------
(* Steps that do not disturb the flows                                     *)

\* A step that only moves on what the invariant does not look at.
LEMMA Undisturbed ==
  ASSUME FlowIInv, PoolWorkerOK',
         UNCHANGED <<seenPendings, atClose, receivable, inbox, flow, points, owed>>,
         DOMAIN freeing' = Receivers, \A r \in Receivers : Closed(r)' <=> Closed(r),
         userFlow' \in Receivers \cup {NoReceiver}
  PROVE  FlowIInv'
  BY DEF FlowIInv, FlowTypes, FlowInv, Unreverted, ClosedAtEnd, NothingBefore, FollowsPayments,
         Settled, CreditedOpen

\* The steps of the pool, but for a credit, and of the user.
LEMMA PoolStep ==
  ASSUME FlowIInv,
         \/ OfPool(CopyMonitored) \/ OfPool(ReadFails) \/ OfPool(LockReceiver) \/ OfPool(UnlockReceiver)
         \/ \E a \in Accounts : OfPool(DropAccount(a)) \/ \E p \in Payments : OfPool(Pay(a, p))
         \/ Recover \/ RequestFlow
         \/ \E r \in Receivers : \/ OfPool(ReadPendings(r)) \/ OfPool(FreeReceive(r)) \/ OfPool(FreeSend(r))
                                  \/ OfPool(FreeSendErrs(r)) \/ OfPool(ReturnAccount(r))
                                  \/ OfPool(FreeFails(r)) \/ OfPool(FreeDone(r))
                                  \/ FlowTimePasses(r) \/ FlowExpires(r)
  PROVE  FlowIInv'
  <1> USE DEF OfPool, flowVars, timeVars, poolVars, chain, accounts, receiver, group, processing, outcome
  <1>1. UNCHANGED <<seenPendings, atClose, receivable, inbox, flow, points, owed>>
    BY DEF CopyMonitored, ReadFails, LockReceiver, UnlockReceiver, DropAccount, Pay, Recover, RequestFlow,
           RequestAccount, ReadPendings, FreeReceive, FreeSend, FreeSendErrs, ReturnAccount, FreeFails, FreeDone,
           Collect, FlowTimePasses, FlowExpires
  <1>2. DOMAIN freeing' = Receivers /\ \A r \in Receivers : Closed(r)' <=> Closed(r)
    <2>1. \/ UNCHANGED freeing
          \/ \E q \in Receivers : \/ FreeReceive(q) \/ FreeSend(q) \/ FreeSendErrs(q) \/ ReturnAccount(q)
                                  \/ FreeFails(q) \/ FreeDone(q)
      BY DEF CopyMonitored, ReadFails, LockReceiver, UnlockReceiver, DropAccount, Pay, Recover, RequestFlow,
             RequestAccount, ReadPendings, FlowTimePasses, FlowExpires
    <2>2. ASSUME NEW q \in Receivers,
                 \/ FreeReceive(q) \/ FreeSend(q) \/ FreeSendErrs(q) \/ ReturnAccount(q) \/ FreeFails(q)
                 \/ FreeDone(q)
          PROVE  \E s : s # "no" /\ freeing[q] # "no" /\ freeing' = [freeing EXCEPT ![q] = s]
      BY <2>2 DEF FreeReceive, FreeSend, FreeSendErrs, ReturnAccount, FreeFails, FreeDone
    <2>3. DOMAIN freeing = Receivers
      BY DEF FlowIInv, FlowTypes
    <2> QED BY <2>1, <2>2, <2>3 DEF Closed
  <1>3. userFlow' \in Receivers \cup {NoReceiver}
    BY DEF FlowIInv, FlowTypes, CopyMonitored, ReadFails, LockReceiver, UnlockReceiver, DropAccount, Pay, Recover,
           RequestFlow, RequestAccount, ReadPendings, FreeReceive, FreeSend, FreeSendErrs, ReturnAccount,
           FreeFails, FreeDone, Collect, FlowTimePasses, FlowExpires
  <1>4. PoolWorkerOK'
    <2> USE DEF FlowIInv, PoolWorkerOK, Looking, Idle
    <2>1. CASE OfPool(CopyMonitored)
      BY <2>1 DEF CopyMonitored
    <2>2. CASE OfPool(ReadFails)
      BY <2>2 DEF ReadFails
    <2>3. CASE OfPool(LockReceiver)
      BY <2>3 DEF LockReceiver
    <2>4. CASE OfPool(UnlockReceiver)
      BY <2>4 DEF UnlockReceiver
    <2>5. CASE \E r \in Receivers : OfPool(ReadPendings(r))
      BY <2>5 DEF ReadPendings
    <2>6. CASE UNCHANGED <<worker, todo>>
      BY <2>6, <1>1
    <2> QED BY <2>1, <2>2, <2>3, <2>4, <2>5, <2>6
            DEF DropAccount, Pay, Recover, RequestFlow, RequestAccount, FreeReceive, FreeSend, FreeSendErrs,
                ReturnAccount, FreeFails, FreeDone, FlowTimePasses, FlowExpires
  <1> QED BY <1>1, <1>2, <1>3, <1>4, Undisturbed

-----------------------------------------------------------------------------
(* Steps that change what one flow has                                     *)

\* What the invariant says of a flow stays true when nothing of it changes.
LEMMA OtherFlows ==
  ASSUME FlowIInv, NEW r \in Receivers, PoolWorkerOK', FlowTypes', FlowInv(r)',
         \A q \in Receivers \ {r} :
           /\ seenPendings'[q] = seenPendings[q] /\ atClose'[q] = atClose[q]
           /\ receivable'[q] = receivable[q] /\ inbox'[q] = inbox[q]
           /\ flow'[q] = flow[q] /\ points'[q] = points[q] /\ freeing'[q] = freeing[q]
           /\ q \in owed' <=> q \in owed
  PROVE  FlowIInv'
  <1>1. ASSUME NEW q \in Receivers \ {r} PROVE FlowInv(q)'
    BY DEF FlowIInv, FlowInv, Unreverted, ClosedAtEnd, NothingBefore, FollowsPayments, Settled, CreditedOpen, Closed
  <1> QED BY <1>1 DEF FlowIInv

\* The worker of the pool credits a payment.
LEMMA CreditStep == ASSUME FlowIInv, NEW p \in Payments, OfPool(ProcessPayment(p))
                    PROVE  FlowIInv'
  <1>1. PICK r \in Receivers :
          r = worker.of /\ p \notin seenPendings[r] /\ Unreverted(r) /\ Len(receivable[r]) = 1
    <2>1. worker.at = "locked" /\ p \in worker.read
      BY DEF OfPool, ProcessPayment
    <2>2. worker.of \in Receivers /\ p \notin seenPendings[worker.of]
      BY <2>1 DEF FlowIInv, PoolWorkerOK, Idle, Looking
    <2>3. Unreverted(worker.of)
      BY <2>2 DEF FlowIInv, FlowInv
    <2>4. Len(receivable[worker.of]) = 1
      BY <2>3 DEF Unreverted
    <2> QED BY <2>2, <2>3, <2>4
  <1>2. seenPendings' = [seenPendings EXCEPT ![r] = @ \cup {p}]
    BY <1>1 DEF OfPool, ProcessPayment
  <1>3. receivable' = [receivable EXCEPT ![r][1] = @ + 1]
    BY <1>1 DEF OfPool, ProcessPayment
  <1>4. inbox' = IF Closed(r) THEN inbox ELSE [inbox EXCEPT ![r] = Append(@, 1)]
    BY <1>1 DEF OfPool, ProcessPayment
  <1>5. UNCHANGED <<todo, freeing, atClose, flow, points, owed, userFlow>>
    BY DEF OfPool, ProcessPayment, flowVars, outcome
  <1>6. PoolWorkerOK'
    BY <1>1, <1>2, <1>5 DEF FlowIInv, PoolWorkerOK, FlowTypes, Idle, Looking, OfPool, ProcessPayment
  <1>7. FlowTypes'
    BY <1>1, <1>2, <1>3, <1>4, <1>5 DEF FlowIInv, FlowTypes
  <1>8. Cardinality(seenPendings'[r]) = Cardinality(seenPendings[r]) + 1
    BY <1>1, <1>2, SeenIsCounted, FS_AddElement DEF FlowIInv, FlowTypes
  <1>9. FlowInv(r)'
    <2>1. Unreverted(r)'
      BY <1>1, <1>3, <1>8, SeenIsCounted DEF Unreverted, FlowIInv, FlowTypes
    <2>2. ClosedAtEnd(r)'
      BY <1>1, <1>5 DEF ClosedAtEnd, Closed, FlowIInv, FlowInv
    <2>3. CASE Closed(r)
      <3>1. inbox' = inbox /\ CreditedOpen(r)' = CreditedOpen(r)
        BY <2>3, <1>4, <1>5 DEF CreditedOpen, Closed
      <3>2. flow[r] \notin {"none", "starting"}
        BY <1>1, <2>3 DEF FlowIInv, FlowInv, ClosedAtEnd
      <3> QED BY <1>1, <1>5, <2>1, <2>2, <3>1, <3>2
              DEF FlowIInv, FlowInv, NothingBefore, FollowsPayments, Settled
    <2>4. CASE ~Closed(r)
      <3>1. inbox'[r] # <<>>
        <4>1. inbox[r] \in Seq({1})
          BY DEF FlowIInv, FlowTypes
        <4>2. inbox'[r] = Append(inbox[r], 1)
          BY <1>4, <2>4, <4>1 DEF FlowIInv, FlowTypes
        <4>3. Append(inbox[r], 1) # <<>>
          BY <4>1
        <4> QED BY <4>2, <4>3
      <3>2. CreditedOpen(r) = seenPendings[r] /\ CreditedOpen(r)' = seenPendings'[r]
        BY <1>5, <2>4 DEF CreditedOpen, Closed
      <3>3. Points(Cardinality(seenPendings[r])) <= Points(Cardinality(seenPendings'[r]))
        BY <1>1, <1>8, SeenIsCounted, PointsMonotone
      <3>4. points'[r] <= Points(Cardinality(CreditedOpen(r)'))
        <4>1. points'[r] = points[r] /\ points[r] \in Nat
          BY <1>5 DEF FlowIInv, FlowTypes
        <4>2. points[r] <= Points(Cardinality(seenPendings[r]))
          BY <3>2 DEF FlowIInv, FlowInv, FollowsPayments
        <4>3. /\ Points(Cardinality(seenPendings[r])) \in Nat
              /\ Points(Cardinality(seenPendings'[r])) \in Nat
          BY <1>8, SeenIsCounted, PointsType
        <4> QED BY <4>1, <4>2, <4>3, <3>2, <3>3
      <3> QED BY <1>1, <1>5, <2>1, <2>2, <3>1, <3>4
              DEF FlowIInv, FlowInv, NothingBefore, FollowsPayments, Settled
    <2> QED BY <2>3, <2>4
  <1>10. \A q \in Receivers \ {r} :
           /\ seenPendings'[q] = seenPendings[q] /\ receivable'[q] = receivable[q] /\ inbox'[q] = inbox[q]
    BY <1>2, <1>3, <1>4 DEF FlowIInv, FlowTypes
  <1> QED BY <1>1, <1>5, <1>6, <1>7, <1>9, <1>10, OtherFlows

\* A step of a flow that leaves its credits and its points alone.
LEMMA FlowMoves ==
  ASSUME FlowIInv, NEW r \in Receivers, NEW state \in FlowStates,
         flow' = [flow EXCEPT ![r] = state],
         UNCHANGED <<worker, todo, seenPendings, receivable, points, freeing, atClose>>,
         inbox' \in [Receivers -> Seq({1})],
         \A q \in Receivers \ {r} : inbox'[q] = inbox[q] /\ (q \in owed' <=> q \in owed),
         userFlow' \in Receivers \cup {NoReceiver},
         ClosedAtEnd(r)', NothingBefore(r)',
         Settled(r)' => Settled(r) \/ (seenPendings[r] = {} /\ points[r] = 0 /\ ~Closed(r))
  PROVE  FlowIInv'
  <1>1. PoolWorkerOK' /\ FlowTypes'
    BY DEF FlowIInv, PoolWorkerOK, FlowTypes, Looking, Idle
  <1>2. CreditedOpen(r)' = CreditedOpen(r)
    BY DEF CreditedOpen, Closed
  <1>3. FollowsPayments(r)'
    <2>1. points'[r] = points[r] /\ points[r] <= Points(Cardinality(CreditedOpen(r)))
      BY DEF FlowIInv, FlowInv, FollowsPayments
    <2>2. Settled(r)' => points[r] = Points(Cardinality(CreditedOpen(r)))
      <3>1. CASE Settled(r)
        BY <3>1 DEF FlowIInv, FlowInv, FollowsPayments
      <3>2. CASE seenPendings[r] = {} /\ points[r] = 0 /\ ~Closed(r)
        <4>1. CreditedOpen(r) = {}
          BY <3>2 DEF CreditedOpen
        <4> QED BY <3>2, <4>1, FS_EmptySet DEF Points
      <3> QED BY <3>1, <3>2
    <2> QED BY <1>2, <2>1, <2>2 DEF FollowsPayments
  <1>4. FlowInv(r)'
    BY <1>3 DEF FlowIInv, FlowInv, Unreverted
  <1> QED BY <1>1, <1>4, OtherFlows DEF FlowIInv, FlowTypes

\* A new flow has no points, and its worker has not started.
LEMMA CreateStep == ASSUME FlowIInv, NEW r \in Receivers, CreateFlow(r)
                    PROVE  FlowIInv'
  <1>1. /\ flow' = [flow EXCEPT ![r] = "starting"] /\ flow[r] = "none"
        /\ UNCHANGED <<worker, todo, seenPendings, receivable, inbox, points, freeing, atClose, owed>>
        /\ userFlow' = r
    BY DEF CreateFlow, Creating, ReceivePayment, processing, outcome
  <1>2. ClosedAtEnd(r)' /\ NothingBefore(r)'
    BY <1>1 DEF FlowIInv, FlowTypes, FlowInv, ClosedAtEnd, NothingBefore, Closed
  <1>3. Settled(r)' => seenPendings[r] = {} /\ points[r] = 0 /\ ~Closed(r)
    BY <1>1 DEF Settled, FlowIInv, FlowInv, NothingBefore, ClosedAtEnd
  <1> QED BY <1>1, <1>2, <1>3, FlowMoves DEF FlowIInv, FlowTypes, FlowStates

\* What was credited before the worker starts is in its channel.
LEMMA StartStep == ASSUME FlowIInv, NEW r \in Receivers, Start(r)
                   PROVE  FlowIInv'
  <1>1. /\ flow' = [flow EXCEPT ![r] = "select"] /\ flow[r] = "starting"
        /\ UNCHANGED <<worker, todo, seenPendings, receivable, inbox, points, freeing, atClose, owed, userFlow>>
    BY DEF Start, poolVars, receiver, processing, outcome
  <1>2. ClosedAtEnd(r)' /\ NothingBefore(r)'
    BY <1>1 DEF FlowIInv, FlowTypes, FlowInv, ClosedAtEnd, NothingBefore, Closed
  <1>3. Settled(r)' => Settled(r)
    BY <1>1 DEF Settled
  <1>4. inbox' \in [Receivers -> Seq({1})]
    BY <1>1 DEF FlowIInv, FlowTypes
  <1> QED BY <1>1, <1>2, <1>3, <1>4, FlowMoves DEF FlowIInv, FlowTypes, FlowStates

\* A reconnection changes the timers, or blocks the worker.
LEMMA ReconnectStep == ASSUME FlowIInv, NEW r \in Receivers, Reconnect(r)
                       PROVE  FlowIInv'
  <1>1. PICK state \in {"select", "drain"} : flow' = [flow EXCEPT ![r] = state] /\ flow[r] = "select"
    BY DEF Reconnect
  <1>2. UNCHANGED <<worker, todo, seenPendings, receivable, inbox, points, freeing, atClose, owed, userFlow>>
    BY DEF Reconnect, poolVars, receiver, processing, outcome
  <1>3. ClosedAtEnd(r)' /\ NothingBefore(r)'
    BY <1>1, <1>2 DEF FlowIInv, FlowTypes, FlowInv, ClosedAtEnd, NothingBefore, Closed
  <1>4. Settled(r)' => Settled(r) \/ (seenPendings[r] = {} /\ points[r] = 0 /\ ~Closed(r))
    <2>1. Settled(r)' => Settled(r)
      BY <1>1, <1>2 DEF Settled, FlowIInv, FlowTypes
    <2> QED BY <2>1
  <1>5. inbox' \in [Receivers -> Seq({1})] /\ userFlow' \in Receivers \cup {NoReceiver}
    BY <1>2 DEF FlowIInv, FlowTypes
  <1>6. state \in FlowStates
    BY DEF FlowStates
  <1> QED BY <1>1, <1>2, <1>3, <1>4, <1>5, <1>6, FlowMoves

\* The entry of the user goes away, the receiver is closed already.
LEMMA CleanupStep == ASSUME FlowIInv, NEW r \in Receivers, Cleanup(r)
                     PROVE  FlowIInv'
  <1>1. /\ flow' = [flow EXCEPT ![r] = "ended"] /\ flow[r] = "cleanup"
        /\ UNCHANGED <<worker, todo, seenPendings, receivable, inbox, points, freeing, atClose, owed>>
        /\ userFlow' = NoReceiver
    BY DEF Cleanup, poolVars, receiver, processing, outcome
  <1>2. ClosedAtEnd(r)' /\ NothingBefore(r)'
    BY <1>1 DEF FlowIInv, FlowTypes, FlowInv, ClosedAtEnd, NothingBefore, Closed
  <1>3. Settled(r)' => Settled(r) \/ (seenPendings[r] = {} /\ points[r] = 0 /\ ~Closed(r))
    <2>1. Settled(r)' => Settled(r)
      BY <1>1 DEF Settled, FlowIInv, FlowTypes
    <2> QED BY <2>1
  <1>4. inbox' \in [Receivers -> Seq({1})] /\ userFlow' \in Receivers \cup {NoReceiver}
    BY <1>1 DEF FlowIInv, FlowTypes
  <1>5. "ended" \in FlowStates
    BY DEF FlowStates
  <1> QED BY <1>1, <1>2, <1>3, <1>4, <1>5, FlowMoves

\* What is seen when a receiver is closed is what was credited to it until then.
LEMMA FlowEndStep == ASSUME FlowIInv, NEW r \in Receivers, End(r)
                 PROVE  FlowIInv'
  <1>1. /\ flow' = [flow EXCEPT ![r] = "cleanup"] /\ flow[r] = "select"
        /\ freeing' = [freeing EXCEPT ![r] = "receive"]
        /\ atClose' = [atClose EXCEPT ![r] = seenPendings[r]]
        /\ UNCHANGED <<worker, todo, seenPendings, receivable, inbox, points, owed, userFlow>>
    BY DEF End, Close, processing
  <1>2. PoolWorkerOK' /\ FlowTypes'
    BY <1>1 DEF FlowIInv, PoolWorkerOK, FlowTypes, FlowStates, Looking, Idle
  <1>3. ~Closed(r) /\ Closed(r)'
    BY <1>1 DEF FlowIInv, FlowTypes, FlowInv, ClosedAtEnd, Closed
  <1>4. CreditedOpen(r)' = CreditedOpen(r)
    BY <1>1, <1>3 DEF CreditedOpen, FlowIInv, FlowTypes
  <1>5. Settled(r)' => Settled(r)
    BY <1>1 DEF Settled
  <1>6. FlowInv(r)'
    BY <1>1, <1>3, <1>4, <1>5
       DEF FlowIInv, FlowTypes, FlowInv, Unreverted, ClosedAtEnd, NothingBefore, FollowsPayments
  <1> QED BY <1>1, <1>2, <1>6, OtherFlows DEF FlowIInv, FlowTypes

\* The first notification makes up for all that was seen.
LEMMA ConvertStep == ASSUME FlowIInv, NEW r \in Receivers, Convert(r) \/ ConvertFails(r)
                     PROVE  FlowIInv'
  <1> DEFINE seenNow == Cardinality(seenPendings[r])
  <1>1. /\ flow[r] = "select" /\ inbox[r] # <<>>
        /\ inbox' = [inbox EXCEPT ![r] = Tail(@)]
        /\ UNCHANGED <<worker, todo, seenPendings, receivable, freeing, atClose, flow, userFlow>>
    BY DEF Convert, ConvertFails, TakePayment, processing, outcome
  <1>2. Head(inbox[r]) = 1
    BY <1>1 DEF FlowIInv, FlowTypes
  <1>3. Expected(r) = Points(seenNow)
    BY <1>2 DEF Expected, FlowIInv, FlowInv, Unreverted
  <1>4. ~Closed(r) /\ CreditedOpen(r) = seenPendings[r] /\ CreditedOpen(r)' = seenPendings[r]
    BY <1>1 DEF FlowIInv, FlowInv, ClosedAtEnd, Closed, CreditedOpen
  <1>5. points[r] \in Nat /\ Points(seenNow) \in Nat /\ points[r] <= Points(seenNow)
    BY <1>4, SeenIsCounted, PointsType DEF FlowIInv, FlowTypes, FlowInv, FollowsPayments
  <1>6. \/ points' = [points EXCEPT ![r] = Points(seenNow)] /\ owed' = owed \ {r}
        \/ points' = points /\ owed' = owed \cup {r}
    <2>1. CASE Convert(r)
      <3>1. points' = [points EXCEPT ![r] = IF Points(seenNow) > points[r] THEN Points(seenNow) ELSE points[r]]
        BY <1>3, <2>1 DEF Convert
      <3>2. (IF Points(seenNow) > points[r] THEN Points(seenNow) ELSE points[r]) = Points(seenNow)
        BY <1>5
      <3> QED BY <2>1, <3>1, <3>2 DEF Convert
    <2>2. CASE ConvertFails(r)
      BY <2>2 DEF ConvertFails
    <2> QED BY <2>1, <2>2
  <1>7. inbox' \in [Receivers -> Seq({1})]
    BY <1>1 DEF FlowIInv, FlowTypes
  <1>8. PoolWorkerOK' /\ FlowTypes'
    BY <1>1, <1>5, <1>6, <1>7 DEF FlowIInv, PoolWorkerOK, FlowTypes, Looking, Idle
  <1>9. FollowsPayments(r)'
    <2>1. points'[r] <= Points(seenNow)
      BY <1>5, <1>6 DEF FlowIInv, FlowTypes
    <2>2. Settled(r)' => points'[r] = Points(seenNow)
      BY <1>6 DEF Settled, FlowIInv, FlowTypes
    <2> QED BY <1>1, <1>4, <2>1, <2>2 DEF FollowsPayments
  <1>10. Unreverted(r)' /\ ClosedAtEnd(r)' /\ NothingBefore(r)'
    BY <1>1 DEF FlowIInv, FlowInv, Unreverted, ClosedAtEnd, NothingBefore, Closed
  <1>11. FlowInv(r)'
    BY <1>9, <1>10 DEF FlowInv
  <1>12. \A q \in Receivers \ {r} :
           inbox'[q] = inbox[q] /\ points'[q] = points[q] /\ (q \in owed' <=> q \in owed)
    BY <1>1, <1>6 DEF FlowIInv, FlowTypes
  <1> QED BY <1>1, <1>8, <1>11, <1>12, OtherFlows

-----------------------------------------------------------------------------
(* The specification                                                       *)

\* Nothing is credited or given at the start.
LEMMA FlowInitInv == ConversionInit => FlowIInv
  <1> SUFFICES ASSUME ConversionInit PROVE FlowIInv
    OBVIOUS
  <1> USE DEF ConversionInit, PoolInit, FlowInit
  <1>1. PoolWorkerOK
    BY DEF PoolWorkerOK, Looking, Idle
  <1>2. FlowTypes
    BY DEF FlowTypes, FlowStates
  <1>3. ASSUME NEW r \in Receivers PROVE FlowInv(r)
    BY FS_EmptySet, PointsType
       DEF FlowInv, Unreverted, ClosedAtEnd, NothingBefore, FollowsPayments, Settled, CreditedOpen, Closed
  <1> QED BY <1>1, <1>2, <1>3 DEF FlowIInv

\* A step of others.
LEMMA FlowStutterStep == ASSUME FlowIInv, UNCHANGED conversionVars
                     PROVE  FlowIInv'
  <1>1. UNCHANGED <<worker, todo, seenPendings, atClose, receivable, inbox, flow, points, owed, freeing, userFlow>>
    BY DEF conversionVars, poolVars, flowVars, receiver, processing, outcome
  <1>2. PoolWorkerOK'
    BY <1>1 DEF FlowIInv, PoolWorkerOK, Looking, Idle
  <1> QED BY <1>1, <1>2, Undisturbed DEF FlowIInv, FlowTypes, Closed

\* FlowIInv holds in every state: the worker of the pool credits what it has not seen,
\* what is receivable is what was seen, and the points of a flow follow it
\* (banano_conversion.go:154-216, monitored_account.go:125-187).
THEOREM FlowsInductive == ConversionSpec => []FlowIInv
  <1>1. ASSUME FlowIInv, ConversionNext PROVE FlowIInv'
    BY <1>1, PoolStep, CreditStep, CreateStep, StartStep, ReconnectStep, ConvertStep, FlowEndStep, CleanupStep
       DEF ConversionNext
  <1>2. ASSUME FlowIInv, UNCHANGED conversionVars PROVE FlowIInv'
    BY <1>2, FlowStutterStep
  <1> QED BY <1>1, <1>2, FlowInitInv, PTL DEF ConversionSpec

\* A flow gives the points that the payments credited to it are worth, never more
\* and in the end no less, for any number of accounts, flows and payments
\* (banano_conversion.go:77-91, 194-205).
THEOREM PointsFollow == ConversionSpec => []PointsFollowPayments
  <1>1. FlowIInv => PointsFollowPayments
    BY DEF FlowIInv, FlowInv, FollowsPayments, PointsFollowPayments
  <1> QED BY <1>1, FlowsInductive, PTL

-----------------------------------------------------------------------------
(* The pool under the flows                                                *)

\* The worker of a flow takes a notification.
LEMMA ReadsInbox ==
  ASSUME PoolInv, CreditedToOneReceiver, NEW r \in Receivers, Convert(r) \/ ConvertFails(r)
  PROVE  PoolInv' /\ CreditedToOneReceiver'
  <1>1. inbox[r] \in Seq(Nat) /\ \A i \in 1 .. Len(inbox[r]) : inbox[r][i] <= Len(receivable[r])
    BY DEF PoolInv, PoolTypes, Amounts
  <1>2. TakePayment(r)
    BY DEF Convert, ConvertFails
  <1>3. inbox[r] # <<>>
    BY <1>2 DEF TakePayment
  <1>4. Tail(inbox[r]) \in Seq(Nat) /\ Len(Tail(inbox[r])) = Len(inbox[r]) - 1
    BY <1>1, <1>3
  <1>5. ASSUME NEW i \in 1 .. Len(Tail(inbox[r])) PROVE Tail(inbox[r])[i] <= Len(receivable[r])
    <2>1. i + 1 \in 1 .. Len(inbox[r]) /\ Tail(inbox[r])[i] = inbox[r][i + 1]
      BY <1>1, <1>3, <1>4
    <2> QED BY <1>1, <2>1
  <1> QED BY <1>2, <1>4, <1>5, NotificationTaken DEF TakePayment

\* The pool does not mind what the flows do with its receivers.
LEMMA PoolUnderFlows ==
  ASSUME PoolInv, CreditedToOneReceiver, [ConversionNext]_conversionVars
  PROVE  PoolInv' /\ CreditedToOneReceiver'
  <1>2. ASSUME ConversionNext
        PROVE  PoolInv' /\ CreditedToOneReceiver'
    <2>1. CASE RequestFlow
      <3>1. PICK a \in Accounts : RequestAccount(CHOOSE r \in Unused : TRUE, a)
        BY <2>1 DEF RequestFlow
      <3>2. (CHOOSE r \in Unused : TRUE) \in Receivers
        BY <2>1 DEF RequestFlow, Unused
      <3> QED BY <1>2, <3>1, <3>2, PoolPreserved DEF PoolAction
    <2>2. ASSUME NEW r \in Receivers, CreateFlow(r) \/ End(r) PROVE PoolInv' /\ CreditedToOneReceiver'
      BY <1>2, <2>2, PoolPreserved DEF PoolAction, CreateFlow, End
    <2>3. CASE Recover \/ \E r \in Receivers : \/ Start(r) \/ FlowTimePasses(r) \/ Reconnect(r)
                                               \/ FlowExpires(r) \/ Cleanup(r)
      BY <1>2, <2>3, PoolUnchanged DEF Recover, Start, FlowTimePasses, Reconnect, FlowExpires, Cleanup
    <2>4. CASE \E r \in Receivers : Convert(r) \/ ConvertFails(r)
      BY <1>2, <2>4, ReadsInbox
    <2>5. CASE PoolAction
      BY <1>2, <2>5, PoolPreserved
    <2> QED BY <1>2, <2>1, <2>2, <2>3, <2>4, <2>5 DEF ConversionNext, OfPool, PoolAction
  <1>3. ASSUME UNCHANGED conversionVars
        PROVE  PoolInv' /\ CreditedToOneReceiver'
    BY <1>3, PoolUnchanged DEF conversionVars
  <1> QED BY <1>2, <1>3

LEMMA PoolOfFlows == ConversionSpec => [](PoolInv /\ CreditedToOneReceiver)
  <1>1. ConversionInit => PoolInv /\ CreditedToOneReceiver
    BY PoolStarts DEF ConversionInit
  <1> QED BY <1>1, PoolUnderFlows, PTL DEF ConversionSpec

\* No payment counts for two flows, though a user has several and addresses are used
\* again (payment_account_pool.go:72-90, 188, banano_conversion.go:77-91).
THEOREM OneFlow == ConversionSpec => []CreditedToOneReceiver
  BY PoolOfFlows, PTL

\* The account of a flow goes back when all that was credited to it was passed on
\* (payment_account_pool.go:269-305).
THEOREM FlowsSettled == ConversionSpec => []ReturnedIsSettled
  BY PoolOfFlows, SettledWhenReturned, PTL

-----------------------------------------------------------------------------
(***************************************************************************)
(* The types of what changes hands.  A drawing has no more numbers than    *)
(* the bound because a redraw only begins with fewer (TxTyped), and its    *)
(* winner is a number because the hash of every document is.               *)
(***************************************************************************)

\* The VRF proves a number for every document.
HashIsNumber == \A doc \in Documents : Hash(doc) \in Nat

\* The transaction of a call has its type.
TxTyped(t) ==
  /\ t.op \in {"none", "process", "confirm", "complete", "redraw"}
  /\ t.at \in Stages
  /\ t.view \in Seq(Rows) /\ Len(t.view) <= MaxDrawings
  /\ t.op = "redraw" => Len(t.view) < MaxDrawings
  /\ t.row \in Rows
  /\ \A n \in DOMAIN t.writes : t.writes[n] \in Rows

RaffleTyped ==
  /\ drawings \in Seq(Rows) /\ Len(drawings) <= MaxDrawings
  /\ over \in BOOLEAN /\ late \in BOOLEAN
  /\ \A p \in Requests : TxTyped(tx[p])

LEMMA NewDrawingTyped == ASSUME NEW reason \in Reasons \cup {Initial} PROVE NewDrawing(reason) \in Rows
  BY DEF NewDrawing, Rows, Statuses

LEMMA IdleTyped == TxTyped(NoTransaction)
  <1>1. NewDrawing(Initial) \in Rows
    BY NewDrawingTyped
  <1>2. <<>> \in Seq(Rows) /\ Len(<<>>) = 0 /\ DOMAIN <<>> = {}
    OBVIOUS
  <1> QED BY <1>1, <1>2, RaffleAssumption DEF NoTransaction, TxTyped, Stages

\* A call that goes on without committing.
LEMMA TypedGoes ==
  ASSUME RaffleIInv, RaffleTyped, NEW p \in Requests, NEW t, TxTyped(t),
         UNCHANGED <<drawings, over, late>>, tx' = [tx EXCEPT ![p] = t]
  PROVE  RaffleTyped'
  <1>1. tx = [q \in Requests |-> tx[q]]
    BY DEF RaffleIInv
  <1>2. \A q \in Requests : tx'[q] = IF q = p THEN t ELSE tx[q]
    BY <1>1
  <1> QED BY <1>2 DEF RaffleTyped

LEMMA BeginTyped ==
  ASSUME RaffleIInv, RaffleTyped, NEW p \in Requests, NEW next \in Stages, NEW row \in Rows,
         NEW op \in {"process", "confirm", "complete", "redraw"},
         op = "redraw" => Len(drawings) < MaxDrawings, Begin(p, op, next, row)
  PROVE  RaffleTyped'
  <1> DEFINE t == [NoTransaction EXCEPT !.op = op, !.at = next, !.view = drawings, !.row = row]
  <1>1. tx[p] = NoTransaction /\ UNCHANGED <<drawings, over, late>>
    BY DEF Begin
  <1>2. tx' = [tx EXCEPT ![p] = t]
    BY <1>1 DEF Begin
  <1>3. t.op = op /\ t.at = next /\ t.view = drawings /\ t.row = row /\ t.writes = <<>>
    BY DEF NoTransaction
  <1> HIDE DEF t
  <1>4. TxTyped(t)
    BY <1>3 DEF TxTyped, RaffleTyped
  <1> QED BY <1>1, <1>2, <1>4, TypedGoes

\* The first statements.
LEMMA OperationsTyped ==
  ASSUME RaffleIInv, RaffleTyped, NEW p \in Requests,
         \/ ProcessRaffle(p) \/ ConfirmRaffleWinner(p) \/ CompleteRaffle(p)
         \/ \E reason \in Reasons : RedrawRaffle(p, reason)
  PROVE  RaffleTyped'
  <1>1. ASSUME drawings # <<>> PROVE Last(drawings) \in Rows
    BY <1>1 DEF RaffleTyped, Last
  <1>2. {"insert", "entries", "write", "void"} \subseteq Stages
    BY DEF Stages
  <1>3. CASE ProcessRaffle(p)
    <2>1. CASE drawings = <<>>
      BY <1>2, <1>3, <2>1, BeginTyped, NewDrawingTyped DEF ProcessRaffle
    <2>2. CASE drawings # <<>>
      BY <1>1, <1>2, <1>3, <2>2, BeginTyped DEF ProcessRaffle
    <2> QED BY <2>1, <2>2
  <1>4. CASE ConfirmRaffleWinner(p)
    <2>1. [Last(drawings) EXCEPT !.status = "confirmed"] \in Rows
      BY <1>1, <1>4 DEF ConfirmRaffleWinner, Rows, Statuses
    <2> QED BY <1>2, <1>4, <2>1, BeginTyped DEF ConfirmRaffleWinner
  <1>5. CASE CompleteRaffle(p)
    <2>1. [Last(drawings) EXCEPT !.status = "complete", !.prize = TRUE] \in Rows
      BY <1>1, <1>5 DEF CompleteRaffle, Rows, Statuses
    <2> QED BY <1>2, <1>5, <2>1, BeginTyped DEF CompleteRaffle
  <1>6. ASSUME NEW reason \in Reasons, RedrawRaffle(p, reason) PROVE RaffleTyped'
    <2>1. NewDrawing(reason) \in Rows
      BY NewDrawingTyped
    <2> QED BY <1>2, <1>6, <2>1, BeginTyped DEF RedrawRaffle
  <1> QED BY <1>3, <1>4, <1>5, <1>6

\* What a call sees has the type of the table.
LEMMA VisibleTyped ==
  ASSUME RaffleIInv, RaffleTyped, NEW p \in Requests, tx[p].at \notin {"idle", "insert", "void"}
  PROVE  Visible(p) \in Seq(Rows) /\ Len(Visible(p)) <= MaxDrawings
  <1> DEFINE w == tx[p].writes
             s == Visible(p)
  <1>1. /\ IsSeq(s)
        /\ Len(s) \in DOMAIN w \/ Len(s) = Len(drawings)
    BY VisibleOk
  <1>2. /\ DOMAIN s = DOMAIN drawings \cup DOMAIN w
        /\ \A n \in DOMAIN s : s[n] = IF n \in DOMAIN w THEN w[n] ELSE drawings[n]
    BY DEF Visible
  <1>3. TxTyped(tx[p]) /\ drawings \in Seq(Rows) /\ Len(drawings) <= MaxDrawings
    BY DEF RaffleTyped
  <1>4. \A n \in DOMAIN w : w[n] \in Rows
    BY <1>3 DEF TxTyped
  <1>5. DOMAIN w \subseteq {Len(tx[p].view), Number(tx[p])}
    BY DEF RaffleIInv, TxOk, NumbersOk
  <1> HIDE DEF w, s
  <1>6. \A n \in DOMAIN s : s[n] \in Rows
    BY <1>2, <1>3, <1>4
  <1>7. Len(s) \in Nat /\ DOMAIN s = 1..Len(s)
    BY <1>1, SeqFacts
  <1>8. s \in Seq(Rows)
    <2>1. s \in Seq({s[n] : n \in DOMAIN s})
      BY <1>1 DEF IsSeq
    <2>2. s = [n \in 1..Len(s) |-> s[n]]
      BY <1>7, <2>1
    <2> QED BY <1>6, <1>7, <2>2
  <1>9. Number(tx[p]) <= MaxDrawings /\ Len(tx[p].view) <= MaxDrawings
    <2>1. Len(tx[p].view) \in Nat
      BY <1>3 DEF TxTyped
    <2>2. IF tx[p].op = "redraw" THEN Number(tx[p]) = Len(tx[p].view) + 1 ELSE Number(tx[p]) = Len(tx[p].view) + 0
      BY DEF Number
    <2>3. MaxDrawings \in Nat
      BY RaffleAssumption
    <2> QED BY <1>3, <2>1, <2>2, <2>3 DEF TxTyped
  <1>10. Len(s) <= MaxDrawings
    BY <1>1, <1>3, <1>5, <1>9
  <1> QED BY <1>8, <1>10 DEF s

LEMMA WinnerTyped ==
  ASSUME HashIsNumber, NEW doc \in Documents, doc.tickets # <<>> PROVE Winner(doc) \in Nat
  <1>1. Hash(doc) \in Nat /\ Len(doc.tickets) \in Nat \ {0}
    BY DEF HashIsNumber, Documents
  <1>2. \A h \in Nat, n \in Nat \ {0} : h % n \in Nat
    OBVIOUS
  <1> QED BY <1>1, <1>2 DEF Winner

LEMMA DrawnTyped ==
  ASSUME HashIsNumber, RaffleIInv, RaffleTyped, NEW p \in Requests, tx[p].at = "compute"
  PROVE  Drawn(p) \in Rows
  <1> DEFINE seen == Visible(p)
             reasons == [n \in DOMAIN seen |-> seen[n].reason]
             doc == Document(reasons, tx[p].list)
  <1>1. tx[p].row \in Rows /\ tx[p].list \in Seq(Viewers)
    BY DEF RaffleIInv, RaffleTyped, TxTyped, TxOk, RowsOk
  <1>2. CASE tx[p].list = <<>>
    <2>1. Drawn(p) = [tx[p].row EXCEPT !.status = "complete"]
      BY <1>2 DEF Drawn
    <2> QED BY <1>1, <2>1 DEF Rows, Statuses
  <1>3. CASE tx[p].list # <<>>
    <2>1. Drawn(p) = [tx[p].row EXCEPT !.status = "pending", !.plaintext = doc, !.winner = Winner(doc)]
      BY <1>3 DEF Drawn
    <2>2. seen \in Seq(Rows)
      BY VisibleTyped
    <2>3. reasons \in Seq(Reasons \cup {Initial})
      <3>1. Len(seen) \in Nat /\ DOMAIN seen = 1..Len(seen) /\ \A n \in 1..Len(seen) : seen[n] \in Rows
        BY <2>2
      <3>2. \A n \in 1..Len(seen) : seen[n].reason \in Reasons \cup {Initial}
        BY <3>1 DEF Rows
      <3> HIDE DEF seen
      <3> QED BY <3>1, <3>2
    <2>4. doc \in Documents /\ doc.tickets = tx[p].list
      BY <1>1, <2>3 DEF Document, Documents
    <2>5. Winner(doc) \in Nat
      BY <1>3, <2>4, WinnerTyped
    <2> HIDE DEF doc
    <2> QED BY <1>1, <2>1, <2>4, <2>5 DEF Rows, Statuses
  <1> QED BY <1>2, <1>3

\* The statements that follow.
LEMMA InsertFirstTyped ==
  ASSUME RaffleIInv, RaffleTyped, NEW p \in Requests, InsertFirst(p) PROVE RaffleTyped'
  <1> DEFINE t == [tx[p] EXCEPT !.at = "entries", !.view = <<tx[p].row>>, !.writes = <<tx[p].row>>]
  <1>1. tx[p].at = "insert" /\ tx' = [tx EXCEPT ![p] = t] /\ UNCHANGED <<drawings, over, late>>
    BY DEF InsertFirst
  <1>2. TxOk(tx[p]) /\ TxTyped(tx[p])
    BY DEF RaffleIInv, RaffleTyped
  <1>3. t.at = "entries" /\ t.view = <<tx[p].row>> /\ t.writes = <<tx[p].row>> /\ t.op = tx[p].op /\ t.row = tx[p].row
    BY <1>2 DEF TxOk, TxFields
  <1> HIDE DEF t
  <1>4. tx[p].op = "process" /\ tx[p].row \in Rows
    BY <1>1, <1>2 DEF TxOk, PhaseOk, TxTyped
  <1>5. t.view \in Seq(Rows) /\ Len(t.view) = 1
    BY <1>3, <1>4
  <1>6. \A n \in DOMAIN t.writes : t.writes[n] \in Rows
    BY <1>3, <1>4
  <1>7. TxTyped(t)
    BY <1>3, <1>4, <1>5, <1>6, RaffleAssumption DEF TxTyped, Stages
  <1> QED BY <1>1, <1>7, TypedGoes

\* A row written by a call at its next stage, or none.
LEMMA WrittenTyped ==
  ASSUME RaffleIInv, RaffleTyped, NEW p \in Requests, NEW n, NEW row \in Rows, NEW next \in Stages,
         UNCHANGED <<drawings, over, late>>,
         tx' = [tx EXCEPT ![p] = [tx[p] EXCEPT !.at = next, !.writes = Write(tx[p].writes, n, row)]]
  PROVE  RaffleTyped'
  <1> DEFINE t == [tx[p] EXCEPT !.at = next, !.writes = Write(tx[p].writes, n, row)]
  <1>1. TxOk(tx[p]) /\ TxTyped(tx[p])
    BY DEF RaffleIInv, RaffleTyped
  <1>2. t.at = next /\ t.view = tx[p].view /\ t.writes = Write(tx[p].writes, n, row) /\ t.op = tx[p].op /\ t.row = tx[p].row
    BY <1>1 DEF TxOk, TxFields
  <1>3. tx' = [tx EXCEPT ![p] = t]
    OBVIOUS
  <1> HIDE DEF t
  <1>4. \A m \in DOMAIN t.writes : t.writes[m] \in Rows
    BY <1>1, <1>2 DEF Write, TxTyped
  <1>5. TxTyped(t)
    BY <1>1, <1>2, <1>4 DEF TxTyped
  <1> QED BY <1>3, <1>5, TypedGoes

LEMMA VoidLatestTyped ==
  ASSUME RaffleIInv, RaffleTyped, NEW p \in Requests, VoidLatest(p) PROVE RaffleTyped'
  <1> DEFINE m == Len(tx[p].view)
             voided == [tx[p].view[m] EXCEPT !.status = "voided"]
  <1>1. /\ tx[p].at = "void" /\ UNCHANGED <<drawings, over, late>>
        /\ tx' = [tx EXCEPT ![p] = [tx[p] EXCEPT !.at = "entries", !.writes = Write(tx[p].writes, m, voided)]]
    BY DEF VoidLatest
  <1>2. TxOk(tx[p]) /\ TxTyped(tx[p])
    BY DEF RaffleIInv, RaffleTyped
  <1>3. m >= 1 /\ tx[p].view \in Seq(Rows)
    BY <1>1, <1>2 DEF TxOk, NumbersOk, PhaseOk, TxTyped
  <1>4. tx[p].view[m] \in Rows
    BY <1>3
  <1>5. voided \in Rows
    BY <1>4 DEF Rows, Statuses
  <1>6. "entries" \in Stages
    BY DEF Stages
  <1> HIDE DEF m, voided
  <1> QED BY <1>1, <1>5, <1>6, WrittenTyped

LEMMA WriteDrawingTyped ==
  ASSUME RaffleIInv, RaffleTyped, NEW p \in Requests, WriteDrawing(p) PROVE RaffleTyped'
  <1> DEFINE n == Number(tx[p])
             row == tx[p].row
  <1>1. /\ UNCHANGED <<drawings, over, late>>
        /\ tx' = [tx EXCEPT ![p] = [tx[p] EXCEPT !.at = "commit", !.writes = Write(tx[p].writes, n, row)]]
    BY DEF WriteDrawing
  <1>2. row \in Rows /\ "commit" \in Stages
    BY DEF RaffleTyped, TxTyped, Stages
  <1> HIDE DEF n, row
  <1> QED BY <1>1, <1>2, WrittenTyped

LEMMA ReadEntriesTyped ==
  ASSUME RaffleIInv, RaffleTyped, NEW p \in Requests, ReadEntries(p) PROVE RaffleTyped'
  <1> DEFINE next == IF tx[p].row.status = "ongoing" THEN "compute" ELSE "commit"
             t == [tx[p] EXCEPT !.list = tickets, !.at = next]
  <1>1. tx' = [tx EXCEPT ![p] = t] /\ UNCHANGED <<drawings, over, late>>
    BY DEF ReadEntries
  <1>2. TxOk(tx[p]) /\ TxTyped(tx[p])
    BY DEF RaffleIInv, RaffleTyped
  <1>3. t.at = next /\ t.writes = tx[p].writes /\ t.op = tx[p].op /\ t.view = tx[p].view /\ t.row = tx[p].row
    BY <1>2 DEF TxOk, TxFields
  <1>4. next \in Stages
    BY DEF Stages
  <1> HIDE DEF t, next
  <1>5. TxTyped(t)
    BY <1>2, <1>3, <1>4 DEF TxTyped
  <1> QED BY <1>1, <1>5, TypedGoes

LEMMA ComputeTyped ==
  ASSUME HashIsNumber, RaffleIInv, RaffleTyped, NEW p \in Requests, ProcessOngoingRaffle(p) PROVE RaffleTyped'
  <1>1. tx[p].at = "compute" /\ UNCHANGED <<drawings, over, late>>
    BY DEF ProcessOngoingRaffle
  <1>2. TxOk(tx[p]) /\ TxTyped(tx[p]) /\ tx[p].row \in Rows
    BY DEF RaffleIInv, RaffleTyped, TxTyped
  <1>3. ASSUME NEW next \in Stages, NEW row \in Rows, tx' = [tx EXCEPT ![p] = [tx[p] EXCEPT !.at = next, !.row = row]]
        PROVE  RaffleTyped'
    <2> DEFINE t == [tx[p] EXCEPT !.at = next, !.row = row]
    <2>1. t.at = next /\ t.writes = tx[p].writes /\ t.op = tx[p].op /\ t.view = tx[p].view /\ t.row = row
      BY <1>2 DEF TxOk, TxFields
    <2>2. tx' = [tx EXCEPT ![p] = t]
      BY <1>3
    <2> HIDE DEF t
    <2>3. TxTyped(t)
      BY <1>2, <2>1 DEF TxTyped
    <2> QED BY <1>1, <2>2, <2>3, TypedGoes
  <1>4. CASE over
    <2> DEFINE row == Drawn(p)
    <2>1. tx' = [tx EXCEPT ![p] = [tx[p] EXCEPT !.at = "write", !.row = row]]
      BY <1>4 DEF ProcessOngoingRaffle
    <2>2. row \in Rows /\ "write" \in Stages
      BY <1>1, DrawnTyped DEF Stages
    <2> HIDE DEF row
    <2> QED BY <1>3, <2>1, <2>2
  <1>5. CASE ~over
    <2> DEFINE row == tx[p].row
    <2>1. tx' = [tx EXCEPT ![p] = [tx[p] EXCEPT !.at = "commit"]]
      BY <1>5 DEF ProcessOngoingRaffle
    <2>2. [tx[p] EXCEPT !.at = "commit"] = [tx[p] EXCEPT !.at = "commit", !.row = row]
      BY <1>2 DEF TxOk, TxFields
    <2>3. row \in Rows /\ "commit" \in Stages
      BY <1>2 DEF Stages
    <2> HIDE DEF row
    <2> QED BY <1>3, <2>1, <2>2, <2>3
  <1> QED BY <1>4, <1>5

LEMMA CommitTyped ==
  ASSUME RaffleIInv, RaffleTyped, NEW p \in Requests, Commit(p) PROVE RaffleTyped'
  <1>1. /\ tx[p].at = "commit" /\ drawings' = Visible(p) /\ UNCHANGED <<over, late>>
        /\ tx' = [tx EXCEPT ![p] = NoTransaction]
    BY DEF Commit
  <1>2. tx = [q \in Requests |-> tx[q]]
    BY DEF RaffleIInv
  <1>3. \A q \in Requests : tx'[q] = IF q = p THEN NoTransaction ELSE tx[q]
    BY <1>1, <1>2
  <1>4. \A q \in Requests : TxTyped(tx'[q])
    BY <1>3, IdleTyped DEF RaffleTyped
  <1>5. drawings' \in Seq(Rows) /\ Len(drawings') <= MaxDrawings
    BY <1>1, VisibleTyped
  <1> QED BY <1>1, <1>4, <1>5 DEF RaffleTyped

LEMMA RaffleTypesStep ==
  ASSUME HashIsNumber, RaffleIInv, RaffleTyped, [RaffleNext]_raffleVars
  PROVE  RaffleTyped'
  <1>1. ASSUME NEW u \in Viewers, IssueTicket(u) PROVE RaffleTyped'
    BY <1>1 DEF IssueTicket, RaffleTyped
  <1>2. CASE PeriodEnds \/ UNCHANGED raffleVars
    BY <1>2 DEF PeriodEnds, raffleVars, RaffleTyped
  <1>3. ASSUME NEW p \in Requests, \/ ProcessRaffle(p) \/ ConfirmRaffleWinner(p) \/ CompleteRaffle(p)
                                   \/ \E reason \in Reasons : RedrawRaffle(p, reason)
        PROVE  RaffleTyped'
    BY <1>3, OperationsTyped
  <1>4. ASSUME NEW p \in Requests, InsertFirst(p) \/ VoidLatest(p) \/ ReadEntries(p)
        PROVE  RaffleTyped'
    BY <1>4, InsertFirstTyped, VoidLatestTyped, ReadEntriesTyped
  <1>5. ASSUME NEW p \in Requests, ProcessOngoingRaffle(p) \/ WriteDrawing(p) \/ Commit(p)
        PROVE  RaffleTyped'
    BY <1>5, ComputeTyped, WriteDrawingTyped, CommitTyped
  <1>6. ASSUME NEW p \in Requests, Rollback(p) PROVE RaffleTyped'
    <2>1. tx' = [tx EXCEPT ![p] = NoTransaction] /\ UNCHANGED <<drawings, over, late>>
      BY <1>6 DEF Rollback
    <2> QED BY <2>1, TypedGoes, IdleTyped
  <1> QED BY <1>1, <1>2, <1>3, <1>4, <1>5, <1>6 DEF RaffleNext

LEMMA RaffleTypes == RaffleIInv /\ RaffleTyped => RaffleTypeOK
  <1> SUFFICES ASSUME RaffleIInv, RaffleTyped PROVE RaffleTypeOK
    OBVIOUS
  <1>1. Len(drawings) \in 0..MaxDrawings /\ DOMAIN drawings = 1..Len(drawings)
    BY RaffleAssumption DEF RaffleTyped
  <1>2. \A n \in DOMAIN drawings : drawings[n] \in Rows
    BY DEF RaffleTyped
  <1>3. ASSUME NEW p \in Requests, NEW n \in DOMAIN tx[p].writes PROVE n \in Nat \ {0}
    <2>1. TxOk(tx[p]) /\ TxTyped(tx[p])
      BY DEF RaffleIInv, RaffleTyped
    <2>2. n \in {Len(tx[p].view), Number(tx[p])} /\ tx[p].at \notin {"idle", "insert"} /\ Len(tx[p].view) >= 1
      BY <1>3, <2>1 DEF TxOk, NumbersOk
    <2>3. Len(tx[p].view) \in Nat
      BY <2>1 DEF TxTyped
    <2>4. IF tx[p].op = "redraw" THEN Number(tx[p]) = Len(tx[p].view) + 1 ELSE Number(tx[p]) = Len(tx[p].view) + 0
      BY DEF Number
    <2> QED BY <2>2, <2>3, <2>4
  <1>4. ASSUME NEW p \in Requests
        PROVE  /\ tx[p].op \in {"none", "process", "confirm", "complete", "redraw"}
               /\ tx[p].at \in Stages
               /\ tx[p].view \in Seq(Rows)
               /\ tx[p].list \in Seq(Viewers)
               /\ tx[p].row \in Rows
               /\ \A n \in DOMAIN tx[p].writes : tx[p].writes[n] \in Rows
    BY DEF RaffleIInv, RaffleTyped, TxOk, RowsOk, TxTyped
  <1>5. over \in BOOLEAN /\ late \in BOOLEAN /\ tickets \in Seq(Viewers)
    BY DEF RaffleIInv, RaffleTyped
  <1> QED BY <1>1, <1>2, <1>3, <1>4, <1>5 DEF RaffleTypeOK

LEMMA RaffleTypedStarts == RaffleInit => RaffleTyped
  <1> SUFFICES ASSUME RaffleInit PROVE RaffleTyped
    OBVIOUS
  <1>1. drawings = <<>> /\ over = FALSE /\ late = FALSE /\ tx = [p \in Requests |-> NoTransaction]
    BY DEF RaffleInit
  <1>2. drawings \in Seq(Rows) /\ Len(drawings) <= MaxDrawings
    <2>1. <<>> \in Seq(Rows) /\ Len(<<>>) = 0 /\ 0 <= MaxDrawings
      BY RaffleAssumption
    <2> QED BY <1>1, <2>1
  <1>3. \A p \in Requests : TxTyped(tx[p])
    BY <1>1, IdleTyped
  <1> QED BY <1>1, <1>2, <1>3 DEF RaffleTyped

-----------------------------------------------------------------------------
(* Withdrawals: the rows, and where a call is                              *)

\* The rest of the types is that of Booked.
RowsTyped ==
  /\ pending \subseteq PendingRows /\ queue \subseteq PendingRows /\ current \subseteq PendingRows
  /\ withdrawals \subseteq Blocks /\ ledger \subseteq Blocks /\ block \subseteq Blocks
  /\ unrecorded \subseteq Blocks
  /\ \A c \in Calls : call[c].at \in {"idle", "check", "zero", "insert", "commit"}
  /\ earned \in [Users -> 0..MaxRewards]
  /\ started \in 0..MaxStarted /\ sent \in 0..MaxBlocks /\ stops \in 0..MaxStops

\* The types of what the calls do not touch.
OtherRows ==
  /\ withdrawals \subseteq Blocks /\ ledger \subseteq Blocks /\ block \subseteq Blocks
  /\ unrecorded \subseteq Blocks /\ queue \subseteq PendingRows /\ current \subseteq PendingRows
  /\ earned \in [Users -> 0..MaxRewards]
  /\ sent \in 0..MaxBlocks /\ stops \in 0..MaxStops

LEMMA IdleAt == NoCall.at = "idle"
  BY DEF NoCall

LEMMA GoesTyped ==
  ASSUME WithdrawalsIInv, RowsTyped, NEW c \in Calls, NEW t, Goes(c, t),
         t.at \in {"idle", "check", "zero", "insert", "commit"}, UNCHANGED withdrawals
  PROVE  /\ OtherRows'
         /\ \A d \in Calls : call'[d].at \in {"idle", "check", "zero", "insert", "commit"}
  <1>1. call' = [call EXCEPT ![c] = t] /\ UNCHANGED <<ledger, queue, current, block, earned, sent, stops, unrecorded>>
    BY DEF Goes, working
  <1>2. call = [d \in Calls |-> call[d]]
    BY DEF WithdrawalsIInv, CoreTypes
  <1>3. \A d \in Calls : call'[d] = IF d = c THEN t ELSE call[d]
    BY <1>1, <1>2
  <1>4. OtherRows'
    BY <1>1 DEF OtherRows, RowsTyped
  <1> QED BY <1>3, <1>4 DEF RowsTyped

LEMMA CallsTyped ==
  ASSUME WithdrawalsIInv, RowsTyped, NEW c \in Calls,
         \/ \E u \in Users : Withdraw(c, u)
         \/ AutoWithdrawBalances(c) \/ CheckPending(c) \/ ZeroBalances(c) \/ InsertPending(c) \/ RollbackWithdraw(c)
  PROVE  RowsTyped'
  <1>1. UNCHANGED <<tables, started>>
    BY DEF Withdraw, AutoWithdrawBalances, CheckPending, ZeroBalances, InsertPending, RollbackWithdraw
  <1>2. \E t : Goes(c, t) /\ t.at \in {"idle", "check", "zero", "insert", "commit"}
    <2>1. \A at : [call[c] EXCEPT !.at = at].at = at
      BY DEF WithdrawalsIInv, CoreTypes
    <2>2. ASSUME NEW u \in Users, Withdraw(c, u)
          PROVE  Goes(c, [at |-> "check", of |-> {u}, amount |-> Of({u})])
      BY <2>2 DEF Withdraw
    <2>3. ASSUME AutoWithdrawBalances(c)
          PROVE  \E us : Goes(c, [at |-> "zero", of |-> us, amount |-> Of(us)])
      BY <2>3 DEF AutoWithdrawBalances
    <2>4. ASSUME CheckPending(c) PROVE Goes(c, NoCall) \/ Goes(c, [call[c] EXCEPT !.at = "zero"])
      BY <2>4 DEF CheckPending
    <2>5. ASSUME ZeroBalances(c) PROVE Goes(c, [call[c] EXCEPT !.at = "insert"])
      BY <2>5 DEF ZeroBalances
    <2>6. ASSUME InsertPending(c) PROVE Goes(c, NoCall) \/ Goes(c, [call[c] EXCEPT !.at = "commit"])
      BY <2>6 DEF InsertPending
    <2>7. ASSUME RollbackWithdraw(c) PROVE Goes(c, NoCall)
      BY <2>7 DEF RollbackWithdraw
    <2>8. \A us : [at |-> "check", of |-> us, amount |-> Of(us)].at = "check"
                  /\ [at |-> "zero", of |-> us, amount |-> Of(us)].at = "zero"
      OBVIOUS
    <2> QED BY <2>1, <2>2, <2>3, <2>4, <2>5, <2>6, <2>7, <2>8, IdleAt
  <1>3. PICK t : Goes(c, t) /\ t.at \in {"idle", "check", "zero", "insert", "commit"}
    BY <1>2
  <1>4. OtherRows' /\ \A d \in Calls : call'[d].at \in {"idle", "check", "zero", "insert", "commit"}
    BY <1>1, <1>3, GoesTyped DEF tables
  <1> QED BY <1>1, <1>4 DEF tables, RowsTyped, OtherRows

LEMMA CommitWithdrawTyped ==
  ASSUME WithdrawalsIInv, Booked, RowsTyped, NEW c \in Calls, CommitWithdraw(c)
  PROVE  RowsTyped'
  <1>1. /\ started < MaxStarted /\ started' = started + 1 /\ Goes(c, NoCall) /\ withdrawals' = withdrawals
        /\ pending' = pending \cup {[user |-> u, amount |-> call[c].amount[u], started |-> started + 1] :
                                      u \in call[c].of}
    BY DEF CommitWithdraw
  <1>2. OtherRows' /\ \A d \in Calls : call'[d].at \in {"idle", "check", "zero", "insert", "commit"}
    BY <1>1, GoesTyped, IdleAt
  <1>3. started' \in 1..MaxStarted
    BY <1>1, WithdrawalsAssumption DEF RowsTyped
  <1>4. ASSUME NEW u \in call[c].of
        PROVE  [user |-> u, amount |-> call[c].amount[u], started |-> started + 1] \in PendingRows
    BY <1>1, <1>3 DEF Booked, PendingRows
  <1>5. pending' \subseteq PendingRows
    BY <1>1, <1>4 DEF RowsTyped
  <1> QED BY <1>2, <1>3, <1>5 DEF OtherRows, RowsTyped

\* The worker and the surroundings.
LEMMA WorkerTyped ==
  ASSUME WithdrawalsIInv, RowsTyped,
         \/ CompleteAllPendingWithdrawals \/ DeletePending \/ Send \/ CompleteFails \/ Record
         \/ FindAndUndoInvalidWithdrawals \/ LoseBlock \/ Restart \/ UNCHANGED withdrawalsVars
  PROVE  RowsTyped'
  <1>1. CASE CompleteAllPendingWithdrawals
    BY <1>1 DEF CompleteAllPendingWithdrawals, tables, RowsTyped
  <1>2. CASE DeletePending
    <2>1. queue' \subseteq PendingRows /\ current' \subseteq PendingRows
      BY <1>2 DEF DeletePending, RowsTyped
    <2> QED BY <1>2, <2>1 DEF DeletePending, tables, RowsTyped
  <1>3. CASE Send
    <2>1. PICK p \in current :
            LET b == [user |-> p.user, amount |-> p.amount, started |-> p.started, number |-> sent + 1]
            IN  block' = {b} /\ ledger' = ledger \cup {b}
      BY <1>3 DEF Send
    <2>2. sent + 1 \in 1..MaxBlocks
      BY <1>3, WithdrawalsAssumption DEF Send, RowsTyped
    <2>3. [user |-> p.user, amount |-> p.amount, started |-> p.started, number |-> sent + 1] \in Blocks
      BY <2>2 DEF RowsTyped, PendingRows, Blocks
    <2>4. block' \subseteq Blocks /\ ledger' \subseteq Blocks
      BY <2>1, <2>3 DEF RowsTyped
    <2>5. sent' \in 0..MaxBlocks
      BY <1>3, <2>2 DEF Send
    <2> QED BY <1>3, <2>4, <2>5 DEF Send, tables, RowsTyped
  <1>4. CASE CompleteFails
    BY <1>4 DEF CompleteFails, tables, RowsTyped
  <1>5. CASE Record
    <2>1. withdrawals' \subseteq Blocks /\ pending' \subseteq PendingRows
      BY <1>5 DEF Record, RowsTyped
    <2> QED BY <1>5, <2>1 DEF Record, RowsTyped
  <1>6. CASE FindAndUndoInvalidWithdrawals
    <2>1. withdrawals' \subseteq Blocks
      BY <1>6 DEF FindAndUndoInvalidWithdrawals, RowsTyped
    <2> QED BY <1>6, <2>1 DEF FindAndUndoInvalidWithdrawals, working, RowsTyped
  <1>7. CASE LoseBlock
    <2>1. ledger' \subseteq Blocks
      BY <1>7 DEF LoseBlock, RowsTyped
    <2> QED BY <1>7, <2>1 DEF LoseBlock, tables, working, RowsTyped
  <1>8. CASE Restart
    <2>1. stops' \in 0..MaxStops
      BY <1>8, WithdrawalsAssumption DEF Restart, RowsTyped
    <2>2. \A c \in Calls : call'[c].at = "idle"
      BY <1>8, IdleAt DEF Restart
    <2> QED BY <1>8, <2>1, <2>2 DEF Restart, tables, RowsTyped
  <1>9. CASE UNCHANGED withdrawalsVars
    BY <1>9 DEF withdrawalsVars, tables, working, RowsTyped
  <1> QED BY <1>1, <1>2, <1>3, <1>4, <1>5, <1>6, <1>7, <1>8, <1>9

LEMMA RowsTypedStep ==
  ASSUME WithdrawalsIInv, Booked, RowsTyped, [WithdrawalsNext]_withdrawalsVars
  PROVE  RowsTyped'
  <1>1. ASSUME NEW u \in Users, Reward(u) PROVE RowsTyped'
    <2>1. earned' \in [Users -> 0..MaxRewards]
      BY <1>1, WithdrawalsAssumption DEF Reward, RowsTyped
    <2> QED BY <1>1, <2>1 DEF Reward, working, RowsTyped
  <1> QED BY <1>1, CallsTyped, CommitWithdrawTyped, WorkerTyped DEF WithdrawalsNext

LEMMA WithdrawalsTypes == WithdrawalsIInv /\ Booked /\ RowsTyped => WithdrawalsTypeOK
  BY DEF WithdrawalsIInv, OnePerUser, Booked, RowsTyped, WithdrawalsTypeOK

LEMMA RowsTypedStarts == WithdrawalsInit => RowsTyped
  <1>1. 0 \in 0..MaxStarted /\ 0 \in 0..MaxBlocks /\ 0 \in 0..MaxStops /\ 0 \in 0..MaxRewards
    BY WithdrawalsAssumption
  <1> QED BY <1>1, IdleAt DEF WithdrawalsInit, RowsTyped

-----------------------------------------------------------------------------
(* Whatever a behaviour is about                                           *)

\* The part that a behaviour is about keeps its invariant, the tickets and the pool
\* under them whichever of the two uses it.
PartsInv ==
  /\ about \in {"raffle", "withdrawals", "tickets", "conversions"}
  /\ RaffleIInv /\ RaffleTyped
  /\ WithdrawalsIInv /\ Booked /\ RowsTyped
  /\ PoolInv /\ CreditedToOneReceiver /\ TicketTypes
  /\ about = "tickets" => IInv

LEMMA PartsStart == MCInit => PartsInv
  <1> SUFFICES ASSUME MCInit PROVE PartsInv
    OBVIOUS
  <1>1. RaffleInit /\ WithdrawalsInit /\ Init
    BY DEF MCInit
  <1>2. IInv
    BY <1>1, InitInv
  <1> QED BY <1>1, <1>2, RaffleStarts, RaffleTypedStarts, WithdrawalsStarts, BookedStarts, RowsTypedStarts
             DEF MCInit, PartsInv, IInv

LEMMA PartsStep ==
  ASSUME HashIsNumber, PartsInv, [MCNext]_<<raffleVars, withdrawalsVars, vars, flowVars, about>>
  PROVE  PartsInv'
  <1>1. /\ [RaffleNext]_raffleVars /\ [WithdrawalsNext]_withdrawalsVars /\ UNCHANGED about
        /\ \/ about = "tickets" /\ Next
           \/ about = "conversions" /\ ConversionNext /\ UNCHANGED ticketVars
           \/ UNCHANGED vars
    <2>1. CASE MCNext
      BY <2>1 DEF MCNext
    <2>2. CASE UNCHANGED <<raffleVars, withdrawalsVars, vars, flowVars, about>>
      BY <2>2
    <2> QED BY <2>1, <2>2
  <1>2. RaffleIInv' /\ RaffleTyped'
    BY <1>1, RaffleStep, RaffleTypesStep DEF PartsInv
  <1>3. WithdrawalsIInv' /\ Booked' /\ RowsTyped'
    BY <1>1, WithdrawalsStep, BookedStep, RowsTypedStep DEF PartsInv
  <1>4. /\ PoolInv' /\ CreditedToOneReceiver' /\ TicketTypes'
        /\ about' = "tickets" => IInv'
    <2>1. CASE about = "tickets" /\ Next
      <3>1. IInv'
        BY <2>1, Preserved DEF PartsInv
      <3> QED BY <3>1 DEF IInv
    <2>2. CASE about = "conversions" /\ ConversionNext /\ UNCHANGED ticketVars
      <3>1. PoolInv' /\ CreditedToOneReceiver'
        BY <2>2, PoolUnderFlows DEF PartsInv
      <3>2. TicketTypes'
        BY <2>2 DEF PartsInv, TicketTypes, ticketVars, flags
      <3> QED BY <1>1, <2>2, <3>1, <3>2
    <2>3. CASE UNCHANGED vars
      <3>1. PoolInv' /\ CreditedToOneReceiver'
        BY <2>3, PoolUnchanged DEF PartsInv, vars
      <3>2. TicketTypes'
        BY <2>3 DEF PartsInv, TicketTypes, vars, ticketVars, flags
      <3>3. about = "tickets" => IInv'
        BY <2>3, StutterStep DEF PartsInv
      <3> QED BY <1>1, <3>1, <3>2, <3>3
    <2> QED BY <1>1, <2>1, <2>2, <2>3
  <1> QED BY <1>1, <1>2, <1>3, <1>4 DEF PartsInv

\* Rows, balances, amounts, points and transactions have their types, whatever money
\* a behaviour is about, if the hash of every document is a number: no amount is
\* ever negative, and the drawings of a raffle are numbered without gaps.
THEOREM MoneyTypes ==
  ASSUME HashIsNumber
  PROVE  MCSpec => []MoneyTypeOK
  <1>1. PartsInv => MoneyTypeOK
    <2> SUFFICES ASSUME PartsInv PROVE MoneyTypeOK
      OBVIOUS
    <2>1. RaffleTypeOK /\ WithdrawalsTypeOK
      BY RaffleTypes, WithdrawalsTypes DEF PartsInv
    <2>2. TypeOK
      BY DEF PartsInv, PoolInv, TicketTypes, TypeOK
    <2> QED BY <2>1, <2>2 DEF MoneyTypeOK
  <1>2. PartsInv /\ [MCNext]_<<raffleVars, withdrawalsVars, vars, flowVars, about>> => PartsInv'
    BY PartsStep
  <1> QED BY <1>1, <1>2, PartsStart, PTL DEF MCSpec
=============================================================================
