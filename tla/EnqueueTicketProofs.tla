-------------------------- MODULE EnqueueTicketProofs --------------------------
(***************************************************************************)
(* Tickets of EnqueueTicket make one entry, which is paid, and the money   *)
(* of their receivers goes where it belongs, for any number of tickets,    *)
(* other receivers, accounts and payments.                                 *)
(***************************************************************************)
EXTENDS EnqueueTicket, PaymentPoolProofs

\* The variables of the tickets have their types.
TicketTypes ==
  /\ ticket \in [Tickets -> {"none", "select", "try", "deduct", "revert", "play", "close", "ended"}]
  /\ lastSeen \in [Tickets -> Nat]
  /\ playFn \in [Tickets -> Ways]
  /\ enqueued \in [Tickets -> Seq(Ways)]
  /\ paid \subseteq Tickets /\ failed \subseteq Tickets /\ statusChanged \subseteq Tickets
  /\ clock \in [Tickets -> {"active", "expired", "later"}]
  /\ forced \in [Tickets -> Ways \cup {"no"}]

-----------------------------------------------------------------------------
(* The inductive invariant                                                 *)

\* While its worker runs, the receiver of a ticket is open.
Working(r) == ticket[r] \notin {"none", "ended"} => Open(r)

\* A ticket that is about to make its entry has made none; one that has made it is
\* paid by the time its worker waits again.
OneEntry(r) ==
  /\ ticket[r] \in {"none", "try", "deduct", "revert", "play"} => enqueued[r] = <<>> /\ r \notin paid
  /\ r \in paid => Len(enqueued[r]) = 1 /\ r \notin failed
  /\ Len(enqueued[r]) <= 1
  /\ enqueued[r] # <<>> /\ ticket[r] = "select" => r \in paid
  /\ enqueued[r] # <<>> => r \in paid \cup failed

\* The price was credited before the entry is made, and while the receiver is open.
Priced(r) ==
  /\ lastSeen[r] <= Len(receivable[r])
  /\ forced[r] = "no" /\ ticket[r] \in {"try", "deduct", "play"} =>
       Price[playFn[r]] <= Cardinality(seenPendings[r])
  /\ forced[r] = "no" /\ enqueued[r] # <<>> =>
       Price[enqueued[r][1]] <= Cardinality(CreditedOpen(r))

TicketInv(r) == Working(r) /\ OneEntry(r) /\ Priced(r)

IInv ==
  /\ PoolInv /\ CreditedToOneReceiver /\ TicketTypes
  /\ \A r \in Tickets : TicketInv(r)

-----------------------------------------------------------------------------
(* Prices                                                                  *)

\* Every way has a price.
LEMMA Prices == \A w \in Ways : Price[w] \in Nat
  BY TicketAssumption DEF Price, Ways

\* The way that is chosen is one that can be afforded.
LEMMA BestOf == \A ways \in SUBSET Ways : ways # {} => Best(ways) \in ways
  BY DEF Best, Ways

\* No Amount of a receiver is more than what it was credited with in all, also one
\* that was replaced.
LEMMA AmountBound ==
  ASSUME PoolInv, NEW r \in Receivers, freeing[r] = "no", NEW i \in 1 .. Len(receivable[r])
  PROVE  receivable[r][i] \in Nat /\ receivable[r][i] <= Cardinality(seenPendings[r])
  <1>1. /\ Balance(r) + refunded[r] = Cardinality(seenPendings[r])
        /\ \A j \in 1 .. (Len(receivable[r]) - 1) : receivable[r][j] <= refunded[r]
    BY DEF PoolInv, BooksBalance, Books
  <1>2. /\ Balance(r) \in Nat /\ refunded[r] \in Nat /\ receivable[r] \in Seq(Nat)
        /\ Len(receivable[r]) \in Nat /\ Cardinality(seenPendings[r]) \in Nat
    BY NumbersOf
  <1>3. receivable[r][i] \in Nat
    BY <1>2
  <1>4. CASE i = Len(receivable[r])
    BY <1>1, <1>2, <1>4 DEF Balance
  <1>5. CASE i # Len(receivable[r])
    <2>1. i \in 1 .. (Len(receivable[r]) - 1)
      BY <1>2, <1>5
    <2> QED BY <1>1, <1>2, <1>3, <2>1
  <1> QED BY <1>3, <1>4, <1>5

-----------------------------------------------------------------------------
(* What a step of the pool means for a receiver                            *)

\* It is credited with more, never with less.
Grows ==
  \A r \in Receivers : /\ seenPendings[r] \subseteq seenPendings'[r]
                       /\ CreditedOpen(r) \subseteq CreditedOpen(r)'
                       /\ Len(receivable[r]) <= Len(receivable'[r])

\* Steps that change neither.
LEMMA SameGrows == ASSUME PoolInv, UNCHANGED <<seenPendings, receivable, freeing, atClose>>
                   PROVE  Grows
  BY NumbersOf DEF Grows, CreditedOpen, Closed

\* Every step of the pool.
LEMMA PoolGrows == ASSUME PoolInv, PoolAction
                   PROVE  Grows
  <1> USE DEF accounts, receiver, group, processing, outcome, chain
  <1>1. \A r \in Receivers : Len(receivable[r]) \in Nat /\ receivable[r] \in Seq(Nat)
    BY NumbersOf
  <1>2. ASSUME NEW p \in Payments, ProcessPayment(p) PROVE Grows
    <2>1. PICK r \in Receivers : r = worker.of
      BY <1>2 DEF ProcessPayment, PoolInv, WorkerOK
    <2>2. /\ seenPendings' = [seenPendings EXCEPT ![r] = @ \cup {p}]
          /\ receivable' = [receivable EXCEPT ![r][Len(receivable[r])] = @ + 1]
          /\ UNCHANGED <<freeing, atClose>>
      BY <1>2, <2>1 DEF ProcessPayment
    <2>3. \A q \in Receivers : seenPendings[q] \subseteq seenPendings'[q]
      BY <2>2 DEF PoolInv, PoolTypes
    <2>4. \A q \in Receivers : Len(receivable'[q]) = Len(receivable[q])
      <3>1. receivable \in [Receivers -> Seq(Nat)]
        BY DEF PoolInv, PoolTypes
      <3>2. \A q \in Receivers \ {r} : receivable'[q] = receivable[q]
        BY <2>2, <3>1
      <3>3. receivable'[r] = [receivable[r] EXCEPT ![Len(receivable[r])] = @ + 1]
        BY <2>2, <3>1
      <3>4. receivable[r] \in Seq(Nat) /\ receivable[r] # <<>>
        BY DEF PoolInv, PoolTypes, Amounts
      <3>5. Len(receivable'[r]) = Len(receivable[r])
        BY <3>3, <3>4, AmountGrows
      <3> QED BY <3>2, <3>5
    <2> QED BY <1>1, <2>2, <2>3, <2>4 DEF Grows, CreditedOpen, Closed
  <1>3. ASSUME NEW r \in Receivers, Close(r) PROVE Grows
    <2>1. /\ freeing' = [freeing EXCEPT ![r] = "receive"] /\ atClose' = [atClose EXCEPT ![r] = seenPendings[r]]
          /\ UNCHANGED <<seenPendings, receivable>>
      BY <1>3 DEF Close
    <2>2. ~Closed(r)
      BY <1>3, PoolAssumption DEF Close, Monitored, PoolInv, Ownership
    <2>3. \A q \in Receivers : CreditedOpen(q)' = CreditedOpen(q)
      BY <2>1, <2>2 DEF CreditedOpen, Closed, PoolInv, PoolTypes
    <2> QED BY <1>1, <2>1, <2>3 DEF Grows
  <1>4. ASSUME NEW r \in Receivers,
               \/ FreeReceive(r) \/ FreeSend(r) \/ FreeSendErrs(r) \/ ReturnAccount(r) \/ FreeFails(r)
               \/ FreeDone(r)
        PROVE  Grows
    <2>1. \A q \in Receivers : Closed(q)' <=> Closed(q)
      BY <1>4 DEF Closed, FreeReceive, FreeSend, FreeSendErrs, ReturnAccount, FreeFails, FreeDone, PoolInv,
                  PoolTypes
    <2>2. UNCHANGED <<seenPendings, atClose, receivable>>
      BY <1>4 DEF FreeReceive, FreeSend, FreeSendErrs, ReturnAccount, FreeFails, FreeDone
    <2> QED BY <1>1, <2>1, <2>2 DEF Grows, CreditedOpen
  <1>5. ASSUME NEW r \in Receivers, RevertSend(r) PROVE Grows
    <2>1. /\ receivable' = [receivable EXCEPT ![r] = Append(@, 0)]
          /\ UNCHANGED <<seenPendings, freeing, atClose>>
      BY <1>5 DEF RevertSend
    <2>2. \A q \in Receivers : Len(receivable[q]) <= Len(receivable'[q])
      <3>1. /\ \A q \in Receivers \ {r} : receivable'[q] = receivable[q]
            /\ receivable'[r] = Append(receivable[r], 0)
        BY <2>1 DEF PoolInv, PoolTypes
      <3>2. Len(receivable'[r]) = Len(receivable[r]) + 1
        BY <1>1, <3>1
      <3> QED BY <1>1, <3>1, <3>2
    <2> QED BY <2>1, <2>2 DEF Grows, CreditedOpen, Closed
  <1>6. CASE UNCHANGED <<seenPendings, receivable, freeing, atClose>>
    BY <1>6, SameGrows
  <1>7. \/ \E p \in Payments : ProcessPayment(p)
        \/ \E r \in Receivers : \/ Close(r) \/ FreeReceive(r) \/ FreeSend(r) \/ FreeSendErrs(r)
                                \/ ReturnAccount(r) \/ FreeFails(r) \/ FreeDone(r) \/ RevertSend(r)
        \/ UNCHANGED <<seenPendings, receivable, freeing, atClose>>
    BY DEF PoolAction, CopyMonitored, ReadFails, LockReceiver, UnlockReceiver, DropAccount, Pay, RequestAccount,
           ReceivePayment, ReadPendings, RevertLock, RevertReceive, RevertSendErrs, RevertFails
  <1> QED BY <1>2, <1>3, <1>4, <1>5, <1>6, <1>7

\* A receiver stays open until it is closed.
LEMMA StaysOpen == ASSUME PoolInv, PoolAction, NEW r \in Receivers, Open(r), ~Close(r)
                   PROVE  Open(r)'
  <1> USE DEF accounts, receiver, group, processing, outcome, chain
  <1>1. freeing[r] = "no" /\ account[r] # NoAccount
    BY DEF Open, Closed
  <1>2. account'[r] = account[r]
    BY <1>1 DEF PoolAction, CopyMonitored, ReadFails, LockReceiver, UnlockReceiver, DropAccount, Pay,
           ProcessPayment, RequestAccount, ReceivePayment, ReadPendings, Close, RevertLock, RevertReceive,
           RevertSend, RevertSendErrs, RevertFails, FreeReceive, FreeSend, FreeSendErrs,
           ReturnAccount, FreeFails, FreeDone, PoolInv, PoolTypes
  <1>3. freeing'[r] = "no"
    <2>1. \/ UNCHANGED freeing
          \/ \E q \in Receivers : \/ Close(q) \/ FreeReceive(q) \/ FreeSend(q) \/ FreeSendErrs(q)
                                  \/ ReturnAccount(q) \/ FreeFails(q) \/ FreeDone(q)
      BY DEF PoolAction, CopyMonitored, ReadFails, LockReceiver, UnlockReceiver, DropAccount, Pay,
             ProcessPayment, RequestAccount, ReceivePayment, ReadPendings, RevertLock, RevertReceive,
             RevertSend, RevertSendErrs, RevertFails
    <2>2. ASSUME NEW q \in Receivers,
                 \/ Close(q) \/ FreeReceive(q) \/ FreeSend(q) \/ FreeSendErrs(q) \/ ReturnAccount(q)
                 \/ FreeFails(q) \/ FreeDone(q)
          PROVE  q # r /\ \E s : freeing' = [freeing EXCEPT ![q] = s]
      BY <1>1, <2>2 DEF Close, FreeReceive, FreeSend, FreeSendErrs, ReturnAccount, FreeFails, FreeDone
    <2>3. freeing \in [Receivers -> {"no", "receive", "send", "return", "returned", "failed", "done", "given up"}]
      BY DEF PoolInv, PoolTypes
    <2> QED BY <1>1, <2>1, <2>2, <2>3
  <1> QED BY <1>1, <1>2, <1>3 DEF Open, Closed

-----------------------------------------------------------------------------
(* Steps of the surroundings                                               *)

\* A ticket whose worker does nothing, whatever else happens.
LEMMA TicketStays ==
  ASSUME IInv, PoolInv', Grows, NEW q \in Tickets,
         ticket'[q] = ticket[q], lastSeen'[q] = lastSeen[q], playFn'[q] = playFn[q],
         enqueued'[q] = enqueued[q], forced'[q] = "no" => forced[q] = "no",
         q \in paid' <=> q \in paid, q \in failed' <=> q \in failed,
         ticket[q] \notin {"none", "ended"} => Open(q)'
  PROVE  TicketInv(q)'
  <1>1. q \in Receivers /\ Working(q)'
    BY TicketAssumption DEF Working
  <1>2. OneEntry(q)'
    BY DEF IInv, TicketInv, OneEntry
  <1>3. Priced(q)'
    <2>1. lastSeen'[q] <= Len(receivable'[q])
      <3>1. lastSeen[q] \in Nat /\ lastSeen[q] <= Len(receivable[q])
        BY DEF IInv, TicketTypes, TicketInv, Priced
      <3>2. Len(receivable[q]) \in Nat /\ Len(receivable[q]) <= Len(receivable'[q])
        BY <1>1, NumbersOf DEF IInv, Grows
      <3>3. Len(receivable'[q]) \in Nat
        <4>1. receivable'[q] \in Seq(Nat)
          BY <1>1 DEF PoolInv, PoolTypes
        <4> QED BY <4>1
      <3> QED BY <3>1, <3>2, <3>3
    <2>2. /\ seenPendings[q] \in SUBSET seenPendings'[q] /\ seenPendings'[q] \in SUBSET Payments
          /\ CreditedOpen(q) \in SUBSET CreditedOpen(q)' /\ CreditedOpen(q)' \in SUBSET Payments
      BY <1>1 DEF Grows, PoolInv, PoolTypes, CreditedOpen
    <2>3. /\ Cardinality(seenPendings[q]) <= Cardinality(seenPendings'[q])
          /\ Cardinality(CreditedOpen(q)) <= Cardinality(CreditedOpen(q)')
          /\ Cardinality(seenPendings[q]) \in Nat /\ Cardinality(seenPendings'[q]) \in Nat
          /\ Cardinality(CreditedOpen(q)) \in Nat /\ Cardinality(CreditedOpen(q)') \in Nat
      BY <2>2, FewerPayments
    <2>4. ASSUME forced'[q] = "no", ticket'[q] \in {"try", "deduct", "play"}
          PROVE  Price[playFn'[q]] <= Cardinality(seenPendings'[q])
      <3>1. Price[playFn[q]] <= Cardinality(seenPendings[q])
        BY <2>4 DEF IInv, TicketInv, Priced
      <3>2. Price[playFn[q]] \in Nat
        BY Prices DEF IInv, TicketTypes
      <3> QED BY <2>3, <3>1, <3>2
    <2>5. ASSUME forced'[q] = "no", enqueued'[q] # <<>>
          PROVE  Price[enqueued'[q][1]] <= Cardinality(CreditedOpen(q)')
      <3>1. Price[enqueued[q][1]] <= Cardinality(CreditedOpen(q))
        BY <2>5 DEF IInv, TicketInv, Priced
      <3>2. Price[enqueued[q][1]] \in Nat
        <4>1. enqueued[q][1] \in Ways
          BY <2>5 DEF IInv, TicketTypes
        <4> QED BY <4>1, Prices
      <3> QED BY <2>3, <3>1, <3>2
    <2> QED BY <2>1, <2>4, <2>5 DEF Priced
  <1> QED BY <1>1, <1>2, <1>3 DEF TicketInv

\* A step of the pool, or of the owner of another receiver.
LEMMA OtherStep ==
  ASSUME IInv, PoolAction, UNCHANGED ticketVars, \A r \in Tickets : ~Close(r)
  PROVE  IInv'
  <1> USE DEF ticketVars, flags
  <1>1. PoolInv' /\ CreditedToOneReceiver' /\ Grows
    BY PoolPreserved, PoolGrows DEF IInv
  <1>2. TicketTypes'
    BY DEF IInv, TicketTypes
  <1>3. ASSUME NEW q \in Tickets PROVE TicketInv(q)'
    <2>1. ticket[q] \notin {"none", "ended"} => Open(q)'
      BY TicketAssumption, StaysOpen DEF IInv, TicketInv, Working
    <2> QED BY <1>1, <2>1, TicketStays
  <1> QED BY <1>1, <1>2, <1>3 DEF IInv

\* Time passes, and moderators make up their minds.
LEMMA OutsideStep ==
  ASSUME IInv, NEW r \in Tickets,
         \/ TimePasses(r) \/ NotifyStatus(r)
         \/ \E way \in Forced : ForceEnqueuing(r, way)
  PROVE  IInv'
  <1> USE DEF flags
  <1>1. UNCHANGED <<poolVars, ticket, lastSeen, playFn, enqueued, paid, failed>>
    BY DEF TimePasses, NotifyStatus, ForceEnqueuing
  <1>2. PoolInv' /\ CreditedToOneReceiver'
    BY <1>1, PoolUnchanged DEF IInv
  <1>3. Grows
    BY <1>1, SameGrows DEF IInv, poolVars, receiver, outcome
  <1>4. clock' \in [Tickets -> {"active", "expired", "later"}]
    BY DEF IInv, TicketTypes, TimePasses, NotifyStatus, ForceEnqueuing
  <1>5. forced' \in [Tickets -> Ways \cup {"no"}] /\ \A q \in Tickets : forced'[q] = "no" => forced[q] = "no"
    <2>1. "no" \notin Forced /\ Forced \subseteq Ways
      BY TicketAssumption DEF Ways
    <2> QED BY <2>1 DEF IInv, TicketTypes, TimePasses, NotifyStatus, ForceEnqueuing
  <1>6. statusChanged' \subseteq Tickets
    BY DEF IInv, TicketTypes, TimePasses, NotifyStatus, ForceEnqueuing
  <1>7. TicketTypes'
    BY <1>1, <1>4, <1>5, <1>6 DEF IInv, TicketTypes
  <1>8. ASSUME NEW q \in Tickets PROVE TicketInv(q)'
    <2>1. ticket[q] \notin {"none", "ended"} => Open(q)'
      BY <1>1 DEF IInv, TicketInv, Working, Open, Closed, poolVars, receiver
    <2> QED BY <1>1, <1>2, <1>3, <1>5, <2>1, TicketStays
  <1> QED BY <1>2, <1>7, <1>8 DEF IInv

-----------------------------------------------------------------------------
(* Steps of the worker of a ticket                                         *)

\* What a step for one ticket has to show.
LEMMA OneTicket ==
  ASSUME IInv, NEW r \in Tickets, PoolInv', CreditedToOneReceiver', Grows, TicketTypes', TicketInv(r)',
         \A q \in Tickets \ {r} :
           /\ ticket'[q] = ticket[q] /\ lastSeen'[q] = lastSeen[q] /\ playFn'[q] = playFn[q]
           /\ enqueued'[q] = enqueued[q] /\ forced'[q] = forced[q]
           /\ q \in paid' <=> q \in paid
           /\ q \in failed' <=> q \in failed
           /\ Open(q) => Open(q)'
  PROVE  IInv'
  <1>1. ASSUME NEW q \in Tickets \ {r} PROVE TicketInv(q)'
    <2>1. ticket[q] \notin {"none", "ended"} => Open(q)'
      BY DEF IInv, TicketInv, Working
    <2> QED BY <2>1, TicketStays
  <1> QED BY <1>1 DEF IInv

\* The worker moves on by itself.
LEMMA WorkerMoves ==
  ASSUME IInv, NEW r \in Tickets, UNCHANGED <<poolVars, lastSeen, enqueued, clock, forced>>,
         NEW state \in {"select", "try", "deduct", "revert", "play", "close"},
         ticket' = [ticket EXCEPT ![r] = state], ticket[r] \notin {"none", "ended"},
         TicketTypes', OneEntry(r)', Priced(r)',
         \A q \in Tickets \ {r} : /\ playFn'[q] = playFn[q]
                                  /\ q \in paid' <=> q \in paid
                                  /\ q \in failed' <=> q \in failed
  PROVE  IInv'
  <1>1. PoolInv' /\ CreditedToOneReceiver'
    BY PoolUnchanged DEF IInv
  <1>2. Grows
    BY SameGrows DEF IInv, poolVars, receiver, outcome
  <1>3. \A q \in Receivers : Open(q)' <=> Open(q)
    BY DEF Open, Closed, poolVars, receiver
  <1>4. Working(r)'
    BY <1>3, TicketAssumption DEF IInv, TicketInv, Working
  <1>5. \A q \in Tickets \ {r} : ticket'[q] = ticket[q]
    BY DEF IInv, TicketTypes
  <1> QED BY <1>1, <1>2, <1>3, <1>4, <1>5, TicketAssumption, OneTicket DEF TicketInv

\* A ticket that is paid is not tried again, and what is tried can be afforded with
\* the Amount that is looked at.
LEMMA Tried ==
  ASSUME IInv, NEW r \in Tickets, ticket[r] = "select", TryEnqueuing(r), Open(r),
         lastSeen' \in [Tickets -> Nat], lastSeen'[r] <= Len(receivable[r])
  PROVE  \/ UNCHANGED <<ticket, playFn>>
         \/ /\ ticket' = [ticket EXCEPT ![r] = "try"]
            /\ r \notin paid /\ enqueued[r] = <<>>
            /\ playFn' \in [Tickets -> Ways] /\ \A q \in Tickets \ {r} : playFn'[q] = playFn[q]
            /\ forced[r] = "no" => Price[playFn'[r]] <= Cardinality(seenPendings[r])
  <1>1. CASE Status(r) = "PAID" \/ Affordable(r) = {}
    BY <1>1 DEF TryEnqueuing
  <1>2. CASE Status(r) # "PAID" /\ Affordable(r) # {}
    <2>1. /\ ticket' = [ticket EXCEPT ![r] = "try"]
          /\ playFn' = [playFn EXCEPT ![r] = Best(Affordable(r))]
      BY <1>2 DEF TryEnqueuing
    <2>2. r \notin paid
      BY <1>2 DEF Status, IInv, TicketInv, OneEntry
    <2>3. enqueued[r] = <<>>
      BY <2>2 DEF IInv, TicketInv, OneEntry
    <2>4. Affordable(r) \in SUBSET Ways
      BY DEF Affordable
    <2>5. Best(Affordable(r)) \in Affordable(r) /\ Best(Affordable(r)) \in Ways
      BY <1>2, <2>4, BestOf
    <2>6. playFn' \in [Tickets -> Ways] /\ playFn'[r] = Best(Affordable(r))
          /\ \A q \in Tickets \ {r} : playFn'[q] = playFn[q]
      BY <2>1, <2>5 DEF IInv, TicketTypes
    <2>7. ASSUME forced[r] = "no" PROVE Price[playFn'[r]] <= Cardinality(seenPendings[r])
      <3>1. Seen(r) >= Price[playFn'[r]]
        BY <2>5, <2>6, <2>7 DEF Affordable, Ways
      <3>2. Price[playFn'[r]] \in Nat
        BY <2>5, <2>6, Prices
      <3>3. Seen(r) \in Nat /\ Seen(r) <= Cardinality(seenPendings[r]) /\ Cardinality(seenPendings[r]) \in Nat
        <4>1. freeing[r] = "no" /\ r \in Receivers /\ Len(receivable[r]) \in Nat
              /\ Cardinality(seenPendings[r]) \in Nat
          BY TicketAssumption, NumbersOf DEF Open, Closed, IInv
        <4>2. CASE lastSeen'[r] = 0
          BY <4>1, <4>2 DEF Seen
        <4>3. CASE lastSeen'[r] # 0
          <5>1. lastSeen'[r] \in 1 .. Len(receivable[r])
            BY <4>1, <4>3
          <5> QED BY <4>1, <4>3, <5>1, AmountBound DEF Seen, IInv
        <4> QED BY <4>2, <4>3, <4>1
      <3> QED BY <3>1, <3>2, <3>3
    <2> QED BY <2>1, <2>2, <2>3, <2>6, <2>7
  <1> QED BY <1>1, <1>2

\* The worker looks at an Amount, one it was notified of or the one it knows.
LEMMA LooksStep ==
  ASSUME IInv, NEW r \in Tickets, ticket[r] = "select", TryEnqueuing(r),
         PoolInv', CreditedToOneReceiver',
         UNCHANGED <<account, seenPendings, receivable, freeing, atClose, enqueued, flags, clock, forced>>,
         NEW i \in Nat, i <= Len(receivable[r]), lastSeen' = [lastSeen EXCEPT ![r] = i]
  PROVE  IInv'
  <1> USE DEF flags
  <1>1. r \in Receivers /\ Open(r)
    BY TicketAssumption DEF IInv, TicketInv, Working
  <1>2. lastSeen' \in [Tickets -> Nat] /\ lastSeen'[r] = i /\ \A q \in Tickets \ {r} : lastSeen'[q] = lastSeen[q]
    BY DEF IInv, TicketTypes
  <1>3. \/ UNCHANGED <<ticket, playFn>>
        \/ /\ ticket' = [ticket EXCEPT ![r] = "try"]
           /\ r \notin paid /\ enqueued[r] = <<>>
           /\ playFn' \in [Tickets -> Ways] /\ \A q \in Tickets \ {r} : playFn'[q] = playFn[q]
           /\ forced[r] = "no" => Price[playFn'[r]] <= Cardinality(seenPendings[r])
    BY <1>1, <1>2, Tried
  <1>4. TicketTypes'
    BY <1>2, <1>3 DEF IInv, TicketTypes
  <1>5. \A q \in Receivers : (Open(q)' <=> Open(q)) /\ CreditedOpen(q)' = CreditedOpen(q)
    BY DEF Open, Closed, CreditedOpen
  <1>6. \A q \in Tickets \ {r} : ticket'[q] = ticket[q] /\ playFn'[q] = playFn[q]
    BY <1>3 DEF IInv, TicketTypes
  <1>7. Grows
    BY SameGrows DEF IInv
  <1>8. TicketInv(r)'
    <2>1. Working(r)'
      BY <1>1, <1>5 DEF Working
    <2>2. CASE UNCHANGED <<ticket, playFn>>
      <3>1. OneEntry(r)'
        BY <2>2 DEF IInv, TicketInv, OneEntry
      <3>2. Priced(r)'
        BY <1>1, <1>2, <1>5, <2>2 DEF IInv, TicketInv, Priced
      <3> QED BY <2>1, <3>1, <3>2 DEF TicketInv
    <2>3. CASE ~UNCHANGED <<ticket, playFn>>
      <3>1. ticket'[r] = "try"
        BY <1>3, <2>3 DEF IInv, TicketTypes
      <3>2. OneEntry(r)'
        BY <1>3, <2>3, <3>1 DEF OneEntry
      <3>3. Priced(r)'
        BY <1>2, <1>3, <2>3, <3>1 DEF Priced
      <3> QED BY <2>1, <3>2, <3>3 DEF TicketInv
    <2> QED BY <2>2, <2>3
  <1> QED BY <1>1, <1>2, <1>4, <1>5, <1>6, <1>7, <1>8, TicketAssumption, OneTicket

\* A notification is read, or a moderator's wish looked for.
LEMMA TryStep == ASSUME IInv, NEW r \in Tickets, PaymentReceived(r) \/ CheckForcedEnqueuing(r)
                 PROVE  IInv'
  <1> USE DEF chain, accounts, group, processing, outcome
  <1>1. r \in Receivers
    BY TicketAssumption
  <1>2. CASE PaymentReceived(r)
    <2>1. /\ ticket[r] = "select" /\ inbox[r] # <<>> /\ inbox' = [inbox EXCEPT ![r] = Tail(@)]
          /\ lastSeen' = [lastSeen EXCEPT ![r] = Head(inbox[r])] /\ TryEnqueuing(r)
          /\ UNCHANGED <<chain, accounts, account, monitoredAccounts, seenPendings, receivable, mu, group,
                         processing, freeing, outcome, enqueued, flags, clock, forced>>
      BY <1>2 DEF PaymentReceived
    <2>2. inbox[r] \in Seq(Nat) /\ \A i \in 1 .. Len(inbox[r]) : inbox[r][i] <= Len(receivable[r])
      BY <1>1 DEF IInv, PoolInv, PoolTypes, Amounts
    <2>3. Head(inbox[r]) \in Nat /\ Head(inbox[r]) <= Len(receivable[r])
      <3>1. 1 \in 1 .. Len(inbox[r]) /\ Head(inbox[r]) = inbox[r][1]
        BY <2>1, <2>2
      <3> QED BY <2>2, <3>1
    <2>4. Tail(inbox[r]) \in Seq(Nat) /\ \A i \in 1 .. Len(Tail(inbox[r])) : Tail(inbox[r])[i] <= Len(receivable[r])
      <3>1. Tail(inbox[r]) \in Seq(Nat) /\ Len(Tail(inbox[r])) = Len(inbox[r]) - 1
        BY <2>1, <2>2
      <3>2. ASSUME NEW i \in 1 .. Len(Tail(inbox[r])) PROVE Tail(inbox[r])[i] <= Len(receivable[r])
        <4>1. i + 1 \in 1 .. Len(inbox[r]) /\ Tail(inbox[r])[i] = inbox[r][i + 1]
          BY <2>1, <2>2, <3>1
        <4> QED BY <2>2, <4>1
      <3> QED BY <3>1, <3>2
    <2>5. PoolInv' /\ CreditedToOneReceiver'
      BY <1>1, <2>1, <2>4, NotificationTaken DEF IInv
    <2> QED BY <2>1, <2>3, <2>5, LooksStep
  <1>3. CASE CheckForcedEnqueuing(r)
    <2>1. /\ ticket[r] = "select" /\ lastSeen' = lastSeen /\ TryEnqueuing(r)
          /\ UNCHANGED <<poolVars, enqueued, flags, clock, forced>>
      BY <1>3 DEF CheckForcedEnqueuing
    <2>2. PoolInv' /\ CreditedToOneReceiver'
      BY <2>1, PoolUnchanged DEF IInv
    <2>3. /\ lastSeen[r] \in Nat /\ lastSeen[r] <= Len(receivable[r])
          /\ lastSeen' = [lastSeen EXCEPT ![r] = lastSeen[r]]
      BY <2>1 DEF IInv, TicketTypes, TicketInv, Priced
    <2>4. UNCHANGED <<account, seenPendings, receivable, freeing, atClose>>
      BY <2>1 DEF poolVars, receiver
    <2> QED BY <2>1, <2>2, <2>3, <2>4, LooksStep
  <1> QED BY <1>2, <1>3

\* The receiver is there, and the worker starts.
LEMMA RegisterStep == ASSUME IInv, NEW r \in Tickets, RegisterRequest(r)
                      PROVE  IInv'
  <1> USE DEF flags
  <1>1. /\ ReceivePayment(r) /\ ticket[r] = "none" /\ ticket' = [ticket EXCEPT ![r] = "select"]
        /\ UNCHANGED <<lastSeen, playFn, enqueued, flags, clock, forced>>
    BY DEF RegisterRequest
  <1>2. r \in Receivers /\ PoolAction
    BY <1>1, TicketAssumption DEF PoolAction
  <1>3. PoolInv' /\ CreditedToOneReceiver' /\ Grows
    BY <1>2, PoolPreserved, PoolGrows DEF IInv
  <1>4. UNCHANGED <<account, freeing, receivable>>
    BY <1>1 DEF ReceivePayment
  <1>5. \A q \in Receivers : Open(q)' <=> Open(q)
    BY <1>4 DEF Open, Closed
  <1>6. TicketTypes'
    BY <1>1 DEF IInv, TicketTypes
  <1>7. ticket'[r] = "select" /\ \A q \in Tickets \ {r} : ticket'[q] = ticket[q]
    BY <1>1 DEF IInv, TicketTypes
  <1>8. TicketInv(r)'
    <2>1. Working(r)'
      BY <1>1, <1>2, <1>5 DEF Working, ReceivePayment, Open
    <2>2. enqueued[r] = <<>> /\ r \notin paid
      BY <1>1 DEF IInv, TicketInv, OneEntry
    <2>3. OneEntry(r)'
      BY <1>1, <1>7, <2>2 DEF OneEntry
    <2>4. Priced(r)'
      BY <1>1, <1>4, <1>7, <2>2 DEF IInv, TicketInv, Priced
    <2> QED BY <2>1, <2>3, <2>4 DEF TicketInv
  <1> QED BY <1>1, <1>3, <1>5, <1>6, <1>7, <1>8, TicketAssumption, OneTicket

\* Steps that make no entry and move no money.
LEMMA MoveStep ==
  ASSUME IInv, NEW r \in Tickets,
         \/ StatusChanged(r) \/ Expire(r) \/ NotBanned(r) \/ DeductPoints(r) \/ DeductFails(r) \/ Reverted(r)
  PROVE  IInv'
  <1> USE DEF flags
  <1>1. UNCHANGED <<poolVars, lastSeen, playFn, enqueued, paid, failed, clock, forced>>
    BY DEF StatusChanged, Expire, NotBanned, DeductPoints, DeductFails, Reverted
  <1>2. PICK state \in {"select", "deduct", "revert", "play", "close"} : ticket' = [ticket EXCEPT ![r] = state]
    BY DEF StatusChanged, Expire, NotBanned, DeductPoints, DeductFails, Reverted, IInv, TicketTypes
  <1>3. /\ ticket[r] \notin {"none", "ended"} /\ ticket'[r] = state
        /\ ticket[r] = "select" => state \in {"select", "close"}
        /\ ticket[r] # "select" => ticket[r] \in {"try", "deduct", "revert"}
        /\ state \in {"deduct", "play"} => ticket[r] \in {"try", "deduct"}
    BY <1>2 DEF StatusChanged, Expire, NotBanned, DeductPoints, DeductFails, Reverted, IInv, TicketTypes
  <1>4. TicketTypes'
    <2>1. statusChanged' \subseteq Tickets
      BY DEF StatusChanged, Expire, NotBanned, DeductPoints, DeductFails, Reverted, IInv, TicketTypes
    <2> QED BY <1>1, <1>2, <2>1 DEF IInv, TicketTypes
  <1>5. OneEntry(r)'
    BY <1>1, <1>3 DEF IInv, TicketInv, OneEntry
  <1>6. Priced(r)'
    <2>1. UNCHANGED <<seenPendings, receivable, freeing, atClose>>
      BY <1>1 DEF poolVars, receiver, outcome
    <2> QED BY <1>1, <1>3, <2>1 DEF IInv, TicketInv, Priced, CreditedOpen, Closed
  <1> QED BY <1>1, <1>2, <1>3, <1>4, <1>5, <1>6, WorkerMoves

\* The entry is made, once, and not before its price was credited.
LEMMA PlayStep == ASSUME IInv, NEW r \in Tickets, Play(r)
                  PROVE  IInv'
  <1> USE DEF flags
  <1>1. /\ ticket[r] = "play" /\ enqueued' = [enqueued EXCEPT ![r] = Append(@, playFn[r])]
        /\ UNCHANGED <<poolVars, lastSeen, playFn, clock, forced>>
        /\ UNCHANGED failed
    BY DEF Play
  <1>2. \/ r \in failed /\ ticket' = [ticket EXCEPT ![r] = "close"] /\ UNCHANGED <<paid, statusChanged>>
        \/ /\ r \notin failed /\ ticket' = [ticket EXCEPT ![r] = "select"]
           /\ paid' = paid \cup {r} /\ statusChanged' = statusChanged \cup {r}
    BY DEF Play
  <1>3. r \in Receivers /\ Open(r) /\ enqueued[r] = <<>> /\ r \notin paid /\ playFn[r] \in Ways
    BY <1>1, TicketAssumption DEF IInv, TicketInv, Working, OneEntry, TicketTypes
  <1>4. enqueued'[r] = <<playFn[r]>> /\ Len(enqueued'[r]) = 1
    <2>1. enqueued'[r] = Append(enqueued[r], playFn[r])
      BY <1>1 DEF IInv, TicketTypes
    <2> QED BY <1>3, <2>1
  <1>5. TicketTypes'
    <2>1. enqueued' \in [Tickets -> Seq(Ways)]
      <3>1. <<playFn[r]>> \in Seq(Ways)
        BY <1>3
      <3> QED BY <1>1, <1>4, <3>1 DEF IInv, TicketTypes
    <2> QED BY <1>1, <1>2, <2>1 DEF IInv, TicketTypes
  <1>6. PoolInv' /\ CreditedToOneReceiver'
    BY <1>1, PoolUnchanged DEF IInv
  <1>7. UNCHANGED <<account, seenPendings, receivable, freeing, atClose>>
    BY <1>1 DEF poolVars, receiver, outcome
  <1>8. Grows
    BY <1>7, SameGrows DEF IInv
  <1>9. \A q \in Receivers : Open(q)' <=> Open(q)
    BY <1>7 DEF Open, Closed
  <1>10. TicketInv(r)'
    <2>1. Working(r)'
      BY <1>3, <1>9 DEF Working
    <2>2. OneEntry(r)'
      <3>1. r \in failed' => ticket'[r] = "close" /\ r \notin paid'
        BY <1>1, <1>2, <1>3 DEF IInv, TicketTypes
      <3>2. r \notin failed' => ticket'[r] = "select" /\ r \in paid'
        BY <1>1, <1>2 DEF IInv, TicketTypes
      <3>3. enqueued'[r] # <<>>
        BY <1>4
      <3> QED BY <1>4, <3>1, <3>2, <3>3 DEF OneEntry
    <2>3. Priced(r)'
      <3>1. enqueued'[r][1] = playFn[r]
        BY <1>4
      <3>2. CreditedOpen(r)' = seenPendings[r]
        BY <1>3, <1>7 DEF CreditedOpen, Open, Closed
      <3>3. ticket'[r] \notin {"try", "deduct", "play"}
        BY <1>2 DEF IInv, TicketTypes
      <3>4. lastSeen[r] <= Len(receivable[r])
        BY DEF IInv, TicketInv, Priced
      <3>5. forced[r] = "no" => Price[playFn[r]] <= Cardinality(seenPendings[r])
        BY <1>1 DEF IInv, TicketInv, Priced
      <3> QED BY <1>1, <1>7, <3>1, <3>2, <3>3, <3>4, <3>5 DEF Priced
    <2> QED BY <2>1, <2>2, <2>3 DEF TicketInv
  <1>11. \A q \in Tickets \ {r} : /\ ticket'[q] = ticket[q] /\ enqueued'[q] = enqueued[q]
                                  /\ q \in paid' <=> q \in paid
    BY <1>1, <1>2 DEF IInv, TicketTypes
  <1> QED BY <1>1, <1>5, <1>6, <1>8, <1>9, <1>10, <1>11, TicketAssumption, OneTicket

\* The worker has its receiver send back what is there.
LEMMA RefundStep == ASSUME IInv, NEW r \in Tickets, Banned(r) \/ InsufficientPoints(r)
                    PROVE  IInv'
  <1> USE DEF flags
  <1>1. /\ ticket[r] \in {"try", "deduct"} /\ RevertLock(r) /\ ticket' = [ticket EXCEPT ![r] = "revert"]
        /\ failed \subseteq failed' /\ failed' \subseteq failed \cup {r}
        /\ statusChanged' \subseteq statusChanged \cup {r}
        /\ UNCHANGED <<lastSeen, playFn, enqueued, paid, clock, forced>>
    BY DEF Banned, InsufficientPoints
  <1>2. r \in Receivers /\ Open(r)
    BY <1>1, TicketAssumption DEF IInv, TicketInv, Working
  <1>3. PoolAction
    BY <1>1, <1>2 DEF PoolAction
  <1>4. PoolInv' /\ CreditedToOneReceiver' /\ Grows
    BY <1>3, PoolPreserved, PoolGrows DEF IInv
  <1>5. UNCHANGED <<account, seenPendings, receivable, freeing, atClose>>
    BY <1>1 DEF RevertLock, outcome
  <1>6. \A q \in Receivers : Open(q)' <=> Open(q)
    BY <1>5 DEF Open, Closed
  <1>7. TicketTypes'
    BY <1>1 DEF IInv, TicketTypes
  <1>8. ticket'[r] = "revert" /\ \A q \in Tickets \ {r} : ticket'[q] = ticket[q]
    BY <1>1 DEF IInv, TicketTypes
  <1>9. TicketInv(r)'
    <2>1. Working(r)'
      BY <1>2, <1>6 DEF Working
    <2>2. enqueued[r] = <<>> /\ r \notin paid
      BY <1>1 DEF IInv, TicketInv, OneEntry
    <2>3. OneEntry(r)'
      BY <1>1, <1>8, <2>2 DEF OneEntry
    <2>4. Priced(r)'
      BY <1>1, <1>5, <1>8, <2>2 DEF IInv, TicketInv, Priced
    <2> QED BY <2>1, <2>3, <2>4 DEF TicketInv
  <1>10. \A q \in Tickets \ {r} : q \in failed' <=> q \in failed
    BY <1>1
  <1> QED BY <1>1, <1>4, <1>6, <1>7, <1>8, <1>9, <1>10, TicketAssumption, OneTicket

\* The receiver is closed with the ticket.
LEMMA EndStep == ASSUME IInv, NEW r \in Tickets, EndTicket(r)
                 PROVE  IInv'
  <1> USE DEF flags
  <1>1. /\ ticket[r] = "close" /\ Close(r) /\ ticket' = [ticket EXCEPT ![r] = "ended"]
        /\ UNCHANGED <<lastSeen, playFn, enqueued, flags, clock, forced>>
    BY DEF EndTicket
  <1>2. r \in Receivers /\ Open(r)
    BY <1>1, TicketAssumption DEF IInv, TicketInv, Working
  <1>3. PoolAction
    BY <1>1, <1>2 DEF PoolAction
  <1>4. PoolInv' /\ CreditedToOneReceiver' /\ Grows
    BY <1>3, PoolPreserved, PoolGrows DEF IInv
  <1>5. /\ freeing' = [freeing EXCEPT ![r] = "receive"] /\ atClose' = [atClose EXCEPT ![r] = seenPendings[r]]
        /\ UNCHANGED <<account, seenPendings, receivable>>
    BY <1>1 DEF Close
  <1>6. \A q \in Receivers \ {r} : Open(q)' <=> Open(q)
    BY <1>5 DEF Open, Closed, IInv, PoolInv, PoolTypes
  <1>7. TicketTypes'
    BY <1>1 DEF IInv, TicketTypes
  <1>8. ticket'[r] = "ended" /\ \A q \in Tickets \ {r} : ticket'[q] = ticket[q]
    BY <1>1 DEF IInv, TicketTypes
  <1>9. TicketInv(r)'
    <2>1. Working(r)'
      BY <1>8 DEF Working
    <2>2. OneEntry(r)'
      BY <1>1, <1>8 DEF IInv, TicketInv, OneEntry
    <2>3. CreditedOpen(r)' = CreditedOpen(r)
      BY <1>2, <1>5 DEF CreditedOpen, Open, Closed, IInv, PoolInv, PoolTypes
    <2>4. Priced(r)'
      BY <1>1, <1>5, <1>8, <2>3 DEF IInv, TicketInv, Priced
    <2> QED BY <2>1, <2>2, <2>4 DEF TicketInv
  <1> QED BY <1>1, <1>4, <1>6, <1>7, <1>8, <1>9, TicketAssumption, OneTicket

-----------------------------------------------------------------------------
(* The specification                                                       *)

\* At the start nothing is shown, seen or paid.
LEMMA InitInv == Init => IInv
  <1> SUFFICES ASSUME Init PROVE IInv
    OBVIOUS
  <1>1. PoolInv /\ CreditedToOneReceiver
    BY PoolStarts DEF Init
  <1>2. TicketTypes
    BY DEF Init, TicketInit, TicketTypes, Ways
  <1>3. ASSUME NEW r \in Tickets PROVE TicketInv(r)
    <2>1. r \in Receivers /\ receivable[r] = <<0>>
      BY TicketAssumption DEF Init, PoolInit
    <2>2. Working(r) /\ OneEntry(r)
      BY DEF Init, TicketInit, Working, OneEntry
    <2>3. Priced(r)
      BY <2>1 DEF Init, TicketInit, Priced
    <2> QED BY <2>2, <2>3 DEF TicketInv
  <1> QED BY <1>1, <1>2, <1>3 DEF IInv

\* Nothing happens to the tickets.
LEMMA StutterStep == ASSUME IInv, UNCHANGED vars
                     PROVE  IInv'
  <1> USE DEF vars, ticketVars, flags
  <1>1. PoolInv' /\ CreditedToOneReceiver'
    BY PoolUnchanged DEF IInv
  <1>2. UNCHANGED <<account, seenPendings, receivable, freeing, atClose>>
    BY DEF poolVars, receiver, outcome
  <1>3. Grows
    BY <1>2, SameGrows DEF IInv
  <1>4. TicketTypes'
    BY DEF IInv, TicketTypes
  <1>5. ASSUME NEW q \in Tickets PROVE TicketInv(q)'
    <2>1. ticket[q] \notin {"none", "ended"} => Open(q)'
      BY <1>2 DEF IInv, TicketInv, Working, Open, Closed
    <2> QED BY <1>1, <1>3, <2>1, TicketStays
  <1> QED BY <1>1, <1>4, <1>5 DEF IInv

\* Steps in which no ticket takes part.
LEMMA PoolOnly ==
  ASSUME IInv,
         \/ Pool(CopyMonitored) \/ Pool(ReadFails) \/ Pool(LockReceiver) \/ Pool(UnlockReceiver)
         \/ \E a \in Accounts : Pool(DropAccount(a)) \/ \E p \in Payments : Pool(Pay(a, p))
         \/ \E p \in Payments : Pool(ProcessPayment(p))
         \/ \E r \in Receivers :
              \/ \E a \in Accounts : Pool(RequestAccount(r, a))
              \/ Pool(ReadPendings(r)) \/ Pool(RevertReceive(r)) \/ Pool(RevertSend(r)) \/ Pool(RevertSendErrs(r))
              \/ Pool(RevertFails(r)) \/ Pool(FreeReceive(r)) \/ Pool(FreeSend(r)) \/ Pool(FreeSendErrs(r))
              \/ Pool(ReturnAccount(r)) \/ Pool(FreeFails(r)) \/ Pool(FreeDone(r))
         \/ \E r \in Receivers \ Tickets : Pool(ReceivePayment(r)) \/ Pool(Close(r))
  PROVE  IInv'
  <1>1. PoolAction /\ UNCHANGED ticketVars
    BY DEF Pool, PoolAction
  <1>2. \A r \in Tickets : ~Close(r)
    <2> SUFFICES ASSUME NEW r \in Tickets, Close(r) PROVE FALSE
      OBVIOUS
    <2>1. r \in Receivers /\ freeing[r] = "no"
      BY TicketAssumption, PoolAssumption DEF Close, IInv, PoolInv, Ownership, Monitored, Closed
    <2>2. freeing'[r] = "receive"
      BY <2>1 DEF Close, IInv, PoolInv, PoolTypes
    <2>3. \/ UNCHANGED freeing
          \/ \E q \in Receivers \ {r} : \E s : freeing' = [freeing EXCEPT ![q] = s]
      <3>1. ASSUME NEW q \in Receivers \ Tickets, Close(q)
            PROVE  q # r /\ freeing' = [freeing EXCEPT ![q] = "receive"]
        BY <3>1 DEF Close
      <3>2. ASSUME NEW q \in Receivers,
                   \/ FreeReceive(q) \/ FreeSend(q) \/ FreeSendErrs(q) \/ ReturnAccount(q) \/ FreeFails(q)
                   \/ FreeDone(q)
            PROVE  q # r /\ \E s : freeing' = [freeing EXCEPT ![q] = s]
        BY <2>1, <3>2 DEF FreeReceive, FreeSend, FreeSendErrs, ReturnAccount, FreeFails, FreeDone
      <3>3. \/ UNCHANGED freeing
            \/ \E q \in Receivers \ Tickets : Close(q)
            \/ \E q \in Receivers :
                 \/ FreeReceive(q) \/ FreeSend(q) \/ FreeSendErrs(q) \/ ReturnAccount(q) \/ FreeFails(q)
                 \/ FreeDone(q)
        BY DEF Pool, CopyMonitored, ReadFails, LockReceiver, UnlockReceiver, DropAccount, Pay, ProcessPayment,
               RequestAccount, ReceivePayment, ReadPendings, RevertReceive, RevertSend, RevertSendErrs,
               RevertFails
      <3> QED BY <3>1, <3>2, <3>3
    <2> QED BY <2>1, <2>2, <2>3 DEF IInv, PoolInv, PoolTypes
  <1> QED BY <1>1, <1>2, OtherStep

\* Every step of a ticket, of its surroundings and of the pool keeps it.
LEMMA Preserved == IInv /\ [Next]_vars => IInv'
  <1>1. ASSUME IInv, Next PROVE IInv'
    BY <1>1, PoolOnly, RegisterStep, OutsideStep, TryStep, MoveStep, PlayStep, RefundStep, EndStep
       DEF Next, TicketWorker
  <1>2. ASSUME IInv, UNCHANGED vars PROVE IInv'
    BY <1>2, StutterStep
  <1> QED BY <1>1, <1>2

\* IInv holds in every state: the books of every receiver balance, and every ticket
\* keeps to one entry that was paid for.
THEOREM Inductive == Spec => []IInv
  BY InitInv, Preserved, PTL DEF Spec

\* The variables of the pool and of the tickets have their types: no amount, no
\* balance and no counter of the wait group is ever negative.
THEOREM TypeCorrect == Spec => []TypeOK
  <1>1. IInv => TypeOK
    BY DEF IInv, PoolInv, TicketTypes, TypeOK
  <1> QED BY <1>1, Inductive, PTL

\* An account goes back to the pool when all its receiver was credited with was
\* passed on or sent back (payment_account_pool.go:269-305).
THEOREM TicketsSettled == Spec => []ReturnedIsSettled
  <1>1. IInv => ReturnedIsSettled
    BY SettledWhenReturned DEF IInv
  <1> QED BY <1>1, Inductive, PTL

\* What an open receiver says is receivable is there to be sent, whichever refunds
\* were made or failed before (monitored_account.go:64-77).
THEOREM Receivable == Spec => []ReceivableIsThere
  <1>1. IInv => ReceivableIsThere
    BY ThereWhileMonitored DEF IInv
  <1> QED BY <1>1, Inductive, PTL

\* No payment is credited to two receivers while they are open, although addresses
\* are used again (payment_account_pool.go:72-90, 188).
THEOREM OneReceiver == Spec => []CreditedToOneReceiver
  <1>1. IInv => CreditedToOneReceiver
    BY DEF IInv
  <1> QED BY <1>1, Inductive, PTL

\* A ticket makes one entry, however often its worker tries
\* (manager.go:161, 236-244).
THEOREM Once == Spec => []EnqueuedOnce
  <1>1. IInv => EnqueuedOnce
    BY DEF IInv, TicketInv, OneEntry, EnqueuedOnce
  <1> QED BY <1>1, Inductive, PTL

\* The price of an entry that nobody forced or had sent back reaches the collector
\* account (manager.go:177-192, payment_account_pool.go:278-279).
THEOREM Collected == Spec => []PlayedIsCollected
  <1>1. ASSUME IInv PROVE PlayedIsCollected
    <2> SUFFICES ASSUME NEW r \in Tickets, enqueued[r] # <<>>, forced[r] = "no", refunded[r] = 0,
                        freeing[r] = "done"
                 PROVE  collected[r] >= Price[enqueued[r][1]]
      BY DEF PlayedIsCollected
    <2>1. r \in Receivers /\ CreditedOpen(r) = atClose[r]
      BY TicketAssumption DEF CreditedOpen, Closed
    <2>2. Price[enqueued[r][1]] <= Cardinality(atClose[r])
      BY <1>1, <2>1 DEF IInv, TicketInv, Priced
    <2>3. Cardinality(atClose[r]) <= collected[r] + refunded[r]
      BY <1>1, <2>1 DEF IInv, PoolInv, BooksBalance, Books
    <2>4. enqueued[r][1] \in Ways
      BY <1>1 DEF IInv, TicketTypes
    <2>5. /\ Price[enqueued[r][1]] \in Nat /\ Cardinality(atClose[r]) \in Nat
          /\ collected[r] \in Nat
      BY <1>1, <2>1, <2>4, Prices, NumbersOf DEF IInv
    <2> QED BY <2>2, <2>3, <2>5
  <1> QED BY <1>1, Inductive, PTL
=============================================================================
