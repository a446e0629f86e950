---------------------------- MODULE EnqueueTicket ----------------------------
(***************************************************************************)
(* Tickets: requests to enqueue that wait for their payment                *)
(* (server/components/enqueuemanager/manager.go).  Each owns a receiver of *)
(* PaymentPool and has a worker, whose loop is one step per choice of its  *)
(* select and one per call that others can come in between.  The other     *)
(* receivers belong to conversions of Banano to points and to              *)
(* applications, which only close them.                                    *)
(***************************************************************************)
EXTENDS PaymentPool

CONSTANTS
  Tickets,   \* the receivers of tickets
  EnqueuePrice, PlayAfterCurrentPrice, PlayNowPrice,
  Concealed, \* tickets whose entry costs points
  Forced     \* the ways in which moderators force tickets

ASSUME TicketAssumption ==
  /\ EnqueuePrice \in Nat /\ PlayAfterCurrentPrice \in Nat /\ PlayNowPrice \in Nat
  /\ 0 < EnqueuePrice /\ EnqueuePrice <= PlayAfterCurrentPrice
  /\ PlayAfterCurrentPrice <= PlayNowPrice
  /\ Tickets \subseteq Receivers /\ Concealed \subseteq Tickets
  /\ Forced \subseteq {"Enqueue", "PlayAfterCurrent", "PlayNow"}

VARIABLES
  ticket,        \* where the worker of each ticket is
  lastSeen,      \* lastSeenBalance: which Amount of the receiver, 0 before any payment
  playFn,        \* how the entry is about to be enqueued
  enqueued,      \* how it was: one element each time
  paid, failed,  \* tickets with paid, with failedInsufficientPoints
  statusChanged, \* tickets whose channel holds a notification
  clock,         \* of each ticket: "active", "expired" or a minute "later"
  forced         \* how a moderator wants it enqueued

flags == <<paid, failed, statusChanged>>
ticketVars == <<ticket, lastSeen, playFn, enqueued, flags, clock, forced>>
vars == <<poolVars, ticketVars>>

Ways == {"Enqueue", "PlayAfterCurrent", "PlayNow"}

Price == [Enqueue |-> EnqueuePrice, PlayAfterCurrent |-> PlayAfterCurrentPrice, PlayNow |-> PlayNowPrice]

\* The first of these that holds.
Status(r) ==
  IF r \in failed THEN "FAILED_INSUFFICIENT_POINTS"
  ELSE IF r \in paid THEN "PAID"
  ELSE IF clock[r] # "active" THEN "EXPIRED" ELSE "ACTIVE"

-----------------------------------------------------------------------------
(* The surroundings                                                        *)

\* RegisterRequest, once it has a receiver.
RegisterRequest(r) ==
  /\ ReceivePayment(r)
  /\ ticket[r] = "none"
  /\ ticket' = [ticket EXCEPT ![r] = "select"]
  /\ UNCHANGED <<lastSeen, playFn, enqueued, flags, clock, forced>>

\* ForciblyEnqueueTicket
ForceEnqueuing(r, way) ==
  /\ ticket[r] # "none" /\ Status(r) = "ACTIVE"
  /\ forced' = [forced EXCEPT ![r] = way]
  /\ UNCHANGED <<poolVars, ticket, lastSeen, playFn, enqueued, flags, clock>>

\* The timers of a ticket.
TimePasses(r) ==
  /\ ticket[r] \notin {"none", "ended"}
  /\ clock' = [clock EXCEPT ![r] = CASE @ = "active" -> "expired" [] OTHER -> "later"]
  /\ UNCHANGED <<poolVars, ticket, lastSeen, playFn, enqueued, flags, forced>>

-----------------------------------------------------------------------------
(* The select of the worker                                                *)

\* An amount that Revert replaced keeps its value; the current one grows.
Seen(r) == IF lastSeen'[r] = 0 THEN 0 ELSE receivable[r][lastSeen'[r]]

\* Mutant: off by one.
Affordable_OffByOne(r) ==
  {w \in Ways : Seen(r) + 1 >= Price[w] \/ forced[r] = w}

\* What tryEnqueuingTicket makes of the balance.
Affordable(r) ==
  {w \in Ways : Seen(r) >= Price[w] \/ forced[r] = w}

\* The dearest comes first.
Best(ways) ==
  IF "PlayNow" \in ways THEN "PlayNow"
  ELSE IF "PlayAfterCurrent" \in ways THEN "PlayAfterCurrent" ELSE "Enqueue"

\* Mutant: the ticket may be paid.
TryEnqueuing_Again(r) ==
  IF Affordable(r) = {}
  THEN UNCHANGED <<ticket, playFn>>
  ELSE /\ ticket' = [ticket EXCEPT ![r] = "try"]
       /\ playFn' = [playFn EXCEPT ![r] = Best(Affordable(r))]

\* tryEnqueuingTicket, up to the check of the ban.
TryEnqueuing(r) ==
  IF Status(r) = "PAID" \/ Affordable(r) = {}
  THEN UNCHANGED <<ticket, playFn>>
  ELSE /\ ticket' = [ticket EXCEPT ![r] = "try"]
       /\ playFn' = [playFn EXCEPT ![r] = Best(Affordable(r))]

\* case paymentArgs := <-onPaymentReceived
PaymentReceived(r) ==
  /\ ticket[r] = "select"
  /\ inbox[r] # <<>>
  /\ inbox' = [inbox EXCEPT ![r] = Tail(@)]
  /\ lastSeen' = [lastSeen EXCEPT ![r] = Head(inbox[r])]
  /\ TryEnqueuing(r)
  /\ UNCHANGED <<chain, accounts, account, monitoredAccounts, seenPendings, receivable, mu, group,
                 processing, freeing, outcome, enqueued, flags, clock, forced>>

\* case <-checkForcedEnqueuingTicker.C
CheckForcedEnqueuing(r) ==
  /\ ticket[r] = "select"
  /\ lastSeen' = lastSeen
  /\ TryEnqueuing(r)
  /\ UNCHANGED <<poolVars, enqueued, flags, clock, forced>>

\* case <-onStatusChanged
StatusChanged(r) ==
  /\ ticket[r] = "select"
  /\ r \in statusChanged
  /\ statusChanged' = statusChanged \ {r}
  /\ ticket' = IF r \in paid \cup failed THEN [ticket EXCEPT ![r] = "close"] ELSE ticket
  /\ UNCHANGED <<poolVars, lastSeen, playFn, enqueued, paid, failed, clock, forced>>

\* case <-expirationTimer.C; multicurrency data notify in the same way.
NotifyStatus(r) ==
  /\ ticket[r] = "select"
  /\ clock[r] # "active"
  /\ statusChanged' = statusChanged \cup {r}
  /\ UNCHANGED <<poolVars, ticket, lastSeen, playFn, enqueued, paid, failed, clock, forced>>

\* Mutant: a ticket somebody has begun to pay is kept.
Expire_KeepsPartlyPaid(r) ==
  /\ ticket[r] = "select"
  /\ clock[r] = "later" /\ lastSeen[r] = 0
  /\ ticket' = [ticket EXCEPT ![r] = "close"]
  /\ UNCHANGED <<poolVars, lastSeen, playFn, enqueued, flags, clock, forced>>

\* case <-actualExpirationTimer.C
Expire(r) ==
  /\ ticket[r] = "select"
  /\ clock[r] = "later"
  /\ ticket' = [ticket EXCEPT ![r] = "close"]
  /\ UNCHANGED <<poolVars, lastSeen, playFn, enqueued, flags, clock, forced>>

-----------------------------------------------------------------------------
(* The rest of tryEnqueuingTicket                                          *)

\* The requester is banned by now: it gets a refund, and the ticket stays as it is.
Banned(r) ==
  /\ ticket[r] = "try"
  /\ RevertLock(r)
  /\ ticket' = [ticket EXCEPT ![r] = "revert"]
  /\ UNCHANGED <<lastSeen, playFn, enqueued, flags, clock, forced>>

NotBanned(r) ==
  /\ ticket[r] = "try"
  /\ ticket' = [ticket EXCEPT ![r] = IF r \in Concealed THEN "deduct" ELSE "play"]
  /\ UNCHANGED <<poolVars, lastSeen, playFn, enqueued, flags, clock, forced>>

\* deductConcealedTicketPoints; whether there are enough by now is left open.
DeductPoints(r) ==
  /\ ticket[r] = "deduct"
  /\ ticket' = [ticket EXCEPT ![r] = "play"]
  /\ UNCHANGED <<poolVars, lastSeen, playFn, enqueued, flags, clock, forced>>

\* SetFailedDueToInsufficientPoints, and the refund.
InsufficientPoints(r) ==
  /\ ticket[r] = "deduct"
  /\ RevertLock(r)
  /\ ticket' = [ticket EXCEPT ![r] = "revert"]
  /\ failed' = failed \cup {r}
  /\ statusChanged' = IF r \in failed THEN statusChanged ELSE statusChanged \cup {r}
  /\ UNCHANGED <<lastSeen, playFn, enqueued, paid, clock, forced>>

\* The database fails: the worker ends.
DeductFails(r) ==
  /\ ticket[r] = "deduct"
  /\ ticket' = [ticket EXCEPT ![r] = "close"]
  /\ UNCHANGED <<poolVars, lastSeen, playFn, enqueued, flags, clock, forced>>

\* Revert returns.
Reverted(r) ==
  /\ ticket[r] = "revert"
  /\ mu[r] \notin {"receive", "send"}
  /\ ticket' = [ticket EXCEPT ![r] = "select"]
  /\ UNCHANGED <<poolVars, lastSeen, playFn, enqueued, flags, clock, forced>>

\* playFn and SetPaid, which fails for a ticket that has failed.
Play(r) ==
  /\ ticket[r] = "play"
  /\ enqueued' = [enqueued EXCEPT ![r] = Append(@, playFn[r])]
  /\ IF r \in failed
     THEN ticket' = [ticket EXCEPT ![r] = "close"] /\ UNCHANGED flags
     ELSE /\ ticket' = [ticket EXCEPT ![r] = "select"]
          /\ paid' = paid \cup {r}
          /\ statusChanged' = statusChanged \cup {r}
          /\ UNCHANGED failed
  /\ UNCHANGED <<poolVars, lastSeen, playFn, clock, forced>>

\* The deferred calls of the worker.
EndTicket(r) ==
  /\ ticket[r] = "close"
  /\ Close(r)
  /\ ticket' = [ticket EXCEPT ![r] = "ended"]
  /\ UNCHANGED <<lastSeen, playFn, enqueued, flags, clock, forced>>

-----------------------------------------------------------------------------
TicketInit ==
  /\ ticket = [r \in Tickets |-> "none"]
  /\ lastSeen = [r \in Tickets |-> 0]
  /\ playFn = [r \in Tickets |-> "Enqueue"]
  /\ enqueued = [r \in Tickets |-> <<>>]
  /\ paid = {} /\ failed = {} /\ statusChanged = {}
  /\ clock = [r \in Tickets |-> "active"]
  /\ forced = [r \in Tickets |-> "no"]

Init == PoolInit /\ TicketInit

TicketWorker(r) ==
  \/ PaymentReceived(r) \/ CheckForcedEnqueuing(r) \/ StatusChanged(r) \/ NotifyStatus(r) \/ Expire(r)
  \/ Banned(r) \/ NotBanned(r) \/ DeductPoints(r) \/ InsufficientPoints(r) \/ DeductFails(r) \/ Reverted(r)
  \/ Play(r) \/ EndTicket(r)

\* A step of the pool, or of the owner of another receiver.
Pool(A) == A /\ UNCHANGED ticketVars

Next ==
  \/ Pool(CopyMonitored) \/ Pool(ReadFails) \/ Pool(LockReceiver) \/ Pool(UnlockReceiver)
  \/ \E a \in Accounts : Pool(DropAccount(a)) \/ \E p \in Payments : Pool(Pay(a, p))
  \/ \E p \in Payments : Pool(ProcessPayment(p))
  \/ \E r \in Receivers :
       \/ \E a \in Accounts : Pool(RequestAccount(r, a))
       \/ Pool(ReadPendings(r)) \/ Pool(RevertReceive(r)) \/ Pool(RevertSend(r)) \/ Pool(RevertSendErrs(r))
       \/ Pool(RevertFails(r))
       \/ Pool(FreeReceive(r)) \/ Pool(FreeSend(r)) \/ Pool(FreeSendErrs(r)) \/ Pool(ReturnAccount(r))
       \/ Pool(FreeFails(r)) \/ Pool(FreeDone(r))
  \/ \E r \in Receivers \ Tickets : Pool(ReceivePayment(r)) \/ Pool(Close(r))
  \/ \E r \in Tickets : \/ RegisterRequest(r) \/ TimePasses(r) \/ TicketWorker(r)
                        \/ \E way \in Forced : ForceEnqueuing(r, way)

Spec == Init /\ [][Next]_vars

\* Goroutines are scheduled, calls to the node return and timers expire; a select
\* picks at random among the cases that are ready, so none is passed over for ever.
Fairness ==
  /\ WF_vars(Pool(UnlockReceiver) \/ \E p \in Payments : Pool(ProcessPayment(p)))
  /\ \A r \in Tickets :
       /\ WF_vars(TimePasses(r)) /\ SF_vars(Expire(r))
       /\ WF_vars(Banned(r) \/ NotBanned(r)) /\ WF_vars(Reverted(r)) /\ WF_vars(Play(r))
       /\ WF_vars(DeductPoints(r) \/ InsufficientPoints(r) \/ DeductFails(r))
       /\ WF_vars(Pool(RevertSend(r)) \/ Pool(RevertFails(r)))
       /\ SF_vars(EndTicket(r))
       /\ WF_vars(Pool(FreeSend(r)) \/ Pool(FreeFails(r)))
       /\ WF_vars(Pool(ReturnAccount(r)) \/ Pool(FreeDone(r)))

FairSpec == Spec /\ Fairness
-----------------------------------------------------------------------------
(* Properties                                                              *)

TypeOK ==
  /\ PoolTypes
  /\ ticket \in [Tickets -> {"none", "select", "try", "deduct", "revert", "play", "close", "ended"}]
  /\ lastSeen \in [Tickets -> Nat]
  /\ playFn \in [Tickets -> Ways]
  /\ enqueued \in [Tickets -> Seq(Ways)]
  /\ paid \subseteq Tickets /\ failed \subseteq Tickets /\ statusChanged \subseteq Tickets
  /\ clock \in [Tickets -> {"active", "expired", "later"}]
  /\ forced \in [Tickets -> Ways \cup {"no"}]

\* A ticket makes one entry, however often its worker tries, and a ticket that has
\* made one is paid or has failed before (manager.go:161, 236-244).
EnqueuedOnce ==
  \A r \in Tickets : /\ Len(enqueued[r]) <= 1
                     /\ r \in paid => Len(enqueued[r]) = 1
                     /\ enqueued[r] # <<>> => r \in paid \cup failed

\* An entry that no moderator forced, of a ticket that did not fail and whose
\* payments were not sent back, has its price on the collector account once the
\* account is free again (manager.go:177-192, payment_account_pool.go:278-279).
PlayedIsCollected ==
  \A r \in Tickets :
    enqueued[r] # <<>> /\ forced[r] = "no" /\ refunded[r] = 0 /\ freeing[r] = "done"
      => collected[r] >= Price[enqueued[r][1]]

\* The account of every ticket is passed on or given up in the end, whatever
\* payments, refunds and moderators do with the ticket (manager.go:466-478, 506-507).
TicketsEnd ==
  \A r \in Tickets : ticket[r] # "none" ~> freeing[r] \in {"done", "given up"}
=============================================================================
