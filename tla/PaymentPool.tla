----------------------------- MODULE PaymentPool -----------------------------
(***************************************************************************)
(* Payments into accounts that are monitored for a while                   *)
(* (server/components/payment), for one collector account.                 *)
(*                                                                         *)
(* One worker looks at the monitored accounts one after the other, a       *)
(* goroutine per closed receiver moves the funds to the collector account, *)
(* and the owner of a receiver reverts and closes it.  Every call to the   *)
(* node is a step of its own.  Amounts are counted in payments.            *)
(***************************************************************************)
EXTENDS Integers, Sequences, FiniteSets

CONSTANTS
  Accounts,   \* accounts of the wallet
  NoAccount,
  Receivers,  \* payment flows, in the order of their creation
  NoReceiver,
  Payments,   \* what people send to the accounts
  MaxReverts  \* bound on the reverts of a receiver

ASSUME PoolAssumption ==
  /\ NoAccount \notin Accounts /\ NoReceiver \notin Receivers
  /\ IsFiniteSet(Accounts) /\ IsFiniteSet(Receivers) /\ IsFiniteSet(Payments)
  /\ MaxReverts \in Nat

VARIABLES
  pendings,          \* confirmed payments of each account, not received
  onAccount,         \* the balance of each account
  coming,            \* payments not sent yet
  created,           \* accounts the wallet has created
  availableAccounts,
  account,           \* the account of each receiver
  monitoredAccounts, \* the receiver that monitors each account
  seenPendings,      \* of each receiver
  receivable,        \* its receivableBalance: all the Amounts it pointed to, the current one last
  inbox,             \* what its onPaymentReceived has for its owner: the Amount each points to
  mu,                \* who holds its mutex
  incremented,       \* the receivers with incrementedWaitingGroup
  waiting,           \* the counter of paymentWaitingGroup
  worker,            \* where the worker is: which receiver, and the payments read
  todo,              \* the receivers it has yet to look at
  freeing,           \* where freePreviouslyMonitoredAccount is
  collected,         \* sent to the collector account, by Sends that returned no error
  refunded,          \* sent back, by Sends that returned no error
  unanswered,        \* history: what left in Sends that returned an error
  atClose            \* payments credited when the receiver was closed

chain == <<pendings, onAccount, coming>>
accounts == <<created, availableAccounts>>
receiver == <<account, monitoredAccounts, seenPendings, receivable, inbox, mu>>
group == <<incremented, waiting>>
processing == <<worker, todo>>
outcome == <<collected, refunded, unanswered, atClose>>
poolVars == <<chain, accounts, receiver, group, processing, freeing, outcome>>

-----------------------------------------------------------------------------
Balance(r) == receivable[r][Len(receivable[r])]
Monitored(r) == \E a \in Accounts : monitoredAccounts[a] = r
Closed(r) == freeing[r] # "no"

\* Somebody sends a payment, in time or not, to an address that was shown.
Pay(a, p) ==
  /\ p \in coming
  /\ \E r \in Receivers : account[r] = a
  /\ coming' = coming \ {p}
  /\ pendings' = [pendings EXCEPT ![a] = @ \cup {p}]
  /\ UNCHANGED <<onAccount, accounts, receiver, group, processing, freeing, outcome>>

\* account.ReceivePendings, which may fail after the first payments.
Collect(a, ps) ==
  /\ onAccount' = [onAccount EXCEPT ![a] = @ + Cardinality(ps)]
  /\ pendings' = [pendings EXCEPT ![a] = @ \ ps]

\* account.Send, once the node has accepted it: it may return an error all the same.
Leaves(r) ==
  /\ Balance(r) <= onAccount[account[r]]
  /\ onAccount' = [onAccount EXCEPT ![account[r]] = @ - Balance(r)]

-----------------------------------------------------------------------------
(* Accounts                                                                *)

Empty(a) == onAccount[a] = 0 /\ pendings[a] = {}

\* Mutant: an account may be in use.
Available_InUse == Accounts

\* getAvailableAccount
Available == IF availableAccounts # {} THEN availableAccounts ELSE Accounts \ created

\* RequestAccount finds the account without a balance.
RequestAccount(r, a) ==
  /\ account[r] = NoAccount
  /\ a \in Available /\ Empty(a)
  /\ account' = [account EXCEPT ![r] = a]
  /\ availableAccounts' = availableAccounts \ {a}
  /\ created' = created \cup {a}
  /\ UNCHANGED <<chain, monitoredAccounts, seenPendings, receivable, inbox, mu, group, processing,
                 freeing, outcome>>

\* RequestAccount finds a balance, or fails to ask for it: either way the account
\* is out of the pool.
DropAccount(a) ==
  /\ a \in availableAccounts
  /\ availableAccounts' = availableAccounts \ {a}
  /\ UNCHANGED <<chain, created, receiver, group, processing, freeing, outcome>>

\* The rest of receivePaymentImpl.
ReceivePayment(r) ==
  /\ account[r] # NoAccount /\ ~Monitored(r) /\ ~Closed(r)
  /\ monitoredAccounts' = [monitoredAccounts EXCEPT ![account[r]] = r]
  /\ UNCHANGED <<chain, accounts, account, seenPendings, receivable, inbox, mu, group, processing,
                 freeing, outcome>>

-----------------------------------------------------------------------------
(* Worker                                                                  *)

Looking(at, r, ps) == [at |-> at, of |-> r, read |-> ps]
Idle == Looking("idle", NoReceiver, {})

\* processPayments copies the map.
CopyMonitored ==
  /\ worker = Idle /\ todo = {}
  /\ todo' = {r \in Receivers : Monitored(r)}
  /\ todo' # {}
  /\ UNCHANGED <<chain, accounts, receiver, group, worker, freeing, outcome>>

\* RPC.AccountsPending, of a receiver that may be closed by now.
ReadPendings(r) ==
  /\ worker = Idle /\ r \in todo
  /\ todo' = todo \ {r}
  /\ worker' = IF pendings[account[r]] = {} THEN Idle ELSE Looking("read", r, pendings[account[r]])
  /\ UNCHANGED <<chain, accounts, receiver, group, freeing, outcome>>

\* RPC.AccountsPending fails: the worker is started again.
ReadFails ==
  /\ worker = Idle /\ todo # {}
  /\ todo' = {}
  /\ UNCHANGED <<chain, accounts, receiver, group, worker, freeing, outcome>>

\* processPaymentsToAccount takes the mutex of the receiver.
LockReceiver ==
  /\ worker.at = "read"
  /\ mu[worker.of] = "free"
  /\ mu' = [mu EXCEPT ![worker.of] = "worker"]
  /\ worker' = Looking("locked", worker.of, worker.read \ seenPendings[worker.of])
  /\ UNCHANGED <<chain, accounts, account, monitoredAccounts, seenPendings, receivable, inbox, group,
                 todo, freeing, outcome>>

\* One payment it has not seen.
ProcessPayment(p) ==
  LET r == worker.of
      n == Len(receivable[r])
  IN  /\ worker.at = "locked" /\ p \in worker.read
      /\ worker' = [worker EXCEPT !.read = @ \ {p}]
      /\ seenPendings' = [seenPendings EXCEPT ![r] = @ \cup {p}]
      /\ receivable' = [receivable EXCEPT ![r][n] = @ + 1]
      /\ inbox' = IF Closed(r) THEN inbox ELSE [inbox EXCEPT ![r] = Append(@, n)]
      /\ IF r \in incremented
         THEN UNCHANGED group
         ELSE incremented' = incremented \cup {r} /\ waiting' = waiting + 1
      /\ UNCHANGED <<chain, accounts, account, monitoredAccounts, mu, todo, freeing, outcome>>

UnlockReceiver ==
  /\ worker.at = "locked" /\ worker.read = {}
  /\ mu' = [mu EXCEPT ![worker.of] = "free"]
  /\ worker' = Idle
  /\ UNCHANGED <<chain, accounts, account, monitoredAccounts, seenPendings, receivable, inbox, group,
                 todo, freeing, outcome>>

-----------------------------------------------------------------------------
(* Revert and Close, called by the owner of the receiver                   *)

RevertLock(r) ==
  /\ mu[r] = "free"
  /\ Len(receivable[r]) <= MaxReverts
  /\ mu' = [mu EXCEPT ![r] = "receive"]
  /\ UNCHANGED <<chain, accounts, account, monitoredAccounts, seenPendings, receivable, inbox, group,
                 processing, freeing, outcome>>

\* Again after an attempt failed.
RevertReceive(r) ==
  /\ mu[r] \in {"receive", "send"}
  /\ \E ps \in SUBSET pendings[account[r]] :
       /\ Collect(account[r], ps)
       /\ mu' = [mu EXCEPT ![r] = IF ps = pendings[account[r]] THEN "send" ELSE "receive"]
  /\ UNCHANGED <<coming, accounts, account, monitoredAccounts, seenPendings, receivable, inbox, group,
                 processing, freeing, outcome>>

\* Mutant: what was sent back stays receivable.
RevertSend_NoReset(r) ==
  /\ mu[r] = "send" /\ Leaves(r)
  /\ refunded' = [refunded EXCEPT ![r] = @ + Balance(r)]
  /\ mu' = [mu EXCEPT ![r] = "free"]
  /\ UNCHANGED <<pendings, coming, accounts, account, monitoredAccounts, seenPendings, receivable, inbox,
                 group, processing, freeing, collected, unanswered, atClose>>

\* What is receivable is sent back, and counted anew.
RevertSend(r) ==
  /\ mu[r] = "send" /\ Leaves(r)
  /\ refunded' = [refunded EXCEPT ![r] = @ + Balance(r)]
  /\ receivable' = [receivable EXCEPT ![r] = Append(@, 0)]
  /\ mu' = [mu EXCEPT ![r] = "free"]
  /\ UNCHANGED <<pendings, coming, accounts, account, monitoredAccounts, seenPendings, inbox, group,
                 processing, freeing, collected, unanswered, atClose>>

\* The same, and Send returns an error: what is receivable stays, and the next
\* attempt sends it again.
RevertSendErrs(r) ==
  /\ mu[r] = "send" /\ Balance(r) > 0 /\ Leaves(r)
  /\ unanswered' = [unanswered EXCEPT ![r] = @ + Balance(r)]
  /\ mu' = [mu EXCEPT ![r] = "receive"]
  /\ UNCHANGED <<pendings, coming, accounts, account, monitoredAccounts, seenPendings, receivable, inbox,
                 group, processing, freeing, collected, refunded, atClose>>

\* Five attempts fail.
RevertFails(r) ==
  /\ mu[r] \in {"receive", "send"}
  /\ mu' = [mu EXCEPT ![r] = "free"]
  /\ UNCHANGED <<chain, accounts, account, monitoredAccounts, seenPendings, receivable, inbox, group,
                 processing, freeing, outcome>>

Close(r) ==
  /\ mu[r] = "free"
  /\ Monitored(r)
  /\ monitoredAccounts' = [monitoredAccounts EXCEPT ![account[r]] = NoReceiver]
  /\ freeing' = [freeing EXCEPT ![r] = "receive"]
  /\ atClose' = [atClose EXCEPT ![r] = seenPendings[r]]
  /\ UNCHANGED <<chain, accounts, account, seenPendings, receivable, inbox, mu, group, processing,
                 collected, refunded, unanswered>>

-----------------------------------------------------------------------------
(* freePreviouslyMonitoredAccount, without the mutex of the receiver       *)

FreeReceive(r) ==
  /\ freeing[r] \in {"receive", "send"}
  /\ \E ps \in SUBSET pendings[account[r]] :
       /\ Collect(account[r], ps)
       /\ freeing' = [freeing EXCEPT ![r] = IF ps = pendings[account[r]] THEN "send" ELSE "receive"]
  /\ UNCHANGED <<coming, accounts, receiver, group, processing, outcome>>

\* With nothing receivable, nothing is sent.
FreeSend(r) ==
  /\ freeing[r] = "send" /\ Leaves(r)
  /\ collected' = [collected EXCEPT ![r] = @ + Balance(r)]
  /\ freeing' = [freeing EXCEPT ![r] = "return"]
  /\ UNCHANGED <<pendings, coming, accounts, receiver, group, processing, refunded, unanswered, atClose>>

\* The same, and Send returns an error: the next attempt sends it again.
FreeSendErrs(r) ==
  /\ freeing[r] = "send" /\ Balance(r) > 0 /\ Leaves(r)
  /\ unanswered' = [unanswered EXCEPT ![r] = @ + Balance(r)]
  /\ freeing' = [freeing EXCEPT ![r] = "receive"]
  /\ UNCHANGED <<pendings, coming, accounts, receiver, group, processing, collected, refunded, atClose>>

ReturnAccount(r) ==
  /\ freeing[r] = "return"
  /\ availableAccounts' = availableAccounts \cup {account[r]}
  /\ freeing' = [freeing EXCEPT ![r] = "returned"]
  /\ UNCHANGED <<chain, created, receiver, group, processing, outcome>>

\* Mutant: the account is returned all the same.
FreeFails_Returns(r) ==
  /\ freeing[r] \in {"receive", "send"}
  /\ freeing' = [freeing EXCEPT ![r] = "return"]
  /\ UNCHANGED <<chain, accounts, receiver, group, processing, outcome>>

\* Five attempts fail: the account does not go back to the pool.
FreeFails(r) ==
  /\ freeing[r] \in {"receive", "send"}
  /\ freeing' = [freeing EXCEPT ![r] = "failed"]
  /\ UNCHANGED <<chain, accounts, receiver, group, processing, outcome>>

\* Mutant: whether there was a payment is not looked at.
FreeDone_Always(r) ==
  /\ freeing[r] \in {"returned", "failed"}
  /\ freeing' = [freeing EXCEPT ![r] = IF @ = "returned" THEN "done" ELSE "given up"]
  /\ waiting' = waiting - 1
  /\ UNCHANGED <<chain, accounts, receiver, incremented, processing, outcome>>

\* The deferred function.
FreeDone(r) ==
  /\ freeing[r] \in {"returned", "failed"}
  /\ freeing' = [freeing EXCEPT ![r] = IF @ = "returned" THEN "done" ELSE "given up"]
  /\ waiting' = IF r \in incremented THEN waiting - 1 ELSE waiting
  /\ UNCHANGED <<chain, accounts, receiver, incremented, processing, outcome>>

-----------------------------------------------------------------------------
PoolInit ==
  /\ pendings = [a \in Accounts |-> {}]
  /\ onAccount = [a \in Accounts |-> 0]
  /\ coming = Payments
  /\ created = {} /\ availableAccounts = {}
  /\ account = [r \in Receivers |-> NoAccount]
  /\ monitoredAccounts = [a \in Accounts |-> NoReceiver]
  /\ seenPendings = [r \in Receivers |-> {}]
  /\ receivable = [r \in Receivers |-> <<0>>]
  /\ inbox = [r \in Receivers |-> <<>>]
  /\ mu = [r \in Receivers |-> "free"]
  /\ incremented = {} /\ waiting = 0
  /\ worker = Idle /\ todo = {}
  /\ freeing = [r \in Receivers |-> "no"]
  /\ collected = [r \in Receivers |-> 0]
  /\ refunded = [r \in Receivers |-> 0]
  /\ unanswered = [r \in Receivers |-> 0]
  /\ atClose = [r \in Receivers |-> {}]

-----------------------------------------------------------------------------
(* Properties                                                              *)

PoolTypes ==
  /\ pendings \in [Accounts -> SUBSET Payments]
  /\ onAccount \in [Accounts -> Nat]
  /\ coming \subseteq Payments
  /\ created \subseteq Accounts /\ availableAccounts \subseteq created
  /\ account \in [Receivers -> Accounts \cup {NoAccount}]
  /\ monitoredAccounts \in [Accounts -> Receivers \cup {NoReceiver}]
  /\ seenPendings \in [Receivers -> SUBSET Payments]
  /\ receivable \in [Receivers -> Seq(Nat)]
  /\ inbox \in [Receivers -> Seq(Nat)]
  /\ mu \in [Receivers -> {"free", "worker", "receive", "send"}]
  /\ incremented \subseteq Receivers /\ waiting \in Nat
  /\ worker \in [at : {"idle", "read", "locked"}, of : Receivers \cup {NoReceiver}, read : SUBSET Payments]
  /\ todo \subseteq Receivers
  /\ freeing \in [Receivers -> {"no", "receive", "send", "return", "returned", "failed", "done", "given up"}]
  /\ collected \in [Receivers -> Nat] /\ refunded \in [Receivers -> Nat]
  /\ unanswered \in [Receivers -> Nat]
  /\ atClose \in [Receivers -> SUBSET Payments]

\* A receiver whose account went back to the pool has passed on all it had been
\* credited with when it was closed, to the collector or back to where it came from,
\* by Sends that returned no error, and nothing it was not credited with.  What left
\* in Sends that returned an error comes on top: it is sent again, from whatever else
\* is on the account, or the account is given up (payment_account_pool.go:269-305).
ReturnedIsSettled ==
  \A r \in Receivers :
    freeing[r] \in {"returned", "done"} =>
      /\ Cardinality(atClose[r]) <= collected[r] + refunded[r]
      /\ collected[r] + refunded[r] <= Cardinality(seenPendings[r])

\* While a receiver is open, what it says is receivable is there to be sent, on the
\* account or pending, whatever was received, sent back or failed before, but for
\* what left in its own refunds whose Send returned an error: only they can make a
\* revert or the final transfer lack funds, by what they took and no more, and no
\* other receiver ever does (monitored_account.go:58-77).
ReceivableIsThere ==
  \A r \in Receivers : Monitored(r) =>
    Balance(r) <= onAccount[account[r]] + Cardinality(pendings[account[r]] \cap seenPendings[r])
                    + unanswered[r]

\* No payment is credited to two receivers while they are open, although addresses
\* are used again and each receiver starts with nothing seen
\* (payment_account_pool.go:72-90, 188).
CreditedOpen(r) == IF Closed(r) THEN atClose[r] ELSE seenPendings[r]

CreditedToOneReceiver ==
  \A r, q \in Receivers : r # q => CreditedOpen(r) \cap CreditedOpen(q) = {}

\* "we are probably yet to send money from the payment accounts to the collector
\* account / wait for those goroutines to finish" (rewards/distribution.go:201-202):
\* while there is something to wait for, there is a receiver that is open or being
\* freed.
AwaitedAreRunning ==
  waiting > 0 => \E r \in Receivers : Monitored(r) \/ freeing[r] \notin {"no", "done", "given up"}
=============================================================================
