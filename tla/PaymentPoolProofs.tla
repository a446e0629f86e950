--------------------------- MODULE PaymentPoolProofs ---------------------------
(***************************************************************************)
(* What every step of PaymentPool preserves, whoever reverts and closes    *)
(* the receivers: nobody shares an account that is in use, what a receiver *)
(* says is receivable is there, and its books balance.                     *)
(***************************************************************************)
EXTENDS PaymentPool, FiniteSetTheorems, TLAPS

\* Nobody else may have the account of r: it has not gone back to the pool.
Owner(r) == account[r] # NoAccount /\ freeing[r] \notin {"returned", "done"}

\* Of what r was credited with, something may still be pending.
NotEmptied(r) == freeing[r] \in {"no", "receive", "failed", "given up"}

\* A flow that has begun and was not closed.
Open(r) == account[r] # NoAccount /\ ~Closed(r)

-----------------------------------------------------------------------------
(* The inductive invariant                                                 *)

\* There is a current Amount, and notifications point to one that exists.
Amounts ==
  \A r \in Receivers : /\ receivable[r] # <<>>
                       /\ \A i \in 1 .. Len(inbox[r]) : inbox[r][i] <= Len(receivable[r])

Ownership ==
  /\ \A a \in Accounts, r \in Receivers : monitoredAccounts[a] = r => account[r] = a /\ ~Closed(r)
  /\ \A r \in Receivers : Owner(r) => account[r] \in created \ availableAccounts
  /\ \A r, q \in Receivers : r # q /\ Owner(r) /\ Owner(q) => account[r] # account[q]

\* Nothing happens to a receiver before it has an account.
Untouched ==
  \A r \in Receivers :
    account[r] = NoAccount => freeing[r] = "no" /\ seenPendings[r] = {} /\ receivable[r] = <<0>>

\* Reverting and closing exclude each other.
RevertsWhileOpen == \A r \in Receivers : mu[r] \in {"receive", "send"} => Open(r)

InOnePlace ==
  \A p \in Payments, a \in Accounts : p \in pendings[a] =>
    p \notin coming /\ \A b \in Accounts : p \in pendings[b] => a = b

\* What the worker has read for an open receiver can be no one else's, even if it
\* was collected since; and it has yet to credit only what it has not seen.
WorkerOK ==
  /\ \A r \in todo : account[r] # NoAccount
  /\ worker.at = "idle" => worker = Idle
  /\ worker.at # "idle" => worker.of \in Receivers /\ account[worker.of] # NoAccount
  /\ worker.at = "locked" => worker.read \cap seenPendings[worker.of] = {}
  /\ worker.at # "idle" /\ ~Closed(worker.of) =>
       \A p \in worker.read :
         /\ p \notin coming
         /\ \A a \in Accounts : p \in pendings[a] => a = account[worker.of]
         /\ \A q \in Receivers \ {worker.of} : p \notin CreditedOpen(q)

\* What was credited is pending nowhere but on the account it was credited for.
CreditsInPlace ==
  \A r \in Receivers : \A p \in CreditedOpen(r) :
    /\ p \notin coming
    /\ \A a \in Accounts : p \in pendings[a] => a = account[r] /\ NotEmptied(r)

\* The payments the worker is about to credit to r.
Unread(r) == IF worker.at # "idle" /\ worker.of = r THEN worker.read \ seenPendings[r] ELSE {}

Funds(r) ==
  onAccount[account[r]] + Cardinality(pendings[account[r]] \cap seenPendings[r]) + unanswered[r]

\* What is there, or left in Sends that returned an error, is enough, also once the
\* worker has credited what was collected since it has read it.
Funded ==
  \A r \in Receivers : Open(r) =>
    Balance(r) + Cardinality(Unread(r) \ pendings[account[r]]) <= Funds(r)

\* Until the transfer, what was credited is receivable or was sent back; after it,
\* the transfer may only miss what was credited since the receiver was closed.
Books(r) ==
  /\ Closed(r) => atClose[r] \subseteq seenPendings[r]
  /\ freeing[r] \in {"no", "receive", "send", "failed", "given up"} =>
       collected[r] = 0 /\ Balance(r) + refunded[r] = Cardinality(seenPendings[r])
  /\ freeing[r] \in {"return", "returned", "done"} =>
       /\ Cardinality(atClose[r]) <= collected[r] + refunded[r]
       /\ collected[r] + refunded[r] <= Cardinality(seenPendings[r])
  /\ \A i \in 1 .. (Len(receivable[r]) - 1) : receivable[r][i] <= refunded[r]

BooksBalance == \A r \in Receivers : Books(r)

\* The wait group counts at least the receivers that have yet to be freed.
Awaiting == {r \in incremented : freeing[r] \notin {"done", "given up"}}
Awaited == Cardinality(Awaiting) <= waiting

PoolInv ==
  /\ PoolTypes /\ Amounts /\ Ownership /\ Untouched /\ RevertsWhileOpen /\ InOnePlace
  /\ WorkerOK /\ CreditsInPlace /\ Funded /\ BooksBalance /\ Awaited

-----------------------------------------------------------------------------
(* Counting                                                                *)

\* Sets of payments and of receivers are finite.
LEMMA Counted ==
  /\ \A S \in SUBSET Payments : IsFiniteSet(S) /\ Cardinality(S) \in Nat
  /\ \A S \in SUBSET Receivers : IsFiniteSet(S) /\ Cardinality(S) \in Nat
  <1>1. ASSUME NEW U, IsFiniteSet(U), NEW S \in SUBSET U PROVE IsFiniteSet(S) /\ Cardinality(S) \in Nat
    BY <1>1, FS_Subset, FS_CardinalityType
  <1> QED BY <1>1, PoolAssumption

\* The number of a smaller set of payments.
LEMMA FewerPayments ==
  ASSUME NEW S \in SUBSET Payments, NEW T \in SUBSET S
  PROVE  Cardinality(T) <= Cardinality(S) /\ Cardinality(T) \in Nat /\ Cardinality(S) \in Nat
  BY Counted, FS_Subset

\* A set of payments, split by another.
LEMMA SplitPayments ==
  ASSUME NEW S \in SUBSET Payments, NEW T \in SUBSET Payments
  PROVE  Cardinality(S) = Cardinality(S \cap T) + Cardinality(S \ T)
  <1>1. S = (S \cap T) \cup (S \ T) /\ (S \cap T) \cap (S \ T) = {}
    OBVIOUS
  <1>2. /\ IsFiniteSet(S \cap T) /\ Cardinality(S \cap T) \in Nat
        /\ IsFiniteSet(S \ T) /\ Cardinality(S \ T) \in Nat
    BY Counted
  <1>3. Cardinality((S \cap T) \cap (S \ T)) = 0
    BY <1>1, FS_EmptySet
  <1>4. Cardinality((S \cap T) \cup (S \ T))
          = Cardinality(S \cap T) + Cardinality(S \ T) - Cardinality((S \cap T) \cap (S \ T))
    BY <1>2, FS_Union
  <1> QED BY <1>1, <1>2, <1>3, <1>4

\* Collecting some of what is pending on an account makes up for what was seen of it
\* and for what was read of it and not seen.
LEMMA CollectedIsEnough ==
  ASSUME NEW pend \in SUBSET Payments, NEW seen \in SUBSET Payments, NEW unread \in SUBSET Payments,
         unread \cap seen = {}, NEW ps \in SUBSET pend
  PROVE  Cardinality(unread \ (pend \ ps)) + Cardinality(pend \cap seen)
           <= Cardinality(unread \ pend) + Cardinality(ps) + Cardinality((pend \ ps) \cap seen)
  <1>1. Cardinality(unread \ (pend \ ps)) = Cardinality(unread \cap ps) + Cardinality(unread \ pend)
    <2>1. (unread \ (pend \ ps)) \cap ps = unread \cap ps /\ (unread \ (pend \ ps)) \ ps = unread \ pend
      OBVIOUS
    <2> QED BY <2>1, SplitPayments
  <1>2. Cardinality(pend \cap seen) = Cardinality(ps \cap seen) + Cardinality((pend \ ps) \cap seen)
    <2>1. (pend \cap seen) \cap ps = ps \cap seen /\ (pend \cap seen) \ ps = (pend \ ps) \cap seen
      OBVIOUS
    <2>2. pend \cap seen \in SUBSET Payments /\ ps \in SUBSET Payments
      OBVIOUS
    <2> QED BY <2>1, <2>2, SplitPayments
  <1>3. Cardinality(unread \cap ps) + Cardinality(ps \cap seen) <= Cardinality(ps)
    <2>1. ps \cap seen \in SUBSET (ps \ unread) /\ ps \ unread \in SUBSET Payments /\ ps \cap unread = unread \cap ps
      OBVIOUS
    <2>2. Cardinality(ps \cap seen) <= Cardinality(ps \ unread)
      BY <2>1, FewerPayments
    <2>3. Cardinality(ps) = Cardinality(unread \cap ps) + Cardinality(ps \ unread)
      BY <2>1, SplitPayments
    <2>4. /\ Cardinality(unread \cap ps) \in Nat /\ Cardinality(ps \ unread) \in Nat
          /\ Cardinality(ps \cap seen) \in Nat
      BY Counted
    <2> QED BY <2>2, <2>3, <2>4
  <1>4. /\ Cardinality(unread \cap ps) \in Nat /\ Cardinality(unread \ pend) \in Nat
        /\ Cardinality(ps \cap seen) \in Nat /\ Cardinality((pend \ ps) \cap seen) \in Nat
        /\ Cardinality(ps) \in Nat
    BY Counted
  <1> QED BY <1>1, <1>2, <1>3, <1>4

\* What the counters of an open receiver are.
LEMMA NumbersOf ==
  ASSUME PoolInv, NEW r \in Receivers
  PROVE  /\ Balance(r) \in Nat /\ collected[r] \in Nat /\ refunded[r] \in Nat /\ unanswered[r] \in Nat
         /\ receivable[r] \in Seq(Nat) /\ Len(receivable[r]) \in Nat \ {0}
         /\ Cardinality(seenPendings[r]) \in Nat /\ Cardinality(atClose[r]) \in Nat
  <1>1. receivable[r] \in Seq(Nat) /\ receivable[r] # <<>>
    BY DEF PoolInv, PoolTypes, Amounts
  <1>2. Len(receivable[r]) \in Nat \ {0} /\ Balance(r) \in Nat
    BY <1>1 DEF Balance
  <1> QED BY <1>1, <1>2, Counted DEF PoolInv, PoolTypes

-----------------------------------------------------------------------------
(* Payments and accounts                                                   *)

\* A payment that is sent was credited to nobody.
LEMMA PayStep == ASSUME PoolInv, NEW a \in Accounts, NEW p \in Payments, Pay(a, p)
                 PROVE  PoolInv'
  <1>1. /\ p \in coming /\ coming' = coming \ {p}
        /\ pendings' = [pendings EXCEPT ![a] = @ \cup {p}]
        /\ UNCHANGED <<onAccount, accounts, receiver, group, processing, freeing, outcome>>
    BY DEF Pay
  <1> USE DEF accounts, receiver, group, processing, outcome
  <1>2. PoolTypes'
    BY <1>1 DEF PoolInv, PoolTypes
  <1>3. Amounts' /\ Ownership' /\ Untouched' /\ RevertsWhileOpen' /\ BooksBalance' /\ Awaited'
    <2>1. Amounts' /\ Untouched'
      BY <1>1 DEF PoolInv, Amounts, Untouched
    <2>2. Ownership'
      BY <1>1 DEF PoolInv, Ownership, Owner, Closed
    <2>3. RevertsWhileOpen'
      BY <1>1 DEF PoolInv, RevertsWhileOpen, Open, Closed
    <2>4. BooksBalance'
      BY <1>1 DEF PoolInv, BooksBalance, Books, Balance, Closed
    <2>5. Awaited'
      BY <1>1 DEF PoolInv, Awaited, Awaiting
    <2> QED BY <2>1, <2>2, <2>3, <2>4, <2>5
  <1>4. \A q \in Payments, b \in Accounts :
          /\ q \in pendings'[b] <=> q \in pendings[b] \/ (q = p /\ b = a)
          /\ q \in coming' <=> q \in coming /\ q # p
    BY <1>1 DEF PoolInv, PoolTypes
  <1>5. InOnePlace'
    BY <1>1, <1>4 DEF PoolInv, InOnePlace
  <1>6. worker.read \in SUBSET Payments /\ \A r \in Receivers : CreditedOpen(r) \in SUBSET Payments
    BY DEF PoolInv, PoolTypes, CreditedOpen
  <1>7. WorkerOK'
    BY <1>1, <1>4, <1>6 DEF PoolInv, WorkerOK, CreditedOpen, Closed, Idle
  <1>8. CreditsInPlace'
    <2>1. \A r \in Receivers : CreditedOpen(r)' = CreditedOpen(r) /\ (NotEmptied(r)' <=> NotEmptied(r))
      BY <1>1 DEF CreditedOpen, Closed, NotEmptied
    <2>2. ASSUME NEW r \in Receivers, NEW q \in CreditedOpen(r)
          PROVE  /\ q \notin coming'
                 /\ \A b \in Accounts : q \in pendings'[b] => b = account[r] /\ NotEmptied(r)
      BY <1>1, <1>4, <1>6 DEF PoolInv, CreditsInPlace
    <2> QED BY <1>1, <2>1, <2>2 DEF CreditsInPlace
  <1>9. Funded'
    <2> SUFFICES ASSUME NEW r \in Receivers, Open(r)
                 PROVE  Balance(r) + Cardinality(Unread(r) \ pendings'[account[r]])
                          <= onAccount[account[r]] + Cardinality(pendings'[account[r]] \cap seenPendings[r])
                               + unanswered[r]
      BY <1>1 DEF Funded, Open, Closed, Balance, Unread, Funds
    <2>1. Balance(r) + Cardinality(Unread(r) \ pendings[account[r]]) <= Funds(r)
      BY DEF PoolInv, Funded
    <2>2. account[r] \in Accounts /\ seenPendings[r] \in SUBSET Payments /\ Unread(r) \in SUBSET Payments
          /\ pendings[account[r]] \in SUBSET Payments
      BY DEF PoolInv, PoolTypes, Open, Unread
    <2>3. pendings[account[r]] \subseteq pendings'[account[r]] /\ pendings'[account[r]] \in SUBSET Payments
      BY <1>1, <2>2 DEF PoolInv, PoolTypes
    <2>4. /\ Cardinality(Unread(r) \ pendings'[account[r]]) <= Cardinality(Unread(r) \ pendings[account[r]])
          /\ Cardinality(pendings[account[r]] \cap seenPendings[r])
               <= Cardinality(pendings'[account[r]] \cap seenPendings[r])
      BY <2>2, <2>3, FewerPayments
    <2>5. /\ Cardinality(Unread(r) \ pendings'[account[r]]) \in Nat
          /\ Cardinality(Unread(r) \ pendings[account[r]]) \in Nat
          /\ Cardinality(pendings[account[r]] \cap seenPendings[r]) \in Nat
          /\ Cardinality(pendings'[account[r]] \cap seenPendings[r]) \in Nat
          /\ Balance(r) \in Nat /\ onAccount[account[r]] \in Nat /\ unanswered[r] \in Nat
      BY <2>2, <2>3, Counted, NumbersOf DEF PoolInv, PoolTypes
    <2> QED BY <2>1, <2>4, <2>5 DEF Funds
  <1> QED BY <1>2, <1>3, <1>5, <1>7, <1>8, <1>9 DEF PoolInv

-----------------------------------------------------------------------------
(* Steps that move no money                                                *)

\* A step that changes no account, no payment and no amount, after which the
\* worker is not about to credit more of what was collected.
LEMMA MoneyStays ==
  ASSUME PoolInv, PoolTypes', Ownership', RevertsWhileOpen', WorkerOK',
         UNCHANGED <<pendings, onAccount, coming, account, seenPendings, receivable, inbox, incremented,
                     waiting, freeing, collected, refunded, unanswered, atClose>>,
         \A r \in Receivers :
           Open(r) => Unread(r)' \ pendings[account[r]] \subseteq Unread(r) \ pendings[account[r]]
  PROVE  PoolInv'
  <1>1. Amounts' /\ Untouched' /\ InOnePlace' /\ BooksBalance' /\ Awaited'
    <2>1. Amounts' /\ Untouched'
      BY DEF PoolInv, Amounts, Untouched
    <2>2. InOnePlace'
      BY DEF PoolInv, InOnePlace
    <2>3. BooksBalance'
      BY DEF PoolInv, BooksBalance, Books, Balance, Closed
    <2>4. Awaited'
      BY DEF PoolInv, Awaited, Awaiting
    <2> QED BY <2>1, <2>2, <2>3, <2>4
  <1>2. CreditsInPlace'
    BY DEF PoolInv, CreditsInPlace, CreditedOpen, Closed, NotEmptied
  <1>3. Funded'
    <2> SUFFICES ASSUME NEW r \in Receivers, Open(r)
                 PROVE  Balance(r) + Cardinality(Unread(r)' \ pendings[account[r]]) <= Funds(r)
      BY DEF Funded, Open, Closed, Balance, Funds
    <2>1. Balance(r) + Cardinality(Unread(r) \ pendings[account[r]]) <= Funds(r)
      BY DEF PoolInv, Funded
    <2>2. Unread(r) \ pendings[account[r]] \in SUBSET Payments
      BY DEF PoolInv, PoolTypes, Unread
    <2>3. /\ Cardinality(Unread(r)' \ pendings[account[r]]) <= Cardinality(Unread(r) \ pendings[account[r]])
          /\ Cardinality(Unread(r)' \ pendings[account[r]]) \in Nat
          /\ Cardinality(Unread(r) \ pendings[account[r]]) \in Nat
      BY <2>2, FewerPayments
    <2>4. Balance(r) \in Nat /\ Funds(r) \in Nat
      <3>1. account[r] \in Accounts /\ pendings[account[r]] \cap seenPendings[r] \in SUBSET Payments
        BY DEF PoolInv, PoolTypes, Open
      <3>2. onAccount[account[r]] \in Nat /\ Cardinality(pendings[account[r]] \cap seenPendings[r]) \in Nat
        BY <3>1, Counted DEF PoolInv, PoolTypes
      <3> QED BY <3>2, NumbersOf DEF Funds
    <2> QED BY <2>1, <2>3, <2>4
  <1> QED BY <1>1, <1>2, <1>3 DEF PoolInv

\* An account leaves the pool, or is monitored from now on.
LEMMA AccountStep ==
  ASSUME PoolInv,
         (\E a \in Accounts : DropAccount(a)) \/ (\E r \in Receivers : ReceivePayment(r))
  PROVE  PoolInv'
  <1> USE DEF accounts, receiver, group, processing, outcome, chain
  <1>1. UNCHANGED <<pendings, onAccount, coming, account, seenPendings, receivable, inbox, incremented,
                    waiting, freeing, collected, refunded, unanswered, atClose, mu, worker, todo, created>>
    BY DEF DropAccount, ReceivePayment
  <1>2. PoolTypes' /\ Ownership'
    <2>1. ASSUME NEW a \in Accounts, DropAccount(a) PROVE PoolTypes' /\ Ownership'
      <3>1. availableAccounts' = availableAccounts \ {a} /\ UNCHANGED monitoredAccounts
        BY <2>1 DEF DropAccount
      <3>2. PoolTypes'
        BY <1>1, <3>1 DEF PoolInv, PoolTypes
      <3>3. Ownership'
        BY <1>1, <3>1 DEF PoolInv, Ownership, Owner, Closed
      <3> QED BY <3>2, <3>3
    <2>2. ASSUME NEW r \in Receivers, ReceivePayment(r) PROVE PoolTypes' /\ Ownership'
      <3>1. /\ account[r] \in Accounts /\ ~Closed(r)
            /\ monitoredAccounts' = [monitoredAccounts EXCEPT ![account[r]] = r]
            /\ UNCHANGED availableAccounts
        BY <2>2 DEF ReceivePayment, PoolInv, PoolTypes
      <3>2. PoolTypes'
        BY <1>1, <3>1 DEF PoolInv, PoolTypes
      <3>3. ASSUME NEW a \in Accounts, NEW q \in Receivers, monitoredAccounts'[a] = q
            PROVE  account[q] = a /\ ~Closed(q)
        <4>1. monitoredAccounts \in [Accounts -> Receivers \cup {NoReceiver}]
          BY DEF PoolInv, PoolTypes
        <4>2. CASE a = account[r]
          <5>1. q = r
            BY <3>1, <3>3, <4>1, <4>2
          <5> QED BY <3>1, <4>2, <5>1
        <4>3. CASE a # account[r]
          <5>1. monitoredAccounts[a] = q
            BY <3>1, <3>3, <4>1, <4>3
          <5> QED BY <5>1 DEF PoolInv, Ownership
        <4> QED BY <4>2, <4>3
      <3>4. \A q \in Receivers : Owner(q)' = Owner(q)
        BY <1>1 DEF Owner
      <3>5. account' = account /\ created' = created /\ availableAccounts' = availableAccounts /\ freeing' = freeing
        BY <1>1, <3>1
      <3>6. Ownership
        BY DEF PoolInv
      <3>7. Ownership'
        BY <3>3, <3>4, <3>5, <3>6 DEF Ownership, Closed
      <3> QED BY <3>2, <3>7
    <2> HIDE DEF accounts, receiver, group, processing, outcome, chain
    <2> QED BY <2>1, <2>2
  <1>3. RevertsWhileOpen' /\ WorkerOK' /\ \A r \in Receivers : Unread(r)' = Unread(r)
    BY <1>1 DEF PoolInv, RevertsWhileOpen, Open, Closed, WorkerOK, Idle, CreditedOpen, Unread
  <1> QED BY <1>1, <1>2, <1>3, MoneyStays

\* The mutex of an open receiver is taken or given up by its owner.
LEMMA MutexStep ==
  ASSUME PoolInv, NEW r \in Receivers, (Open(r) /\ RevertLock(r)) \/ RevertFails(r)
  PROVE  PoolInv'
  <1> USE DEF accounts, receiver, group, processing, outcome, chain
  <1>1. UNCHANGED <<pendings, onAccount, coming, account, seenPendings, receivable, inbox, incremented,
                    waiting, freeing, collected, refunded, unanswered, atClose, monitoredAccounts, worker, todo,
                    created, availableAccounts>>
    BY DEF RevertLock, RevertFails
  <1>2. PoolTypes' /\ RevertsWhileOpen'
    BY DEF PoolInv, PoolTypes, RevertsWhileOpen, Open, Closed, RevertLock, RevertFails
  <1>3. Ownership' /\ WorkerOK' /\ \A q \in Receivers : Unread(q)' = Unread(q)
    BY <1>1 DEF PoolInv, Ownership, Owner, Closed, WorkerOK, Idle, CreditedOpen, Unread
  <1> QED BY <1>1, <1>2, <1>3, MoneyStays

-----------------------------------------------------------------------------
(* The worker                                                              *)

\* What is pending on the account of an open receiver was credited to nobody else.
LEMMA ReadStep == ASSUME PoolInv, NEW r \in Receivers, ReadPendings(r)
                  PROVE  PoolInv'
  <1> USE DEF accounts, receiver, group, processing, outcome, chain
  <1>1. UNCHANGED <<pendings, onAccount, coming, account, seenPendings, receivable, inbox, incremented,
                    waiting, freeing, collected, refunded, unanswered, atClose, monitoredAccounts, mu, created,
                    availableAccounts>>
    BY DEF ReadPendings
  <1>2. /\ worker = Idle /\ r \in todo /\ todo' = todo \ {r} /\ account[r] \in Accounts
        /\ \/ worker' = Idle
           \/ worker' = Looking("read", r, pendings[account[r]])
    BY DEF ReadPendings, PoolInv, PoolTypes, WorkerOK
  <1>3. PoolTypes'
    <2>1. worker' \in [at : {"idle", "read", "locked"}, of : Receivers \cup {NoReceiver},
                       read : SUBSET Payments]
      <3>1. pendings[account[r]] \in SUBSET Payments
        BY <1>2 DEF PoolInv, PoolTypes
      <3> QED BY <1>2, <3>1 DEF Idle, Looking
    <2>2. todo' \subseteq Receivers
      BY <1>2 DEF PoolInv, PoolTypes
    <2> QED BY <1>1, <2>1, <2>2 DEF PoolInv, PoolTypes
  <1>4. Ownership' /\ RevertsWhileOpen'
    BY <1>1 DEF PoolInv, Ownership, Owner, Closed, RevertsWhileOpen, Open
  <1>5. \A q \in Receivers : CreditedOpen(q)' = CreditedOpen(q) /\ Closed(q)' = Closed(q)
    BY <1>1 DEF CreditedOpen, Closed
  <1>6. ASSUME NEW p \in pendings[account[r]], ~Closed(r)
        PROVE  /\ p \notin coming
               /\ \A a \in Accounts : p \in pendings[a] => a = account[r]
               /\ \A q \in Receivers \ {r} : p \notin CreditedOpen(q)
    <2>1. p \in Payments
      BY <1>2 DEF PoolInv, PoolTypes
    <2>2. p \notin coming /\ \A a \in Accounts : p \in pendings[a] => a = account[r]
      BY <1>2, <2>1 DEF PoolInv, InOnePlace
    <2>3. ASSUME NEW q \in Receivers \ {r}, p \in CreditedOpen(q) PROVE FALSE
      <3>1. account[q] = account[r] /\ NotEmptied(q)
        BY <1>2, <2>3 DEF PoolInv, CreditsInPlace
      <3>2. Owner(q) /\ Owner(r)
        BY <1>2, <1>6, <3>1 DEF Owner, NotEmptied, Closed, PoolInv, PoolTypes, WorkerOK
      <3> QED BY <3>1, <3>2 DEF PoolInv, Ownership
    <2> QED BY <2>2, <2>3
  <1>7. WorkerOK'
    <2>1. \A q \in todo' : account'[q] # NoAccount
      BY <1>1, <1>2 DEF PoolInv, WorkerOK
    <2>2. CASE worker' = Idle
      BY <2>1, <2>2 DEF WorkerOK, Idle, Looking
    <2>3. CASE worker' = Looking("read", r, pendings[account[r]])
      <3>1. worker'.at = "read" /\ worker'.of = r /\ worker'.read = pendings[account[r]]
        BY <2>3 DEF Looking
      <3>2. account'[r] # NoAccount
        BY <1>1, <1>2 DEF PoolInv, WorkerOK
      <3> QED BY <1>1, <1>5, <1>6, <2>1, <3>1, <3>2 DEF WorkerOK
    <2> QED BY <1>2, <2>2, <2>3
  <1>8. \A q \in Receivers : Unread(q)' \ pendings[account[q]] = {}
    BY <1>2 DEF Unread, Idle, Looking
  <1> QED BY <1>1, <1>3, <1>4, <1>7, <1>8, MoneyStays

\* A round starts with receivers that have an account, or is given up.
LEMMA RoundStep == ASSUME PoolInv, CopyMonitored \/ ReadFails
                   PROVE  PoolInv'
  <1> USE DEF accounts, receiver, group, processing, outcome, chain
  <1>1. UNCHANGED <<pendings, onAccount, coming, account, seenPendings, receivable, inbox, incremented,
                    waiting, freeing, collected, refunded, unanswered, atClose, monitoredAccounts, mu, created,
                    availableAccounts, worker>>
    BY DEF CopyMonitored, ReadFails
  <1>2. todo' \subseteq {r \in Receivers : account[r] # NoAccount}
    <2>1. \A r \in Receivers : Monitored(r) => account[r] # NoAccount
      BY PoolAssumption DEF PoolInv, Ownership, Monitored
    <2> QED BY <2>1 DEF CopyMonitored, ReadFails
  <1>3. PoolTypes' /\ Ownership' /\ RevertsWhileOpen'
    <2>1. PoolTypes'
      BY <1>1, <1>2 DEF PoolInv, PoolTypes
    <2>2. Ownership' /\ RevertsWhileOpen'
      BY <1>1 DEF PoolInv, Ownership, Owner, Closed, RevertsWhileOpen, Open
    <2> QED BY <2>1, <2>2
  <1>4. WorkerOK' /\ \A r \in Receivers : Unread(r)' = Unread(r)
    BY <1>1, <1>2 DEF PoolInv, WorkerOK, Idle, CreditedOpen, Closed, Unread
  <1> QED BY <1>1, <1>3, <1>4, MoneyStays

\* Under the mutex, what was seen by then is left out.
LEMMA LockStep == ASSUME PoolInv, LockReceiver
                  PROVE  PoolInv'
  <1> USE DEF accounts, receiver, group, processing, outcome, chain
  <1>1. UNCHANGED <<pendings, onAccount, coming, account, seenPendings, receivable, inbox, incremented,
                    waiting, freeing, collected, refunded, unanswered, atClose, monitoredAccounts, created,
                    availableAccounts, todo>>
    BY DEF LockReceiver
  <1>2. PICK r \in Receivers : r = worker.of
    BY DEF LockReceiver, PoolInv, WorkerOK
  <1>3. /\ worker.at = "read" /\ mu' = [mu EXCEPT ![r] = "worker"]
        /\ worker' = Looking("locked", r, worker.read \ seenPendings[r])
    BY <1>2 DEF LockReceiver
  <1>4. worker'.at = "locked" /\ worker'.of = r /\ worker'.read = worker.read \ seenPendings[r]
    BY <1>3 DEF Looking
  <1>5. PoolTypes'
    <2>1. worker' \in [at : {"idle", "read", "locked"}, of : Receivers \cup {NoReceiver},
                       read : SUBSET Payments]
      <3>1. worker.read \ seenPendings[r] \in SUBSET Payments
        BY DEF PoolInv, PoolTypes
      <3> QED BY <1>3, <3>1 DEF Looking
    <2>2. mu' \in [Receivers -> {"free", "worker", "receive", "send"}]
      BY <1>3 DEF PoolInv, PoolTypes
    <2> QED BY <1>1, <2>1, <2>2 DEF PoolInv, PoolTypes
  <1>6. Ownership' /\ RevertsWhileOpen'
    <2>1. \A q \in Receivers : mu'[q] \in {"receive", "send"} => mu[q] \in {"receive", "send"}
      BY <1>3 DEF PoolInv, PoolTypes
    <2>2. RevertsWhileOpen'
      BY <1>1, <2>1 DEF PoolInv, RevertsWhileOpen, Open, Closed
    <2>3. Ownership'
      BY <1>1 DEF PoolInv, Ownership, Owner, Closed
    <2> QED BY <2>2, <2>3
  <1>7. WorkerOK'
    <2>1. \A q \in Receivers : CreditedOpen(q)' = CreditedOpen(q) /\ Closed(q)' = Closed(q)
      BY <1>1 DEF CreditedOpen, Closed
    <2>2. worker'.at # "idle" /\ worker'.of = worker.of /\ worker'.of \in Receivers
      BY <1>2, <1>3, <1>4 DEF PoolInv, WorkerOK
    <2>3. /\ \A q \in todo' : account'[q] # NoAccount
          /\ account'[worker'.of] # NoAccount
          /\ worker'.read \cap seenPendings'[worker'.of] = {}
      BY <1>1, <1>2, <1>3, <1>4, <2>2 DEF PoolInv, WorkerOK
    <2>4. ASSUME ~Closed(r), NEW p \in worker'.read
          PROVE  /\ p \notin coming
                 /\ \A a \in Accounts : p \in pendings[a] => a = account[r]
                 /\ \A q \in Receivers \ {r} : p \notin CreditedOpen(q)
      BY <1>2, <1>3, <1>4, <2>4 DEF PoolInv, WorkerOK
    <2>5. coming' = coming /\ pendings' = pendings /\ account' = account
      BY <1>1
    <2> QED BY <1>2, <1>4, <2>1, <2>2, <2>3, <2>4, <2>5 DEF WorkerOK
  <1>8. \A q \in Receivers : Unread(q)' = Unread(q)
    BY <1>1, <1>2, <1>3, <1>4 DEF Unread
  <1> QED BY <1>1, <1>5, <1>6, <1>7, <1>8, MoneyStays

\* When it gives up the mutex it has credited everything.
LEMMA UnlockStep == ASSUME PoolInv, UnlockReceiver
                    PROVE  PoolInv'
  <1> USE DEF accounts, receiver, group, processing, outcome, chain
  <1>1. UNCHANGED <<pendings, onAccount, coming, account, seenPendings, receivable, inbox, incremented,
                    waiting, freeing, collected, refunded, unanswered, atClose, monitoredAccounts, created,
                    availableAccounts, todo>>
    BY DEF UnlockReceiver
  <1>2. worker' = Idle /\ mu' = [mu EXCEPT ![worker.of] = "free"]
    BY DEF UnlockReceiver
  <1>3. PoolTypes'
    <2>1. worker' \in [at : {"idle", "read", "locked"}, of : Receivers \cup {NoReceiver},
                       read : SUBSET Payments]
      BY <1>2 DEF Idle, Looking
    <2>2. mu' \in [Receivers -> {"free", "worker", "receive", "send"}]
      BY <1>2 DEF PoolInv, PoolTypes
    <2> QED BY <1>1, <2>1, <2>2 DEF PoolInv, PoolTypes
  <1>4. Ownership' /\ RevertsWhileOpen'
    <2>1. \A q \in Receivers : mu'[q] \in {"receive", "send"} => mu[q] \in {"receive", "send"}
      BY <1>2 DEF PoolInv, PoolTypes
    <2>2. RevertsWhileOpen'
      BY <1>1, <2>1 DEF PoolInv, RevertsWhileOpen, Open, Closed
    <2>3. Ownership'
      BY <1>1 DEF PoolInv, Ownership, Owner, Closed
    <2> QED BY <2>2, <2>3
  <1>5. WorkerOK' /\ \A r \in Receivers : Unread(r)' = {}
    BY <1>1, <1>2 DEF PoolInv, WorkerOK, Idle, Looking, Unread
  <1> QED BY <1>1, <1>3, <1>4, <1>5, MoneyStays

\* The last Amount grows, the others stay as they are.
LEMMA AmountGrows ==
  ASSUME NEW s \in Seq(Nat), s # <<>>, NEW t, t = [s EXCEPT ![Len(s)] = @ + 1]
  PROVE  /\ t \in Seq(Nat) /\ t # <<>> /\ Len(t) = Len(s) /\ t[Len(t)] = s[Len(s)] + 1
         /\ \A i \in 1 .. (Len(t) - 1) : t[i] = s[i]
  <1>1. Len(s) \in Nat \ {0} /\ DOMAIN s = 1 .. Len(s) /\ \A i \in 1 .. Len(s) : s[i] \in Nat
    OBVIOUS
  <1>2. t \in Seq(Nat) /\ Len(t) = Len(s)
    BY <1>1
  <1>3. t # <<>>
    BY <1>1, <1>2
  <1>4. t[Len(s)] = s[Len(s)] + 1
    BY <1>1
  <1>5. ASSUME NEW i \in 1 .. (Len(s) - 1) PROVE t[i] = s[i]
    <2>1. Len(s) \in Nat
      BY <1>1
    <2>2. i \in 1 .. Len(s) /\ i # Len(s)
      BY <2>1
    <2> QED BY <1>1, <2>2
  <1> QED BY <1>2, <1>3, <1>4, <1>5

\* A payment is credited, whether or not the receiver was closed or the payment
\* collected since it was read.
LEMMA CreditingStep == ASSUME PoolInv, NEW p \in Payments, ProcessPayment(p)
                       PROVE  PoolInv'
  <1> USE DEF accounts, receiver, group, processing, outcome, chain
  <1>1. PICK r \in Receivers : r = worker.of /\ account[r] # NoAccount
    BY DEF ProcessPayment, PoolInv, WorkerOK
  <1>2. worker.at = "locked" /\ p \in worker.read /\ p \notin seenPendings[r]
    BY <1>1 DEF ProcessPayment, PoolInv, WorkerOK
  <1>3. /\ worker' = [worker EXCEPT !.read = @ \ {p}]
        /\ seenPendings' = [seenPendings EXCEPT ![r] = @ \cup {p}]
        /\ receivable' = [receivable EXCEPT ![r][Len(receivable[r])] = @ + 1]
        /\ inbox' = IF Closed(r) THEN inbox ELSE [inbox EXCEPT ![r] = Append(@, Len(receivable[r]))]
        /\ UNCHANGED <<pendings, onAccount, coming, account, freeing, collected, refunded, unanswered, atClose,
                       monitoredAccounts, created, availableAccounts, todo, mu>>
    BY <1>1 DEF ProcessPayment
  <1>4. IF r \in incremented THEN UNCHANGED group
        ELSE incremented' = incremented \cup {r} /\ waiting' = waiting + 1
    BY <1>1 DEF ProcessPayment
  <1>5. worker'.at = "locked" /\ worker'.of = r /\ worker'.read = worker.read \ {p}
    BY <1>1, <1>2, <1>3 DEF PoolInv, PoolTypes
  <1>6. /\ receivable'[r] \in Seq(Nat) /\ receivable'[r] # <<>> /\ Len(receivable'[r]) = Len(receivable[r])
        /\ Balance(r)' = Balance(r) + 1
        /\ \A i \in 1 .. (Len(receivable'[r]) - 1) : receivable'[r][i] = receivable[r][i]
    <2>1. receivable[r] \in Seq(Nat) /\ receivable[r] # <<>>
      BY DEF PoolInv, PoolTypes, Amounts
    <2>2. receivable'[r] = [receivable[r] EXCEPT ![Len(receivable[r])] = @ + 1]
      BY <1>3 DEF PoolInv, PoolTypes
    <2> QED BY <2>1, <2>2, AmountGrows DEF Balance
  <1>7. \A q \in Receivers \ {r} :
          receivable'[q] = receivable[q] /\ seenPendings'[q] = seenPendings[q] /\ inbox'[q] = inbox[q]
    BY <1>3 DEF PoolInv, PoolTypes
  <1>8. seenPendings'[r] = seenPendings[r] \cup {p}
    BY <1>3 DEF PoolInv, PoolTypes
  <1>9. PoolTypes'
    <2>1. worker' \in [at : {"idle", "read", "locked"}, of : Receivers \cup {NoReceiver},
                       read : SUBSET Payments]
      BY <1>3 DEF PoolInv, PoolTypes
    <2>2. seenPendings' \in [Receivers -> SUBSET Payments]
      BY <1>3 DEF PoolInv, PoolTypes
    <2>3. receivable' \in [Receivers -> Seq(Nat)]
      BY <1>3, <1>6, <1>7 DEF PoolInv, PoolTypes
    <2>4. inbox' \in [Receivers -> Seq(Nat)]
      <3>1. Len(receivable[r]) \in Nat
        BY NumbersOf
      <3>2. inbox \in [Receivers -> Seq(Nat)]
        BY DEF PoolInv, PoolTypes
      <3>3. CASE Closed(r)
        BY <1>3, <3>2, <3>3
      <3>4. CASE ~Closed(r)
        <4>1. inbox' = [inbox EXCEPT ![r] = Append(inbox[r], Len(receivable[r]))]
          BY <1>3, <3>4
        <4>2. Append(inbox[r], Len(receivable[r])) \in Seq(Nat)
          BY <3>1, <3>2
        <4> QED BY <3>2, <4>1, <4>2
      <3> QED BY <3>3, <3>4
    <2>5. incremented' \subseteq Receivers /\ waiting' \in Nat
      <3>1. incremented \subseteq Receivers /\ waiting \in Nat
        BY DEF PoolInv, PoolTypes
      <3> QED BY <1>4, <3>1
    <2> QED BY <1>3, <2>1, <2>2, <2>3, <2>4, <2>5 DEF PoolInv, PoolTypes
  <1>10. Amounts'
    <2>1. ASSUME NEW i \in 1 .. Len(inbox'[r]) PROVE inbox'[r][i] <= Len(receivable[r])
      <3>1. inbox[r] \in Seq(Nat) /\ Len(receivable[r]) \in Nat
        BY NumbersOf DEF PoolInv, PoolTypes
      <3>2. \A j \in 1 .. Len(inbox[r]) : inbox[r][j] <= Len(receivable[r])
        BY DEF PoolInv, Amounts
      <3>3. inbox'[r] = inbox[r] \/ inbox'[r] = Append(inbox[r], Len(receivable[r]))
        BY <1>3 DEF PoolInv, PoolTypes
      <3>4. CASE inbox'[r] = inbox[r]
        BY <2>1, <3>2, <3>4
      <3>5. CASE inbox'[r] = Append(inbox[r], Len(receivable[r]))
        <4>1. Len(inbox[r]) \in Nat /\ Len(inbox'[r]) = Len(inbox[r]) + 1
          BY <3>1, <3>5
        <4>2. CASE i \in 1 .. Len(inbox[r])
          <5>1. inbox'[r][i] = inbox[r][i]
            BY <3>1, <3>5, <4>1, <4>2
          <5> QED BY <3>2, <4>2, <5>1
        <4>3. CASE i = Len(inbox[r]) + 1
          <5>1. inbox'[r][i] = Len(receivable[r])
            BY <3>1, <3>5, <4>1, <4>3
          <5> QED BY <3>1, <5>1
        <4> QED BY <2>1, <4>1, <4>2, <4>3
      <3> QED BY <3>3, <3>4, <3>5
    <2> QED BY <1>6, <1>7, <2>1 DEF PoolInv, Amounts
  <1>11. Ownership' /\ RevertsWhileOpen' /\ InOnePlace'
    BY <1>3 DEF PoolInv, Ownership, Owner, Closed, RevertsWhileOpen, Open, InOnePlace
  <1>12. Untouched'
    BY <1>1, <1>3, <1>7 DEF PoolInv, Untouched
  <1>13. \A q \in Receivers \ {r} : CreditedOpen(q)' = CreditedOpen(q)
    BY <1>3, <1>7 DEF CreditedOpen, Closed
  <1>14. WorkerOK'
    BY <1>1, <1>2, <1>3, <1>5, <1>8, <1>13 DEF PoolInv, WorkerOK, Closed
  <1>15. CreditsInPlace'
    <2>1. \A q \in Receivers : NotEmptied(q)' <=> NotEmptied(q)
      BY <1>3 DEF NotEmptied
    <2>2. ASSUME NEW q \in Receivers, NEW x \in CreditedOpen(q)'
          PROVE  x \notin coming /\ \A a \in Accounts : x \in pendings[a] => a = account[q] /\ NotEmptied(q)
      <3>1. CASE x \in CreditedOpen(q)
        BY <3>1 DEF PoolInv, CreditsInPlace
      <3>2. CASE x \notin CreditedOpen(q)
        <4>1. q = r /\ x = p /\ ~Closed(r)
          BY <1>3, <1>8, <1>13, <2>2, <3>2 DEF CreditedOpen, Closed
        <4> QED BY <1>1, <1>2, <4>1 DEF PoolInv, WorkerOK, NotEmptied, Closed
      <3> QED BY <3>1, <3>2
    <2> QED BY <1>3, <2>1, <2>2 DEF CreditsInPlace
  <1>16. Funded'
    <2>1. ASSUME NEW q \in Receivers \ {r}, Open(q)
          PROVE  Balance(q)' + Cardinality(Unread(q)' \ pendings'[account'[q]]) <= Funds(q)'
      BY <1>1, <1>3, <1>5, <1>7, <2>1 DEF PoolInv, Funded, Balance, Unread, Funds
    <2>2. ASSUME Open(r)
          PROVE  Balance(r)' + Cardinality(Unread(r)' \ pendings'[account'[r]]) <= Funds(r)'
      <3> DEFINE here == pendings[account[r]]  old == Unread(r)  seen == seenPendings[r]
      <3>1. Balance(r) + Cardinality(old \ here)
              <= onAccount[account[r]] + Cardinality(here \cap seen) + unanswered[r]
        BY <2>2 DEF PoolInv, Funded, Funds
      <3>2. Unread(r)' = old \ {p} /\ p \in old
        BY <1>1, <1>2, <1>5, <1>8 DEF Unread
      <3>3. /\ account[r] \in Accounts /\ here \in SUBSET Payments /\ old \in SUBSET Payments
            /\ seen \in SUBSET Payments /\ onAccount[account[r]] \in Nat /\ Balance(r) \in Nat
            /\ unanswered[r] \in Nat
        BY <2>2, NumbersOf DEF PoolInv, PoolTypes, Open, Unread
      <3>4. /\ IsFiniteSet(here \cap seen) /\ Cardinality(here \cap seen) \in Nat
            /\ IsFiniteSet(old \ here) /\ Cardinality(old \ here) \in Nat
        BY <3>3, Counted
      <3>5. /\ pendings'[account'[r]] = here /\ onAccount'[account'[r]] = onAccount[account[r]]
            /\ Funds(r)' = onAccount[account[r]] + Cardinality(here \cap (seen \cup {p})) + unanswered[r]
        BY <1>3, <1>8 DEF Funds
      <3>6. Balance(r)' = Balance(r) + 1
        BY <1>6
      <3>7. CASE p \in here
        <4>1. (old \ {p}) \ here = old \ here /\ here \cap (seen \cup {p}) = (here \cap seen) \cup {p}
          BY <3>7
        <4>2. Cardinality((here \cap seen) \cup {p}) = Cardinality(here \cap seen) + 1
          BY <1>2, <3>4, FS_AddElement
        <4>3. Cardinality(Unread(r)' \ pendings'[account'[r]]) = Cardinality(old \ here)
          BY <3>2, <3>5, <4>1
        <4>4. Funds(r)' = onAccount[account[r]] + Cardinality(here \cap seen) + unanswered[r] + 1
          <5> HIDE DEF here, seen
          <5>1. Funds(r)' = onAccount[account[r]] + (Cardinality(here \cap seen) + 1) + unanswered[r]
            BY <3>5, <4>1, <4>2
          <5> QED BY <3>3, <3>4, <5>1
        <4> HIDE DEF here, old, seen
        <4> QED BY <3>1, <3>3, <3>4, <3>6, <4>3, <4>4
      <3>8. CASE p \notin here
        <4>1. (old \ {p}) \ here = (old \ here) \ {p} /\ here \cap (seen \cup {p}) = here \cap seen
          BY <3>8
        <4>2. Cardinality((old \ here) \ {p}) = Cardinality(old \ here) - 1
          BY <3>2, <3>4, <3>8, FS_RemoveElement
        <4>3. Cardinality(Unread(r)' \ pendings'[account'[r]]) = Cardinality(old \ here) - 1
          BY <3>2, <3>5, <4>1, <4>2
        <4>4. Funds(r)' = onAccount[account[r]] + Cardinality(here \cap seen) + unanswered[r]
          BY <3>5, <4>1
        <4> HIDE DEF here, old, seen
        <4> QED BY <3>1, <3>3, <3>4, <3>6, <4>3, <4>4
      <3> QED BY <3>7, <3>8
    <2>3. \A q \in Receivers : Open(q)' <=> Open(q)
      BY <1>3 DEF Open, Closed
    <2> QED BY <2>1, <2>2, <2>3 DEF Funded
  <1>17. BooksBalance'
    <2>1. \A q \in Receivers \ {r} : Books(q)'
      BY <1>3, <1>7 DEF PoolInv, BooksBalance, Books, Closed, Balance
    <2>2. Cardinality(seenPendings'[r]) = Cardinality(seenPendings[r]) + 1
      <3>1. IsFiniteSet(seenPendings[r])
        BY Counted DEF PoolInv, PoolTypes
      <3> QED BY <1>2, <1>8, <3>1, FS_AddElement
    <2>3. Books(r)'
      <3>1. Books(r)
        BY DEF PoolInv, BooksBalance
      <3>2. /\ Balance(r) \in Nat /\ collected[r] \in Nat /\ refunded[r] \in Nat
            /\ Cardinality(seenPendings[r]) \in Nat /\ Cardinality(atClose[r]) \in Nat
        BY NumbersOf
      <3>3. /\ Balance(r)' = Balance(r) + 1
            /\ collected'[r] = collected[r] /\ refunded'[r] = refunded[r] /\ atClose'[r] = atClose[r]
        BY <1>3, <1>6
      <3>4. Closed(r)' => atClose'[r] \subseteq seenPendings'[r]
        BY <1>3, <1>8, <3>1 DEF Books, Closed
      <3>5. ASSUME freeing[r] \in {"no", "receive", "send", "failed", "given up"}
            PROVE  collected'[r] = 0 /\ Balance(r)' + refunded'[r] = Cardinality(seenPendings'[r])
        <4>1. collected[r] = 0 /\ Balance(r) + refunded[r] = Cardinality(seenPendings[r])
          BY <3>1, <3>5 DEF Books
        <4> QED BY <2>2, <3>2, <3>3, <4>1
      <3>6. ASSUME freeing[r] \in {"return", "returned", "done"}
            PROVE  /\ Cardinality(atClose'[r]) <= collected'[r] + refunded'[r]
                   /\ collected'[r] + refunded'[r] <= Cardinality(seenPendings'[r])
        <4>1. /\ Cardinality(atClose[r]) <= collected[r] + refunded[r]
              /\ collected[r] + refunded[r] <= Cardinality(seenPendings[r])
          BY <3>1, <3>6 DEF Books
        <4> QED BY <2>2, <3>2, <3>3, <4>1
      <3>7. \A i \in 1 .. (Len(receivable'[r]) - 1) : receivable'[r][i] <= refunded'[r]
        BY <1>3, <1>6, <3>1 DEF Books
      <3> QED BY <1>3, <3>4, <3>5, <3>6, <3>7 DEF Books
    <2> QED BY <2>1, <2>3 DEF BooksBalance
  <1>18. Awaited'
    <2>1. CASE r \in incremented
      BY <1>3, <1>4, <2>1 DEF PoolInv, Awaited, Awaiting
    <2>2. CASE r \notin incremented
      <3>1. Awaiting' = Awaiting \/ Awaiting' = Awaiting \cup {r}
        BY <1>3, <1>4, <2>2 DEF Awaiting
      <3>2. IsFiniteSet(Awaiting) /\ Cardinality(Awaiting) \in Nat /\ waiting \in Nat
        BY Counted DEF PoolInv, PoolTypes, Awaiting
      <3>3. Cardinality(Awaiting') <= Cardinality(Awaiting) + 1 /\ Cardinality(Awaiting') \in Nat
        <4>1. Cardinality(Awaiting \cup {r}) \in {Cardinality(Awaiting), Cardinality(Awaiting) + 1}
          BY <3>2, FS_AddElement
        <4>2. CASE Awaiting' = Awaiting
          BY <3>2, <4>2
        <4>3. CASE Awaiting' = Awaiting \cup {r}
          BY <3>2, <4>1, <4>3
        <4> QED BY <3>1, <4>2, <4>3
      <3> QED BY <1>4, <2>2, <3>2, <3>3 DEF PoolInv, Awaited
    <2> QED BY <2>1, <2>2
  <1> QED BY <1>9, <1>10, <1>11, <1>12, <1>14, <1>15, <1>16, <1>17, <1>18 DEF PoolInv

-----------------------------------------------------------------------------
(* A receiver gets an account                                              *)

\* Nobody that has not given its account back has the new one, and it is empty.
LEMMA RequestStep ==
  ASSUME PoolInv, NEW r \in Receivers, NEW a \in Accounts, RequestAccount(r, a)
  PROVE  PoolInv'
  <1> USE DEF accounts, receiver, group, processing, outcome, chain
  <1>1. /\ account[r] = NoAccount /\ a \in Available /\ onAccount[a] = 0 /\ pendings[a] = {}
        /\ account' = [account EXCEPT ![r] = a]
        /\ availableAccounts' = availableAccounts \ {a} /\ created' = created \cup {a}
        /\ UNCHANGED <<pendings, onAccount, coming, monitoredAccounts, seenPendings, receivable, inbox, mu,
                       incremented, waiting, worker, todo, freeing, collected, refunded, unanswered, atClose>>
    BY DEF RequestAccount, Empty
  <1>2. freeing[r] = "no" /\ seenPendings[r] = {} /\ receivable[r] = <<0>>
    BY <1>1 DEF PoolInv, Untouched
  <1>3. account'[r] = a /\ \A q \in Receivers \ {r} : account'[q] = account[q]
    BY <1>1 DEF PoolInv, PoolTypes
  <1>4. a # NoAccount
    BY PoolAssumption
  <1>5. \A q \in Receivers : Owner(q) => account[q] # a
    BY <1>1 DEF PoolInv, Ownership, Available
  <1>6. PoolTypes'
    BY <1>1 DEF PoolInv, PoolTypes
  <1>7. \A q \in Receivers \ {r} : (Owner(q)' <=> Owner(q)) /\ (Open(q)' <=> Open(q))
    BY <1>1, <1>3 DEF Owner, Open, Closed
  <1>8. Ownership'
    <2>1. \A b \in Accounts, q \in Receivers :
            monitoredAccounts'[b] = q => account'[q] = b /\ ~Closed(q)'
      <3>1. \A b \in Accounts : monitoredAccounts[b] # r
        BY <1>1, PoolAssumption DEF PoolInv, Ownership
      <3> QED BY <1>1, <1>3, <3>1 DEF PoolInv, Ownership, Closed
    <2>2. \A q \in Receivers : Owner(q)' => account'[q] \in created' \ availableAccounts'
      BY <1>1, <1>3, <1>5, <1>7 DEF PoolInv, Ownership
    <2>3. \A p, q \in Receivers : p # q /\ Owner(p)' /\ Owner(q)' => account'[p] # account'[q]
      BY <1>3, <1>5, <1>7 DEF PoolInv, Ownership
    <2> QED BY <2>1, <2>2, <2>3 DEF Ownership
  <1>9. Amounts' /\ Untouched' /\ InOnePlace' /\ BooksBalance' /\ Awaited'
    <2>1. Amounts' /\ InOnePlace'
      BY <1>1, <1>3 DEF PoolInv, Amounts, InOnePlace
    <2>2. Untouched'
      BY <1>1, <1>3, <1>4 DEF PoolInv, Untouched
    <2>3. BooksBalance'
      BY <1>1, <1>3 DEF PoolInv, BooksBalance, Books, Balance, Closed
    <2>4. Awaited'
      BY <1>1, <1>3 DEF PoolInv, Awaited, Awaiting
    <2> QED BY <2>1, <2>2, <2>3, <2>4
  <1>10. RevertsWhileOpen'
    BY <1>1, <1>2, <1>3, <1>4, <1>7 DEF PoolInv, RevertsWhileOpen, Open, Closed
  <1>11. worker.at # "idle" => worker.of # r
    BY <1>1 DEF PoolInv, WorkerOK
  <1>12. \A q \in Receivers : CreditedOpen(q)' = CreditedOpen(q) /\ Closed(q)' = Closed(q)
    BY <1>1 DEF CreditedOpen, Closed
  <1>13. WorkerOK'
    <2>1. \A q \in todo : q \in Receivers /\ account'[q] # NoAccount
      BY <1>3, <1>4 DEF PoolInv, PoolTypes, WorkerOK
    <2>2. worker.at # "idle" => worker.of \in Receivers /\ account'[worker.of] = account[worker.of]
      BY <1>3, <1>11 DEF PoolInv, WorkerOK
    <2> QED BY <1>1, <1>12, <2>1, <2>2 DEF PoolInv, WorkerOK, Idle
  <1>14. CreditsInPlace'
    <2>1. CreditedOpen(r) = {}
      BY <1>2 DEF CreditedOpen, Closed
    <2>2. ASSUME NEW q \in Receivers, NEW p \in CreditedOpen(q)
          PROVE  p \notin coming /\ \A b \in Accounts : p \in pendings[b] => b = account'[q] /\ NotEmptied(q)'
      <3>1. q # r
        BY <2>1, <2>2
      <3>2. account'[q] = account[q] /\ NotEmptied(q)' = NotEmptied(q)
        BY <1>1, <1>3, <3>1 DEF NotEmptied
      <3> QED BY <2>2, <3>2 DEF PoolInv, CreditsInPlace
    <2> QED BY <1>1, <1>12, <2>2 DEF CreditsInPlace
  <1>15. Funded'
    <2>1. ASSUME NEW q \in Receivers \ {r}, Open(q)
          PROVE  Balance(q)' + Cardinality(Unread(q)' \ pendings'[account'[q]]) <= Funds(q)'
      BY <1>1, <1>3, <2>1 DEF PoolInv, Funded, Balance, Unread, Funds
    <2>2. Balance(r)' + Cardinality(Unread(r)' \ pendings'[account'[r]]) <= Funds(r)'
      <3>1. Unread(r)' \ pendings'[account'[r]] = {} /\ pendings'[account'[r]] \cap seenPendings'[r] = {}
        BY <1>1, <1>2, <1>11 DEF Unread
      <3>2. Balance(r)' = 0 /\ onAccount'[account'[r]] = 0 /\ unanswered'[r] \in Nat
        BY <1>1, <1>2, <1>3, NumbersOf DEF Balance
      <3>3. /\ Cardinality(Unread(r)' \ pendings'[account'[r]]) = 0
            /\ Cardinality(pendings'[account'[r]] \cap seenPendings'[r]) = 0
        BY <3>1, FS_EmptySet
      <3> QED BY <3>2, <3>3 DEF Funds
    <2> QED BY <1>7, <2>1, <2>2 DEF Funded
  <1> QED BY <1>6, <1>8, <1>9, <1>10, <1>13, <1>14, <1>15 DEF PoolInv

-----------------------------------------------------------------------------
(* Collecting what is pending                                              *)

\* What collecting leaves of the payments, and where.
LEMMA Collecting ==
  ASSUME PoolInv, NEW a \in Accounts, NEW ps \in SUBSET pendings[a], Collect(a, ps), UNCHANGED coming
  PROVE  /\ pendings' \in [Accounts -> SUBSET Payments] /\ onAccount' \in [Accounts -> Nat]
         /\ pendings'[a] = pendings[a] \ ps /\ onAccount'[a] = onAccount[a] + Cardinality(ps)
         /\ \A b \in Accounts \ {a} : pendings'[b] = pendings[b] /\ onAccount'[b] = onAccount[b]
         /\ InOnePlace'
  <1>1. pendings \in [Accounts -> SUBSET Payments] /\ onAccount \in [Accounts -> Nat]
    BY DEF PoolInv, PoolTypes
  <1>2. ps \in SUBSET Payments /\ Cardinality(ps) \in Nat
    BY <1>1, Counted
  <1>3. /\ pendings' \in [Accounts -> SUBSET Payments] /\ onAccount' \in [Accounts -> Nat]
        /\ pendings'[a] = pendings[a] \ ps /\ onAccount'[a] = onAccount[a] + Cardinality(ps)
        /\ \A b \in Accounts \ {a} : pendings'[b] = pendings[b] /\ onAccount'[b] = onAccount[b]
    BY <1>1, <1>2 DEF Collect
  <1>4. InOnePlace'
    BY <1>3 DEF PoolInv, InOnePlace
  <1> QED BY <1>3, <1>4

\* A receiver keeps its funds when its account stays as it is.
LEMMA FundsStay ==
  ASSUME PoolInv, NEW q \in Receivers, Open(q),
         pendings'[account[q]] = pendings[account[q]], onAccount'[account[q]] = onAccount[account[q]],
         UNCHANGED <<account, worker, seenPendings>>, receivable'[q] = receivable[q],
         unanswered'[q] = unanswered[q]
  PROVE  Balance(q)' + Cardinality(Unread(q)' \ pendings'[account'[q]]) <= Funds(q)'
  BY DEF PoolInv, Funded, Balance, Unread, Funds

\* The account of an open receiver is no other receiver's that is in use.
LEMMA OwnAccount ==
  ASSUME PoolInv, NEW r \in Receivers, Owner(r)
  PROVE  account[r] \in Accounts /\ \A q \in Receivers \ {r} : Open(q) => account[q] \in Accounts \ {account[r]}
  <1>1. account[r] \in Accounts /\ \A q \in Receivers : Open(q) => account[q] \in Accounts /\ Owner(q)
    BY DEF PoolInv, PoolTypes, Owner, Open, Closed
  <1> QED BY <1>1 DEF PoolInv, Ownership

\* A refund begins, or tries again: what was seen is there all the same.
LEMMA RevertReceiveStep == ASSUME PoolInv, NEW r \in Receivers, RevertReceive(r)
                           PROVE  PoolInv'
  <1> USE DEF accounts, receiver, group, processing, outcome, chain
  <1>1. PICK ps \in SUBSET pendings[account[r]] :
          /\ Collect(account[r], ps)
          /\ mu' = [mu EXCEPT ![r] = IF ps = pendings[account[r]] THEN "send" ELSE "receive"]
    BY DEF RevertReceive
  <1>a. UNCHANGED <<coming, created, availableAccounts, account, monitoredAccounts, seenPendings,
                       receivable, inbox, incremented, waiting, worker, todo, freeing, collected, refunded,
                       unanswered, atClose>>
    BY DEF RevertReceive
  <1>2. Open(r) /\ Owner(r) /\ account[r] \in Accounts
    BY DEF RevertReceive, PoolInv, RevertsWhileOpen, Open, Owner, Closed, PoolTypes
  <1>3. /\ pendings' \in [Accounts -> SUBSET Payments] /\ onAccount' \in [Accounts -> Nat]
        /\ pendings'[account[r]] = pendings[account[r]] \ ps
        /\ onAccount'[account[r]] = onAccount[account[r]] + Cardinality(ps)
        /\ \A b \in Accounts \ {account[r]} : pendings'[b] = pendings[b] /\ onAccount'[b] = onAccount[b]
        /\ InOnePlace'
    BY <1>1, <1>a, <1>2, Collecting
  <1>4. \A b \in Accounts : pendings'[b] \subseteq pendings[b]
    BY <1>3
  <1>5. PoolTypes'
    BY <1>1, <1>a, <1>3 DEF PoolInv, PoolTypes
  <1>6. Amounts' /\ Ownership' /\ Untouched' /\ BooksBalance' /\ Awaited'
    <2>1. Amounts' /\ Untouched' /\ Awaited'
      BY <1>1, <1>a DEF PoolInv, Amounts, Untouched, Awaited, Awaiting
    <2>2. Ownership'
      BY <1>1, <1>a DEF PoolInv, Ownership, Owner, Closed
    <2>3. BooksBalance'
      BY <1>1, <1>a DEF PoolInv, BooksBalance, Books, Balance, Closed
    <2> QED BY <2>1, <2>2, <2>3
  <1>7. RevertsWhileOpen'
    BY <1>1, <1>a, <1>2 DEF PoolInv, PoolTypes, RevertsWhileOpen, Open, Closed
  <1>8. WorkerOK'
    BY <1>1, <1>a, <1>4 DEF PoolInv, WorkerOK, CreditedOpen, Closed, Idle
  <1>9. CreditsInPlace'
    BY <1>1, <1>a, <1>4 DEF PoolInv, CreditsInPlace, CreditedOpen, Closed, NotEmptied
  <1>10. Funded'
    <2>1. ASSUME NEW q \in Receivers \ {r}, Open(q)
          PROVE  Balance(q)' + Cardinality(Unread(q)' \ pendings'[account'[q]]) <= Funds(q)'
      BY <1>1, <1>a, <1>2, <1>3, <2>1, OwnAccount, FundsStay
    <2>2. Balance(r)' + Cardinality(Unread(r)' \ pendings'[account'[r]]) <= Funds(r)'
      <3> DEFINE here == pendings[account[r]]  unread == Unread(r)  seen == seenPendings[r]
      <3>1. Balance(r) + Cardinality(unread \ here)
              <= onAccount[account[r]] + Cardinality(here \cap seen) + unanswered[r]
        BY <1>2 DEF PoolInv, Funded, Funds
      <3>2. /\ here \in SUBSET Payments /\ unread \in SUBSET Payments /\ seen \in SUBSET Payments
            /\ ps \in SUBSET here /\ unread \cap seen = {}
        BY <1>2 DEF PoolInv, PoolTypes, Unread
      <3>3. Cardinality(unread \ (here \ ps)) + Cardinality(here \cap seen)
              <= Cardinality(unread \ here) + Cardinality(ps) + Cardinality((here \ ps) \cap seen)
        BY <3>2, CollectedIsEnough
      <3>4. /\ Cardinality(unread \ (here \ ps)) \in Nat /\ Cardinality(here \cap seen) \in Nat
            /\ Cardinality(ps) \in Nat /\ Cardinality(unread \ here) \in Nat
            /\ Cardinality((here \ ps) \cap seen) \in Nat
        BY <3>2, Counted
      <3>5. Balance(r) \in Nat /\ onAccount[account[r]] \in Nat /\ unanswered[r] \in Nat
        BY <1>2, NumbersOf DEF PoolInv, PoolTypes
      <3>6. /\ Balance(r)' = Balance(r)
            /\ Cardinality(Unread(r)' \ pendings'[account'[r]]) = Cardinality(unread \ (here \ ps))
        BY <1>a, <1>3 DEF Unread, Balance
      <3>7. Funds(r)' = onAccount[account[r]] + Cardinality(ps) + Cardinality((here \ ps) \cap seen)
                          + unanswered[r]
        BY <1>a, <1>3 DEF Funds
      <3> HIDE DEF here, unread, seen
      <3> QED BY <3>1, <3>3, <3>4, <3>5, <3>6, <3>7
    <2>3. \A q \in Receivers : Open(q)' <=> Open(q)
      BY <1>1, <1>a DEF Open, Closed
    <2> QED BY <2>1, <2>2, <2>3 DEF Funded
  <1> QED BY <1>3, <1>5, <1>6, <1>7, <1>8, <1>9, <1>10 DEF PoolInv

-----------------------------------------------------------------------------
(* Sending back, and closing                                               *)

\* A new Amount of nothing is added, the others stay as they are.
LEMMA AmountAdded ==
  ASSUME NEW s \in Seq(Nat), s # <<>>, NEW t, t = Append(s, 0)
  PROVE  /\ t \in Seq(Nat) /\ t # <<>> /\ Len(t) = Len(s) + 1 /\ t[Len(t)] = 0
         /\ \A i \in 1 .. (Len(t) - 1) : i \in 1 .. Len(s) /\ t[i] = s[i]
  OBVIOUS

\* What is receivable is sent back from what is there.
LEMMA RevertSendStep == ASSUME PoolInv, NEW r \in Receivers, RevertSend(r)
                        PROVE  PoolInv'
  <1> USE DEF accounts, receiver, group, processing, outcome, chain
  <1>1. /\ mu[r] = "send" /\ Balance(r) <= onAccount[account[r]]
        /\ onAccount' = [onAccount EXCEPT ![account[r]] = @ - Balance(r)]
        /\ refunded' = [refunded EXCEPT ![r] = @ + Balance(r)]
        /\ receivable' = [receivable EXCEPT ![r] = Append(@, 0)]
        /\ mu' = [mu EXCEPT ![r] = "free"]
        /\ UNCHANGED <<pendings, coming, created, availableAccounts, account, monitoredAccounts,
                       seenPendings, inbox, incremented, waiting, worker, todo, freeing, collected,
                       unanswered, atClose>>
    BY DEF RevertSend, Leaves
  <1>2. Open(r) /\ Owner(r) /\ account[r] \in Accounts /\ freeing[r] = "no"
    BY <1>1 DEF PoolInv, RevertsWhileOpen, Open, Owner, Closed, PoolTypes
  <1>3. /\ Balance(r) \in Nat /\ refunded[r] \in Nat /\ onAccount[account[r]] \in Nat
        /\ receivable[r] \in Seq(Nat) /\ receivable[r] # <<>> /\ Len(receivable[r]) \in Nat
    BY <1>2, NumbersOf DEF PoolInv, PoolTypes, Amounts
  <1>4. /\ onAccount'[account[r]] = onAccount[account[r]] - Balance(r)
        /\ \A b \in Accounts \ {account[r]} : onAccount'[b] = onAccount[b]
        /\ refunded'[r] = refunded[r] + Balance(r)
        /\ receivable'[r] = Append(receivable[r], 0)
        /\ \A q \in Receivers \ {r} : receivable'[q] = receivable[q] /\ refunded'[q] = refunded[q]
    BY <1>1, <1>2 DEF PoolInv, PoolTypes
  <1>5. /\ receivable'[r] \in Seq(Nat) /\ receivable'[r] # <<>>
        /\ Len(receivable'[r]) = Len(receivable[r]) + 1 /\ Balance(r)' = 0
        /\ \A i \in 1 .. (Len(receivable'[r]) - 1) :
             i \in 1 .. Len(receivable[r]) /\ receivable'[r][i] = receivable[r][i]
    <2>1. /\ receivable'[r] \in Seq(Nat) /\ receivable'[r] # <<>>
          /\ Len(receivable'[r]) = Len(receivable[r]) + 1
          /\ receivable'[r][Len(receivable'[r])] = 0
          /\ \A i \in 1 .. (Len(receivable'[r]) - 1) :
               i \in 1 .. Len(receivable[r]) /\ receivable'[r][i] = receivable[r][i]
      BY <1>3, <1>4, AmountAdded
    <2> QED BY <2>1 DEF Balance
  <1>6. PoolTypes'
    <2>1. onAccount' \in [Accounts -> Nat]
      <3>1. onAccount[account[r]] - Balance(r) \in Nat
        BY <1>1, <1>3
      <3> QED BY <1>1, <3>1 DEF PoolInv, PoolTypes
    <2>2. receivable' \in [Receivers -> Seq(Nat)]
      BY <1>1, <1>4, <1>5 DEF PoolInv, PoolTypes
    <2>3. refunded' \in [Receivers -> Nat]
      <3>1. refunded[r] + Balance(r) \in Nat
        BY <1>3
      <3> QED BY <1>1, <3>1 DEF PoolInv, PoolTypes
    <2>4. mu' \in [Receivers -> {"free", "worker", "receive", "send"}]
      BY <1>1 DEF PoolInv, PoolTypes
    <2> QED BY <1>1, <2>1, <2>2, <2>3, <2>4 DEF PoolInv, PoolTypes
  <1>7. Amounts'
    <2>1. ASSUME NEW i \in 1 .. Len(inbox[r]) PROVE inbox[r][i] <= Len(receivable'[r])
      <3>1. inbox[r][i] <= Len(receivable[r]) /\ inbox[r][i] \in Nat
        <4>1. inbox[r] \in Seq(Nat)
          BY DEF PoolInv, PoolTypes
        <4>2. inbox[r][i] \in Nat
          BY <4>1
        <4> QED BY <4>2 DEF PoolInv, Amounts
      <3> QED BY <1>3, <1>5, <3>1
    <2> QED BY <1>1, <1>4, <1>5, <2>1 DEF PoolInv, Amounts
  <1>8. Ownership' /\ InOnePlace'
    BY <1>1 DEF PoolInv, Ownership, Owner, Closed, InOnePlace
  <1>9. Untouched'
    BY <1>1, <1>2, <1>4 DEF PoolInv, Untouched, Open
  <1>10. RevertsWhileOpen'
    <2>1. \A q \in Receivers : mu'[q] \in {"receive", "send"} => mu[q] \in {"receive", "send"}
      BY <1>1 DEF PoolInv, PoolTypes
    <2> QED BY <1>1, <2>1 DEF PoolInv, RevertsWhileOpen, Open, Closed
  <1>11. WorkerOK' /\ CreditsInPlace' /\ Awaited'
    <2>1. WorkerOK'
      BY <1>1 DEF PoolInv, WorkerOK, CreditedOpen, Closed, Idle
    <2>2. CreditsInPlace'
      BY <1>1 DEF PoolInv, CreditsInPlace, NotEmptied, CreditedOpen, Closed
    <2>3. Awaited'
      BY <1>1 DEF PoolInv, Awaited, Awaiting
    <2> QED BY <2>1, <2>2, <2>3
  <1>12. Funded'
    <2>1. ASSUME NEW q \in Receivers \ {r}, Open(q)
          PROVE  Balance(q)' + Cardinality(Unread(q)' \ pendings'[account'[q]]) <= Funds(q)'
      BY <1>1, <1>2, <1>4, <2>1, OwnAccount, FundsStay
    <2>2. Balance(r)' + Cardinality(Unread(r)' \ pendings'[account'[r]]) <= Funds(r)'
      <3> DEFINE here == pendings[account[r]]  unread == Unread(r)  seen == seenPendings[r]
      <3>1. Balance(r) + Cardinality(unread \ here)
              <= onAccount[account[r]] + Cardinality(here \cap seen) + unanswered[r]
        BY <1>2 DEF PoolInv, Funded, Funds
      <3>2. Cardinality(here \cap seen) \in Nat /\ Cardinality(unread \ here) \in Nat
        BY <1>2, Counted DEF PoolInv, PoolTypes, Unread
      <3>3. /\ Cardinality(Unread(r)' \ pendings'[account'[r]]) = Cardinality(unread \ here)
            /\ Funds(r)' = onAccount[account[r]] - Balance(r) + Cardinality(here \cap seen) + unanswered[r]
        BY <1>1, <1>4 DEF Unread, Funds
      <3>4. Balance(r)' = 0 /\ unanswered[r] \in Nat
        BY <1>5, NumbersOf
      <3> HIDE DEF here, unread, seen
      <3> QED BY <1>3, <3>1, <3>2, <3>3, <3>4
    <2>3. \A q \in Receivers : Open(q)' <=> Open(q)
      BY <1>1 DEF Open, Closed
    <2> QED BY <2>1, <2>2, <2>3 DEF Funded
  <1>13. BooksBalance'
    <2>1. \A q \in Receivers \ {r} : Books(q)'
      BY <1>1, <1>4 DEF PoolInv, BooksBalance, Books, Closed, Balance
    <2>2. Books(r)'
      <3>1. collected[r] = 0 /\ Balance(r) + refunded[r] = Cardinality(seenPendings[r])
        BY <1>2 DEF PoolInv, BooksBalance, Books
      <3>2. collected'[r] = 0 /\ Balance(r)' + refunded'[r] = Cardinality(seenPendings'[r])
        BY <1>1, <1>3, <1>4, <1>5, <3>1
      <3>3. ASSUME NEW i \in 1 .. (Len(receivable'[r]) - 1) PROVE receivable'[r][i] <= refunded'[r]
        <4>1. i \in 1 .. Len(receivable[r]) /\ receivable'[r][i] = receivable[r][i]
          BY <1>5
        <4>2. receivable[r][i] \in Nat
          BY <1>3, <4>1
        <4>3. CASE i = Len(receivable[r])
          BY <1>3, <1>4, <4>1, <4>3 DEF Balance
        <4>4. CASE i # Len(receivable[r])
          <5>1. i \in 1 .. (Len(receivable[r]) - 1)
            BY <1>3, <4>1, <4>4
          <5>2. receivable[r][i] <= refunded[r]
            BY <5>1 DEF PoolInv, BooksBalance, Books
          <5> QED BY <1>3, <1>4, <4>1, <4>2, <5>2
        <4> QED BY <4>3, <4>4
      <3> QED BY <1>1, <1>2, <3>2, <3>3 DEF Books, Closed
    <2> QED BY <2>1, <2>2 DEF BooksBalance
  <1> QED BY <1>6, <1>7, <1>8, <1>9, <1>10, <1>11, <1>12, <1>13 DEF PoolInv

\* What left in a refund whose Send returned an error is missing from what is there,
\* by that much and no more.
LEMMA RevertSendErrsStep == ASSUME PoolInv, NEW r \in Receivers, RevertSendErrs(r)
                            PROVE  PoolInv'
  <1> USE DEF accounts, receiver, group, processing, outcome, chain
  <1>1. /\ mu[r] = "send" /\ Balance(r) <= onAccount[account[r]]
        /\ onAccount' = [onAccount EXCEPT ![account[r]] = @ - Balance(r)]
        /\ unanswered' = [unanswered EXCEPT ![r] = @ + Balance(r)]
        /\ mu' = [mu EXCEPT ![r] = "receive"]
        /\ UNCHANGED <<pendings, coming, created, availableAccounts, account, monitoredAccounts,
                       seenPendings, receivable, inbox, incremented, waiting, worker, todo, freeing,
                       collected, refunded, atClose>>
    BY DEF RevertSendErrs, Leaves
  <1>2. Open(r) /\ Owner(r) /\ account[r] \in Accounts
    BY <1>1 DEF PoolInv, RevertsWhileOpen, Open, Owner, Closed, PoolTypes
  <1>3. Balance(r) \in Nat /\ unanswered[r] \in Nat /\ onAccount[account[r]] \in Nat
    BY <1>2, NumbersOf DEF PoolInv, PoolTypes
  <1>4. /\ onAccount'[account[r]] = onAccount[account[r]] - Balance(r)
        /\ \A b \in Accounts \ {account[r]} : onAccount'[b] = onAccount[b]
        /\ unanswered'[r] = unanswered[r] + Balance(r)
        /\ \A q \in Receivers \ {r} : unanswered'[q] = unanswered[q]
    BY <1>1, <1>2 DEF PoolInv, PoolTypes
  <1>5. PoolTypes'
    <2>1. onAccount[account[r]] - Balance(r) \in Nat /\ unanswered[r] + Balance(r) \in Nat
      BY <1>1, <1>3
    <2>2. onAccount' \in [Accounts -> Nat] /\ unanswered' \in [Receivers -> Nat]
      BY <1>1, <2>1 DEF PoolInv, PoolTypes
    <2>3. mu' \in [Receivers -> {"free", "worker", "receive", "send"}]
      BY <1>1 DEF PoolInv, PoolTypes
    <2> QED BY <1>1, <2>2, <2>3 DEF PoolInv, PoolTypes
  <1>6. Amounts' /\ Untouched' /\ Awaited' /\ InOnePlace'
    BY <1>1 DEF PoolInv, Amounts, Untouched, Awaited, Awaiting, InOnePlace
  <1>7. Ownership'
    BY <1>1 DEF PoolInv, Ownership, Owner, Closed
  <1>8. BooksBalance'
    BY <1>1 DEF PoolInv, BooksBalance, Books, Balance, Closed
  <1>9. RevertsWhileOpen'
    BY <1>1, <1>2 DEF PoolInv, PoolTypes, RevertsWhileOpen, Open, Closed
  <1>10. WorkerOK' /\ CreditsInPlace'
    <2>1. WorkerOK'
      BY <1>1 DEF PoolInv, WorkerOK, CreditedOpen, Closed, Idle
    <2>2. CreditsInPlace'
      BY <1>1 DEF PoolInv, CreditsInPlace, NotEmptied, CreditedOpen, Closed
    <2> QED BY <2>1, <2>2
  <1>11. Funded'
    <2>1. ASSUME NEW q \in Receivers \ {r}, Open(q)
          PROVE  Balance(q)' + Cardinality(Unread(q)' \ pendings'[account'[q]]) <= Funds(q)'
      BY <1>1, <1>2, <1>4, <2>1, OwnAccount, FundsStay
    <2>2. Balance(r)' + Cardinality(Unread(r)' \ pendings'[account'[r]]) <= Funds(r)'
      <3> DEFINE here == pendings[account[r]]  unread == Unread(r)  seen == seenPendings[r]
      <3>1. Balance(r) + Cardinality(unread \ here)
              <= onAccount[account[r]] + Cardinality(here \cap seen) + unanswered[r]
        BY <1>2 DEF PoolInv, Funded, Funds
      <3>2. Cardinality(here \cap seen) \in Nat /\ Cardinality(unread \ here) \in Nat
        BY <1>2, Counted DEF PoolInv, PoolTypes, Unread
      <3>3. /\ Cardinality(Unread(r)' \ pendings'[account'[r]]) = Cardinality(unread \ here)
            /\ Funds(r)' = onAccount[account[r]] - Balance(r) + Cardinality(here \cap seen)
                             + (unanswered[r] + Balance(r))
        BY <1>1, <1>4 DEF Unread, Funds
      <3>4. Balance(r)' = Balance(r)
        BY <1>1 DEF Balance
      <3> HIDE DEF here, unread, seen
      <3> QED BY <1>3, <3>1, <3>2, <3>3, <3>4
    <2>3. \A q \in Receivers : Open(q)' <=> Open(q)
      BY <1>1 DEF Open, Closed
    <2> QED BY <2>1, <2>2, <2>3 DEF Funded
  <1> QED BY <1>5, <1>6, <1>7, <1>8, <1>9, <1>10, <1>11 DEF PoolInv

\* A receiver is closed with what it was credited with.
LEMMA CloseStep == ASSUME PoolInv, NEW r \in Receivers, Close(r)
                   PROVE  PoolInv'
  <1> USE DEF accounts, receiver, group, processing, outcome, chain
  <1>1. /\ mu[r] = "free" /\ Monitored(r)
        /\ monitoredAccounts' = [monitoredAccounts EXCEPT ![account[r]] = NoReceiver]
        /\ freeing' = [freeing EXCEPT ![r] = "receive"]
        /\ atClose' = [atClose EXCEPT ![r] = seenPendings[r]]
        /\ UNCHANGED <<pendings, onAccount, coming, created, availableAccounts, account, seenPendings,
                       receivable, inbox, mu, incremented, waiting, worker, todo, collected, refunded,
                       unanswered>>
    BY DEF Close
  <1>2. Open(r) /\ Owner(r) /\ account[r] \in Accounts /\ freeing[r] = "no"
    BY <1>1, PoolAssumption DEF PoolInv, Ownership, Monitored, Open, Owner, Closed
  <1>3. freeing'[r] = "receive" /\ \A q \in Receivers \ {r} : freeing'[q] = freeing[q] /\ atClose'[q] = atClose[q]
    BY <1>1 DEF PoolInv, PoolTypes
  <1>4. \A q \in Receivers : /\ CreditedOpen(q)' = CreditedOpen(q) /\ (NotEmptied(q) => NotEmptied(q)')
                             /\ (Owner(q)' <=> Owner(q)) /\ (Open(q)' <=> Open(q) /\ q # r)
    <2>1. CreditedOpen(r)' = CreditedOpen(r) /\ NotEmptied(r)' /\ Owner(r)' /\ ~Open(r)'
      BY <1>1, <1>2, <1>3 DEF CreditedOpen, Closed, NotEmptied, Owner, Open, PoolInv, PoolTypes
    <2>2. \A q \in Receivers \ {r} : /\ CreditedOpen(q)' = CreditedOpen(q) /\ (NotEmptied(q) => NotEmptied(q)')
                                     /\ (Owner(q)' <=> Owner(q)) /\ (Open(q)' <=> Open(q))
      BY <1>1, <1>3 DEF CreditedOpen, Closed, NotEmptied, Owner, Open
    <2> QED BY <1>2, <2>1, <2>2
  <1>5. PoolTypes'
    BY <1>1 DEF PoolInv, PoolTypes
  <1>6. Amounts' /\ InOnePlace'
    BY <1>1 DEF PoolInv, Amounts, InOnePlace
  <1>7. Ownership'
    <2>1. ASSUME NEW b \in Accounts, NEW q \in Receivers, monitoredAccounts'[b] = q
          PROVE  account[q] = b /\ ~Closed(q)'
      <3>1. b # account[r] /\ monitoredAccounts[b] = q
        BY <1>1, <1>2, <2>1, PoolAssumption DEF PoolInv, PoolTypes
      <3>2. account[q] = b /\ ~Closed(q)
        BY <3>1 DEF PoolInv, Ownership
      <3> QED BY <1>3, <3>1, <3>2 DEF Closed
    <2> QED BY <1>1, <1>4, <2>1 DEF PoolInv, Ownership
  <1>8. Untouched'
    BY <1>1, <1>2, <1>3 DEF PoolInv, Untouched, Open
  <1>9. RevertsWhileOpen'
    BY <1>1, <1>4 DEF PoolInv, RevertsWhileOpen
  <1>10. WorkerOK'
    <2>1. worker.at # "idle" /\ ~Closed(worker.of)' => ~Closed(worker.of)
      BY <1>1, <1>2, <1>3 DEF PoolInv, WorkerOK, Closed, Open
    <2> QED BY <1>1, <1>4, <2>1 DEF PoolInv, WorkerOK, Idle
  <1>11. CreditsInPlace'
    BY <1>1, <1>4 DEF PoolInv, CreditsInPlace
  <1>12. Funded'
    BY <1>1, <1>4 DEF PoolInv, Funded, Balance, Unread, Funds
  <1>13. BooksBalance'
    <2>1. \A q \in Receivers \ {r} : Books(q)'
      BY <1>1, <1>3 DEF PoolInv, BooksBalance, Books, Closed, Balance
    <2>2. atClose'[r] \subseteq seenPendings'[r]
      BY <1>1 DEF PoolInv, PoolTypes
    <2>3. Books(r)'
      BY <1>1, <1>2, <1>3, <2>2 DEF PoolInv, BooksBalance, Books, Closed, Balance
    <2> QED BY <2>1, <2>3 DEF BooksBalance
  <1>14. Awaited'
    <2>1. Awaiting' = Awaiting
      BY <1>1, <1>2, <1>3 DEF PoolInv, PoolTypes, Awaiting
    <2> QED BY <1>1, <2>1 DEF PoolInv, Awaited
  <1> QED BY <1>5, <1>6, <1>7, <1>8, <1>9, <1>10, <1>11, <1>12, <1>13, <1>14 DEF PoolInv

-----------------------------------------------------------------------------
(* Freeing an account                                                      *)

\* A step for a closed receiver that touches the account of no open one, and
\* leaves nothing it was credited with pending once it says so.
LEMMA WhileFreed ==
  ASSUME PoolInv, NEW r \in Receivers, Closed(r), NEW s, s # "no",
         freeing' = [freeing EXCEPT ![r] = s],
         UNCHANGED <<account, seenPendings, atClose, receivable, inbox, mu, coming, worker, todo, refunded>>,
         \A q \in Receivers \ {r} : collected'[q] = collected[q] /\ unanswered'[q] = unanswered[q],
         \A a \in Accounts : pendings'[a] \subseteq pendings[a],
         \A q \in Receivers : Open(q) => /\ pendings'[account[q]] = pendings[account[q]]
                                         /\ onAccount'[account[q]] = onAccount[account[q]],
         \A p \in CreditedOpen(r), a \in Accounts : p \in pendings'[a] => NotEmptied(r)',
         PoolTypes', Ownership', Books(r)', Awaited'
  PROVE  PoolInv'
  <1>1. freeing'[r] = s /\ \A q \in Receivers \ {r} : freeing'[q] = freeing[q]
    BY DEF PoolInv, PoolTypes
  <1>2. \A q \in Receivers : /\ CreditedOpen(q)' = CreditedOpen(q) /\ (Closed(q)' <=> Closed(q))
                             /\ (Open(q)' <=> Open(q)) /\ (q # r => NotEmptied(q)' = NotEmptied(q))
    BY <1>1 DEF CreditedOpen, Closed, Open, NotEmptied
  <1>3. Amounts' /\ InOnePlace' /\ RevertsWhileOpen'
    BY <1>2 DEF PoolInv, Amounts, InOnePlace, RevertsWhileOpen
  <1>4. Untouched'
    BY <1>1 DEF PoolInv, Untouched, Closed
  <1>5. WorkerOK'
    BY <1>2 DEF PoolInv, WorkerOK, Idle
  <1>6. CreditsInPlace'
    BY <1>2 DEF PoolInv, CreditsInPlace
  <1>7. Funded'
    <2>1. ASSUME NEW q \in Receivers, Open(q)
          PROVE  Balance(q)' + Cardinality(Unread(q)' \ pendings'[account'[q]]) <= Funds(q)'
      <3>1. q # r
        BY <2>1 DEF Open
      <3> QED BY <2>1, <3>1, FundsStay
    <2> QED BY <1>2, <2>1 DEF Funded
  <1>8. BooksBalance'
    <2>1. \A q \in Receivers \ {r} : Books(q)'
      BY <1>1, <1>2 DEF PoolInv, BooksBalance, Books, Balance
    <2> QED BY <2>1 DEF BooksBalance
  <1> QED BY <1>3, <1>4, <1>5, <1>6, <1>7, <1>8 DEF PoolInv

\* Everything that is pending is collected, also what was sent to another flow that
\* had the address before.
LEMMA FreeReceiveStep == ASSUME PoolInv, NEW r \in Receivers, FreeReceive(r)
                         PROVE  PoolInv'
  <1> USE DEF accounts, receiver, group, processing, outcome, chain
  <1> DEFINE s(ps) == IF ps = pendings[account[r]] THEN "send" ELSE "receive"
  <1>1. PICK ps \in SUBSET pendings[account[r]] :
          Collect(account[r], ps) /\ freeing' = [freeing EXCEPT ![r] = s(ps)]
    BY DEF FreeReceive
  <1>a. /\ freeing[r] \in {"receive", "send"}
        /\ UNCHANGED <<coming, created, availableAccounts, account, monitoredAccounts, seenPendings,
                       receivable, inbox, mu, incremented, waiting, worker, todo, collected, refunded,
                       unanswered, atClose>>
    BY DEF FreeReceive
  <1>2. Closed(r) /\ Owner(r)
    BY <1>1, <1>a DEF Closed, Owner, PoolInv, Untouched
  <1>3. account[r] \in Accounts /\ \A q \in Receivers : Open(q) => account[q] \in Accounts \ {account[r]}
    BY <1>2, OwnAccount DEF Open
  <1>4. /\ pendings' \in [Accounts -> SUBSET Payments] /\ onAccount' \in [Accounts -> Nat]
        /\ pendings'[account[r]] = pendings[account[r]] \ ps
        /\ \A b \in Accounts \ {account[r]} : pendings'[b] = pendings[b] /\ onAccount'[b] = onAccount[b]
    BY <1>1, <1>a, <1>3, Collecting
  <1>5. PoolTypes'
    BY <1>1, <1>a, <1>4 DEF PoolInv, PoolTypes
  <1>6. /\ freeing'[r] = s(ps) /\ s(ps) \in {"receive", "send"}
        /\ \A q \in Receivers \ {r} : freeing'[q] = freeing[q]
    BY <1>1, <1>a DEF PoolInv, PoolTypes
  <1>7. Ownership'
    <2>1. \A q \in Receivers : (Owner(q)' <=> Owner(q)) /\ (Closed(q)' <=> Closed(q))
      BY <1>1, <1>a, <1>6 DEF Owner, Closed
    <2> QED BY <1>1, <1>a, <2>1 DEF PoolInv, Ownership
  <1>8. Books(r)'
    BY <1>1, <1>a, <1>6 DEF PoolInv, BooksBalance, Books, Closed, Balance
  <1>9. Awaited'
    <2>1. Awaiting' = Awaiting
      BY <1>1, <1>a, <1>6 DEF PoolInv, PoolTypes, Awaiting
    <2> QED BY <1>1, <1>a, <2>1 DEF PoolInv, Awaited
  <1>10. \A p \in CreditedOpen(r), a \in Accounts : p \in pendings'[a] => NotEmptied(r)'
    <2>1. CASE ps = pendings[account[r]]
      BY <1>3, <1>4, <2>1 DEF PoolInv, CreditsInPlace
    <2>2. CASE ps # pendings[account[r]]
      BY <1>6, <2>2 DEF NotEmptied
    <2> QED BY <2>1, <2>2
  <1>11. \A a \in Accounts : pendings'[a] \subseteq pendings[a]
    BY <1>4
  <1>12. \A q \in Receivers : Open(q) => /\ pendings'[account[q]] = pendings[account[q]]
                                         /\ onAccount'[account[q]] = onAccount[account[q]]
    BY <1>3, <1>4
  <1>13. s(ps) # "no"
    BY <1>6
  <1> HIDE DEF accounts, receiver, group, processing, outcome, chain, s
  <1> QED BY <1>1, <1>a, <1>2, <1>5, <1>7, <1>8, <1>9, <1>10, <1>11, <1>12, <1>13, WhileFreed

\* The transfer to the collector account.
LEMMA FreeSendStep == ASSUME PoolInv, NEW r \in Receivers, FreeSend(r)
                      PROVE  PoolInv'
  <1> USE DEF accounts, receiver, group, processing, outcome, chain
  <1>1. /\ freeing[r] = "send" /\ freeing' = [freeing EXCEPT ![r] = "return"]
        /\ Balance(r) <= onAccount[account[r]]
        /\ onAccount' = [onAccount EXCEPT ![account[r]] = @ - Balance(r)]
        /\ collected' = [collected EXCEPT ![r] = @ + Balance(r)]
        /\ UNCHANGED <<pendings, coming, created, availableAccounts, account, monitoredAccounts,
                       seenPendings, receivable, inbox, mu, incremented, waiting, worker, todo, refunded,
                       unanswered, atClose>>
    BY DEF FreeSend, Leaves
  <1>2. Closed(r) /\ Owner(r)
    BY <1>1 DEF Closed, Owner, PoolInv, Untouched
  <1>3. account[r] \in Accounts /\ \A q \in Receivers : Open(q) => account[q] \in Accounts \ {account[r]}
    BY <1>2, OwnAccount DEF Open
  <1>4. /\ Balance(r) \in Nat /\ collected[r] \in Nat /\ refunded[r] \in Nat /\ onAccount[account[r]] \in Nat
        /\ Cardinality(seenPendings[r]) \in Nat /\ Cardinality(atClose[r]) \in Nat
    BY <1>3, NumbersOf DEF PoolInv, PoolTypes
  <1>5. PoolTypes'
    <2>1. onAccount[account[r]] - Balance(r) \in Nat /\ collected[r] + Balance(r) \in Nat
      BY <1>1, <1>4
    <2>2. onAccount' \in [Accounts -> Nat] /\ collected' \in [Receivers -> Nat]
      BY <1>1, <2>1 DEF PoolInv, PoolTypes
    <2> QED BY <1>1, <2>2 DEF PoolInv, PoolTypes
  <1>6. freeing'[r] = "return" /\ \A q \in Receivers \ {r} : freeing'[q] = freeing[q]
    BY <1>1 DEF PoolInv, PoolTypes
  <1>7. Ownership'
    <2>1. \A q \in Receivers : (Owner(q)' <=> Owner(q)) /\ (Closed(q)' <=> Closed(q))
      BY <1>1, <1>6 DEF Owner, Closed
    <2> QED BY <1>1, <2>1 DEF PoolInv, Ownership
  <1>8. Books(r)'
    <2>1. /\ atClose[r] \subseteq seenPendings[r]
          /\ collected[r] = 0 /\ Balance(r) + refunded[r] = Cardinality(seenPendings[r])
          /\ \A i \in 1 .. (Len(receivable[r]) - 1) : receivable[r][i] <= refunded[r]
      BY <1>1, <1>2 DEF PoolInv, BooksBalance, Books
    <2>2. Cardinality(atClose[r]) <= Cardinality(seenPendings[r])
      BY <2>1, FewerPayments DEF PoolInv, PoolTypes
    <2>3. collected'[r] = collected[r] + Balance(r)
      BY <1>1 DEF PoolInv, PoolTypes
    <2>4. /\ Cardinality(atClose[r]) <= collected'[r] + refunded[r]
          /\ collected'[r] + refunded[r] <= Cardinality(seenPendings[r])
      BY <1>4, <2>1, <2>2, <2>3
    <2> QED BY <1>1, <1>6, <2>1, <2>4 DEF Books
  <1>9. Awaited'
    <2>1. Awaiting' = Awaiting
      BY <1>1, <1>6 DEF PoolInv, PoolTypes, Awaiting
    <2> QED BY <1>1, <2>1 DEF PoolInv, Awaited
  <1>10. \A p \in CreditedOpen(r), a \in Accounts : p \in pendings'[a] => NotEmptied(r)'
    BY <1>1 DEF PoolInv, CreditsInPlace, NotEmptied
  <1>11. \A q \in Receivers : Open(q) => /\ pendings'[account[q]] = pendings[account[q]]
                                         /\ onAccount'[account[q]] = onAccount[account[q]]
    BY <1>1, <1>3 DEF PoolInv, PoolTypes
  <1>12. \A q \in Receivers \ {r} : collected'[q] = collected[q] /\ unanswered'[q] = unanswered[q]
    BY <1>1 DEF PoolInv, PoolTypes
  <1> HIDE DEF accounts, receiver, group, processing, outcome, chain
  <1> QED BY <1>1, <1>2, <1>5, <1>7, <1>8, <1>9, <1>10, <1>11, <1>12, WhileFreed

\* A transfer whose Send returned an error is tried again: the books do not count it.
LEMMA FreeSendErrsStep == ASSUME PoolInv, NEW r \in Receivers, FreeSendErrs(r)
                          PROVE  PoolInv'
  <1> USE DEF accounts, receiver, group, processing, outcome, chain
  <1>1. /\ freeing[r] = "send" /\ freeing' = [freeing EXCEPT ![r] = "receive"]
        /\ Balance(r) <= onAccount[account[r]]
        /\ onAccount' = [onAccount EXCEPT ![account[r]] = @ - Balance(r)]
        /\ unanswered' = [unanswered EXCEPT ![r] = @ + Balance(r)]
        /\ UNCHANGED <<pendings, coming, created, availableAccounts, account, monitoredAccounts,
                       seenPendings, receivable, inbox, mu, incremented, waiting, worker, todo, collected,
                       refunded, atClose>>
    BY DEF FreeSendErrs, Leaves
  <1>2. Closed(r) /\ Owner(r)
    BY <1>1 DEF Closed, Owner, PoolInv, Untouched
  <1>3. account[r] \in Accounts /\ \A q \in Receivers : Open(q) => account[q] \in Accounts \ {account[r]}
    BY <1>2, OwnAccount DEF Open
  <1>4. Balance(r) \in Nat /\ unanswered[r] \in Nat /\ onAccount[account[r]] \in Nat
    BY <1>3, NumbersOf DEF PoolInv, PoolTypes
  <1>5. PoolTypes'
    <2>1. onAccount[account[r]] - Balance(r) \in Nat /\ unanswered[r] + Balance(r) \in Nat
      BY <1>1, <1>4
    <2>2. onAccount' \in [Accounts -> Nat] /\ unanswered' \in [Receivers -> Nat]
      BY <1>1, <2>1 DEF PoolInv, PoolTypes
    <2> QED BY <1>1, <2>2 DEF PoolInv, PoolTypes
  <1>6. freeing'[r] = "receive" /\ \A q \in Receivers \ {r} : freeing'[q] = freeing[q]
    BY <1>1 DEF PoolInv, PoolTypes
  <1>7. Ownership'
    <2>1. \A q \in Receivers : (Owner(q)' <=> Owner(q)) /\ (Closed(q)' <=> Closed(q))
      BY <1>1, <1>6 DEF Owner, Closed
    <2> QED BY <1>1, <2>1 DEF PoolInv, Ownership
  <1>8. Books(r)'
    BY <1>1, <1>6 DEF PoolInv, BooksBalance, Books, Closed, Balance
  <1>9. Awaited'
    <2>1. Awaiting' = Awaiting
      BY <1>1, <1>6 DEF PoolInv, PoolTypes, Awaiting
    <2> QED BY <1>1, <2>1 DEF PoolInv, Awaited
  <1>10. \A p \in CreditedOpen(r), a \in Accounts : p \in pendings'[a] => NotEmptied(r)'
    BY <1>6 DEF NotEmptied
  <1>11. \A q \in Receivers : Open(q) => /\ pendings'[account[q]] = pendings[account[q]]
                                         /\ onAccount'[account[q]] = onAccount[account[q]]
    BY <1>1, <1>3 DEF PoolInv, PoolTypes
  <1>12. \A q \in Receivers \ {r} : collected'[q] = collected[q] /\ unanswered'[q] = unanswered[q]
    BY <1>1 DEF PoolInv, PoolTypes
  <1> HIDE DEF accounts, receiver, group, processing, outcome, chain
  <1> QED BY <1>1, <1>2, <1>5, <1>7, <1>8, <1>9, <1>10, <1>11, <1>12, WhileFreed

\* The account goes back to the pool: nobody else has it.
LEMMA ReturnStep == ASSUME PoolInv, NEW r \in Receivers, ReturnAccount(r)
                    PROVE  PoolInv'
  <1> USE DEF accounts, receiver, group, processing, outcome, chain
  <1>1. /\ freeing[r] = "return" /\ freeing' = [freeing EXCEPT ![r] = "returned"]
        /\ availableAccounts' = availableAccounts \cup {account[r]}
        /\ UNCHANGED <<pendings, onAccount, coming, created, account, monitoredAccounts, seenPendings,
                       receivable, inbox, mu, incremented, waiting, worker, todo, collected, refunded,
                       unanswered, atClose>>
    BY DEF ReturnAccount
  <1>2. Closed(r) /\ Owner(r)
    BY <1>1 DEF Closed, Owner, PoolInv, Untouched
  <1>3. account[r] \in created
    BY <1>2 DEF PoolInv, Ownership
  <1>4. PoolTypes'
    BY <1>1, <1>3 DEF PoolInv, PoolTypes
  <1>5. freeing'[r] = "returned" /\ \A q \in Receivers \ {r} : freeing'[q] = freeing[q]
    BY <1>1 DEF PoolInv, PoolTypes
  <1>6. Ownership'
    <2>1. \A q \in Receivers : (Owner(q)' => Owner(q) /\ q # r) /\ (Closed(q)' <=> Closed(q))
      BY <1>1, <1>5 DEF Owner, Closed
    <2> QED BY <1>1, <1>2, <2>1 DEF PoolInv, Ownership
  <1>7. Books(r)'
    BY <1>1, <1>5 DEF PoolInv, BooksBalance, Books, Closed
  <1>8. Awaited'
    <2>1. Awaiting' = Awaiting
      BY <1>1, <1>5 DEF PoolInv, PoolTypes, Awaiting
    <2> QED BY <1>1, <2>1 DEF PoolInv, Awaited
  <1>9. \A p \in CreditedOpen(r), a \in Accounts : p \in pendings'[a] => NotEmptied(r)'
    BY <1>1 DEF PoolInv, CreditsInPlace, NotEmptied
  <1> HIDE DEF accounts, receiver, group, processing, outcome, chain
  <1> QED BY <1>1, <1>2, <1>4, <1>6, <1>7, <1>8, <1>9, WhileFreed

\* The account stays out of the pool.
LEMMA FreeFailsStep == ASSUME PoolInv, NEW r \in Receivers, FreeFails(r)
                       PROVE  PoolInv'
  <1> USE DEF accounts, receiver, group, processing, outcome, chain
  <1>1. /\ freeing[r] \in {"receive", "send"} /\ freeing' = [freeing EXCEPT ![r] = "failed"]
        /\ UNCHANGED <<pendings, onAccount, coming, created, availableAccounts, account,
                       monitoredAccounts, seenPendings, receivable, inbox, mu, incremented, waiting, worker,
                       todo, collected, refunded, unanswered, atClose>>
    BY DEF FreeFails
  <1>2. Closed(r)
    BY <1>1 DEF Closed
  <1>3. PoolTypes'
    BY <1>1 DEF PoolInv, PoolTypes
  <1>4. freeing'[r] = "failed" /\ \A q \in Receivers \ {r} : freeing'[q] = freeing[q]
    BY <1>1 DEF PoolInv, PoolTypes
  <1>5. Ownership'
    <2>1. \A q \in Receivers : (Owner(q)' <=> Owner(q)) /\ (Closed(q)' <=> Closed(q))
      BY <1>1, <1>4 DEF Owner, Closed
    <2> QED BY <1>1, <2>1 DEF PoolInv, Ownership
  <1>6. Books(r)'
    BY <1>1, <1>4 DEF PoolInv, BooksBalance, Books, Closed, Balance
  <1>7. Awaited'
    <2>1. Awaiting' = Awaiting
      BY <1>1, <1>4 DEF PoolInv, PoolTypes, Awaiting
    <2> QED BY <1>1, <2>1 DEF PoolInv, Awaited
  <1>8. NotEmptied(r)'
    BY <1>4 DEF NotEmptied
  <1> HIDE DEF accounts, receiver, group, processing, outcome, chain
  <1> QED BY <1>1, <1>2, <1>3, <1>5, <1>6, <1>7, <1>8, WhileFreed

\* Whoever was counted is counted off once.
LEMMA FreeDoneStep == ASSUME PoolInv, NEW r \in Receivers, FreeDone(r)
                      PROVE  PoolInv'
  <1> USE DEF accounts, receiver, group, processing, outcome, chain
  <1> DEFINE s == IF freeing[r] = "returned" THEN "done" ELSE "given up"
  <1>1. /\ freeing[r] \in {"returned", "failed"} /\ freeing' = [freeing EXCEPT ![r] = s]
        /\ waiting' = IF r \in incremented THEN waiting - 1 ELSE waiting
        /\ UNCHANGED <<pendings, onAccount, coming, created, availableAccounts, account,
                       monitoredAccounts, seenPendings, receivable, inbox, mu, incremented, worker, todo,
                       collected, refunded, unanswered, atClose>>
    BY DEF FreeDone, PoolInv, PoolTypes
  <1>2. Closed(r)
    BY <1>1 DEF Closed
  <1>3. /\ freeing'[r] = s /\ s \in {"done", "given up"} /\ (s = "done" <=> freeing[r] = "returned")
        /\ \A q \in Receivers \ {r} : freeing'[q] = freeing[q]
    BY <1>1 DEF PoolInv, PoolTypes
  <1>4. waiting' \in Nat /\ Awaited'
    <2>1. Awaiting' = Awaiting \ {r} /\ (r \in Awaiting <=> r \in incremented)
      BY <1>1, <1>3 DEF Awaiting, PoolInv, PoolTypes
    <2>2. /\ IsFiniteSet(Awaiting) /\ Cardinality(Awaiting) \in Nat /\ waiting \in Nat
          /\ Cardinality(Awaiting) <= waiting
      BY Counted DEF PoolInv, PoolTypes, Awaited, Awaiting
    <2>3. CASE r \in incremented
      <3>1. Cardinality(Awaiting') = Cardinality(Awaiting) - 1 /\ Cardinality(Awaiting') \in Nat
        <4>1. Cardinality(Awaiting \ {r}) = Cardinality(Awaiting) - 1
          BY <2>1, <2>2, <2>3, FS_RemoveElement
        <4>2. Cardinality(Awaiting \ {r}) \in Nat
          BY Counted DEF PoolInv, PoolTypes, Awaiting
        <4> QED BY <2>1, <4>1, <4>2
      <3>2. waiting' = waiting - 1
        BY <1>1, <2>3
      <3>3. Cardinality(Awaiting') <= waiting' /\ waiting' \in Nat
        BY <2>2, <3>1, <3>2
      <3> QED BY <3>3 DEF Awaited
    <2>4. CASE r \notin incremented
      BY <1>1, <2>1, <2>2, <2>4 DEF Awaited
    <2> QED BY <2>3, <2>4
  <1>5. PoolTypes'
    BY <1>1, <1>4 DEF PoolInv, PoolTypes
  <1>6. Ownership'
    <2>1. \A q \in Receivers : (Owner(q)' <=> Owner(q)) /\ (Closed(q)' <=> Closed(q))
      BY <1>1, <1>3 DEF Owner, Closed
    <2> QED BY <1>1, <2>1 DEF PoolInv, Ownership
  <1>7. Books(r)'
    BY <1>1, <1>3 DEF PoolInv, BooksBalance, Books, Closed, Balance
  <1>8. \A p \in CreditedOpen(r), a \in Accounts : p \in pendings'[a] => NotEmptied(r)'
    BY <1>1, <1>3 DEF PoolInv, CreditsInPlace, NotEmptied
  <1>9. s # "no"
    OBVIOUS
  <1> HIDE DEF accounts, receiver, group, processing, outcome, chain, s
  <1> QED BY <1>1, <1>2, <1>4, <1>5, <1>6, <1>7, <1>8, <1>9, WhileFreed

-----------------------------------------------------------------------------
(* All steps of the pool                                                   *)

\* What the pool, its worker and the owners of the receivers may do.
PoolAction ==
  \/ CopyMonitored \/ ReadFails \/ LockReceiver \/ UnlockReceiver
  \/ \E a \in Accounts : DropAccount(a) \/ \E p \in Payments : Pay(a, p)
  \/ \E p \in Payments : ProcessPayment(p)
  \/ \E r \in Receivers :
       \/ \E a \in Accounts : RequestAccount(r, a)
       \/ ReceivePayment(r) \/ ReadPendings(r) \/ Close(r)
       \/ (Open(r) /\ RevertLock(r)) \/ RevertReceive(r) \/ RevertSend(r) \/ RevertSendErrs(r)
       \/ RevertFails(r) \/ FreeReceive(r) \/ FreeSend(r) \/ FreeSendErrs(r) \/ ReturnAccount(r) \/ FreeFails(r) \/ FreeDone(r)

\* The pool starts without accounts.
LEMMA PoolStarts == ASSUME PoolInit
                    PROVE  PoolInv /\ CreditedToOneReceiver
  <1> USE DEF PoolInit
  <1>1. PoolTypes
    BY DEF PoolTypes, Idle, Looking
  <1>2. Amounts /\ Untouched /\ RevertsWhileOpen /\ InOnePlace
    BY DEF Amounts, Untouched, RevertsWhileOpen, InOnePlace
  <1>3. Ownership
    BY PoolAssumption DEF Ownership, Owner
  <1>4. WorkerOK
    BY DEF WorkerOK, Idle, Looking
  <1>5. CreditsInPlace /\ CreditedToOneReceiver
    BY DEF CreditsInPlace, CreditedToOneReceiver, CreditedOpen, Closed
  <1>6. Funded
    BY DEF Funded, Open
  <1>7. BooksBalance
    <2>1. ASSUME NEW r \in Receivers PROVE Books(r)
      <3>1. Balance(r) = 0 /\ Cardinality(seenPendings[r]) = 0 /\ Len(receivable[r]) = 1
        BY FS_EmptySet DEF Balance
      <3> QED BY <3>1 DEF Books, Closed
    <2> QED BY <2>1 DEF BooksBalance
  <1>8. Awaited
    <2>1. Awaiting = {}
      BY DEF Awaiting
    <2> QED BY <2>1, FS_EmptySet DEF Awaited
  <1> QED BY <1>1, <1>2, <1>3, <1>4, <1>5, <1>6, <1>7, <1>8 DEF PoolInv

\* Only the worker credits payments, and only those that are nobody else's.
LEMMA CreditedOnce == ASSUME PoolInv, CreditedToOneReceiver, PoolAction
                      PROVE  CreditedToOneReceiver'
  <1> USE DEF accounts, receiver, group, processing, outcome, chain
  <1>1. ASSUME NEW p \in Payments, ProcessPayment(p) PROVE CreditedToOneReceiver'
    <2>1. PICK r \in Receivers : r = worker.of
      BY <1>1 DEF ProcessPayment, PoolInv, WorkerOK
    <2>2. /\ seenPendings' = [seenPendings EXCEPT ![r] = @ \cup {p}] /\ UNCHANGED <<freeing, atClose>>
          /\ worker.at = "locked" /\ p \in worker.read
      BY <1>1, <2>1 DEF ProcessPayment
    <2>3. \A q \in Receivers \ {r} : CreditedOpen(q)' = CreditedOpen(q)
      BY <2>2 DEF CreditedOpen, Closed, PoolInv, PoolTypes
    <2>4. CASE Closed(r)
      BY <2>2, <2>3, <2>4 DEF CreditedToOneReceiver, CreditedOpen, Closed
    <2>5. CASE ~Closed(r)
      <3>1. CreditedOpen(r)' = CreditedOpen(r) \cup {p}
        BY <2>2, <2>5 DEF CreditedOpen, Closed, PoolInv, PoolTypes
      <3>2. \A q \in Receivers \ {r} : p \notin CreditedOpen(q)
        BY <2>1, <2>2, <2>5 DEF PoolInv, WorkerOK
      <3> QED BY <2>3, <3>1, <3>2 DEF CreditedToOneReceiver
    <2> QED BY <2>4, <2>5
  <1>2. ASSUME NEW r \in Receivers, Close(r) PROVE \A q \in Receivers : CreditedOpen(q)' = CreditedOpen(q)
    <2>1. /\ freeing' = [freeing EXCEPT ![r] = "receive"] /\ atClose' = [atClose EXCEPT ![r] = seenPendings[r]]
          /\ UNCHANGED seenPendings
      BY <1>2 DEF Close
    <2>2. ~Closed(r)
      BY <1>2, PoolAssumption DEF Close, Monitored, PoolInv, Ownership
    <2> QED BY <2>1, <2>2 DEF CreditedOpen, Closed, PoolInv, PoolTypes
  <1>3. ASSUME NEW r \in Receivers,
               \/ FreeReceive(r) \/ FreeSend(r) \/ FreeSendErrs(r) \/ ReturnAccount(r) \/ FreeFails(r)
               \/ FreeDone(r)
        PROVE  \A q \in Receivers : CreditedOpen(q)' = CreditedOpen(q)
    <2>1. \A q \in Receivers : Closed(q)' <=> Closed(q)
      BY <1>3 DEF Closed, FreeReceive, FreeSend, FreeSendErrs, ReturnAccount, FreeFails, FreeDone, PoolInv,
                  PoolTypes
    <2>2. UNCHANGED <<seenPendings, atClose>>
      BY <1>3 DEF FreeReceive, FreeSend, FreeSendErrs, ReturnAccount, FreeFails, FreeDone
    <2> QED BY <2>1, <2>2 DEF CreditedOpen
  <1>4. CASE UNCHANGED <<seenPendings, freeing, atClose>>
    BY <1>4 DEF CreditedToOneReceiver, CreditedOpen, Closed
  <1>5. \/ \E p \in Payments : ProcessPayment(p)
        \/ \E r \in Receivers : \/ Close(r) \/ FreeReceive(r) \/ FreeSend(r) \/ FreeSendErrs(r)
                                \/ ReturnAccount(r) \/ FreeFails(r) \/ FreeDone(r)
        \/ UNCHANGED <<seenPendings, freeing, atClose>>
    BY DEF PoolAction, CopyMonitored, ReadFails, LockReceiver, UnlockReceiver, DropAccount, Pay, RequestAccount,
           ReceivePayment, ReadPendings, RevertLock, RevertReceive, RevertSend, RevertSendErrs,
           RevertFails
  <1> QED BY <1>1, <1>2, <1>3, <1>4, <1>5 DEF CreditedToOneReceiver

\* Every step of the pool preserves the invariant.
LEMMA PoolPreserved == ASSUME PoolInv, CreditedToOneReceiver, PoolAction
                       PROVE  PoolInv' /\ CreditedToOneReceiver'
  <1>1. PoolInv'
    BY PayStep, AccountStep, MutexStep, ReadStep, RoundStep, LockStep, UnlockStep, CreditingStep, RequestStep,
       RevertReceiveStep, RevertSendStep, RevertSendErrsStep, CloseStep, FreeReceiveStep, FreeSendStep,
       FreeSendErrsStep, ReturnStep, FreeFailsStep, FreeDoneStep
       DEF PoolAction
  <1> QED BY <1>1, CreditedOnce

\* A step of others leaves it true.
LEMMA PoolUnchanged == ASSUME PoolInv, CreditedToOneReceiver, UNCHANGED poolVars
                       PROVE  PoolInv' /\ CreditedToOneReceiver'
  <1> USE DEF poolVars, accounts, receiver, group, processing, outcome, chain
  <1>1. PoolTypes' /\ Ownership' /\ RevertsWhileOpen'
    <2>1. PoolTypes'
      BY DEF PoolInv, PoolTypes
    <2>2. Ownership'
      BY DEF PoolInv, Ownership, Owner, Closed
    <2>3. mu' = mu /\ \A r \in Receivers : Open(r)' = Open(r)
      BY DEF Open, Closed
    <2>4. RevertsWhileOpen'
      BY <2>3 DEF PoolInv, RevertsWhileOpen
    <2> QED BY <2>1, <2>2, <2>4
  <1>2. WorkerOK' /\ CreditedToOneReceiver' /\ \A r \in Receivers : Unread(r)' = Unread(r)
    <2>1. WorkerOK'
      <3>1. /\ worker' = worker /\ todo' = todo /\ coming' = coming /\ pendings' = pendings
            /\ account' = account /\ seenPendings' = seenPendings /\ freeing' = freeing
            /\ \A r \in Receivers : CreditedOpen(r)' = CreditedOpen(r)
        BY DEF CreditedOpen, Closed
      <3> QED BY <3>1 DEF PoolInv, WorkerOK, Idle, Closed
    <2>2. CreditedToOneReceiver'
      BY DEF CreditedToOneReceiver, CreditedOpen, Closed
    <2>3. \A r \in Receivers : Unread(r)' = Unread(r)
      BY DEF Unread
    <2> QED BY <2>1, <2>2, <2>3
  <1> QED BY <1>1, <1>2, MoneyStays

\* The owner of a receiver takes notifications out of its channel.
LEMMA NotificationTaken ==
  ASSUME PoolInv, CreditedToOneReceiver, NEW r \in Receivers,
         NEW s \in Seq(Nat), \A i \in 1 .. Len(s) : s[i] <= Len(receivable[r]),
         inbox' = [inbox EXCEPT ![r] = s],
         UNCHANGED <<chain, accounts, account, monitoredAccounts, seenPendings, receivable, mu, group,
                     processing, freeing, outcome>>
  PROVE  PoolInv' /\ CreditedToOneReceiver'
  <1> USE DEF accounts, group, processing, outcome, chain
  <1>1. PoolTypes' /\ Amounts'
    BY DEF PoolInv, PoolTypes, Amounts
  <1>2. Ownership' /\ Untouched' /\ RevertsWhileOpen' /\ InOnePlace'
    BY DEF PoolInv, Ownership, Owner, Closed, Untouched, RevertsWhileOpen, Open, InOnePlace
  <1>3. WorkerOK' /\ CreditsInPlace' /\ CreditedToOneReceiver'
    <2>1. \A q \in Receivers : CreditedOpen(q)' = CreditedOpen(q) /\ (NotEmptied(q)' <=> NotEmptied(q))
      BY DEF CreditedOpen, Closed, NotEmptied
    <2>2. WorkerOK'
      BY <2>1 DEF PoolInv, WorkerOK, Idle, Closed
    <2>3. CreditsInPlace' /\ CreditedToOneReceiver'
      BY <2>1 DEF PoolInv, CreditsInPlace, CreditedToOneReceiver
    <2> QED BY <2>2, <2>3
  <1>4. Funded'
    BY DEF PoolInv, Funded, Open, Closed, Balance, Unread, Funds
  <1>5. BooksBalance' /\ Awaited'
    BY DEF PoolInv, BooksBalance, Books, Closed, Balance, Awaited, Awaiting
  <1> QED BY <1>1, <1>2, <1>3, <1>4, <1>5 DEF PoolInv

-----------------------------------------------------------------------------
(* What the invariant is for                                               *)

\* An account goes back when its receiver is settled.
LEMMA SettledWhenReturned == PoolInv => ReturnedIsSettled
  BY DEF PoolInv, BooksBalance, Books, ReturnedIsSettled

\* A receiver that is monitored is open, and what it says is receivable is there.
LEMMA ThereWhileMonitored == PoolInv => ReceivableIsThere
  <1> SUFFICES ASSUME PoolInv, NEW r \in Receivers, Monitored(r) PROVE Balance(r) <= Funds(r)
    BY DEF ReceivableIsThere, Funds
  <1>1. Open(r)
    BY PoolAssumption DEF PoolInv, Ownership, Monitored, Open
  <1>2. Balance(r) + Cardinality(Unread(r) \ pendings[account[r]]) <= Funds(r)
    BY <1>1 DEF PoolInv, Funded
  <1>3. Cardinality(Unread(r) \ pendings[account[r]]) \in Nat /\ Balance(r) \in Nat
    <2>1. Unread(r) \ pendings[account[r]] \in SUBSET Payments
      BY DEF PoolInv, PoolTypes, Unread
    <2> QED BY <2>1, Counted, NumbersOf
  <1>4. Funds(r) \in Nat
    <2>1. account[r] \in Accounts /\ pendings[account[r]] \cap seenPendings[r] \in SUBSET Payments
      BY <1>1 DEF PoolInv, PoolTypes, Open
    <2>2. onAccount[account[r]] \in Nat /\ Cardinality(pendings[account[r]] \cap seenPendings[r]) \in Nat
      BY <2>1, Counted DEF PoolInv, PoolTypes
    <2> QED BY <2>2, NumbersOf DEF Funds
  <1> QED BY <1>2, <1>3, <1>4
=============================================================================
