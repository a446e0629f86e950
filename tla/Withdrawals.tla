----------------------------- MODULE Withdrawals -----------------------------
(***************************************************************************)
(* Rewards on their way from a balance to the network                      *)
(* (server/components/withdrawalhandler, server/grpc_withdrawals.go and    *)
(* the tables of types/).  Users and the automatic withdrawal turn         *)
(* balances into pending withdrawals, each in a transaction at the default *)
(* level of the database (read committed); one worker sends the pending    *)
(* ones and records them, and undoes those the ledger does not know.       *)
(*                                                                         *)
(* Amounts are counted in units of one reward.  A block is identified by   *)
(* its place in the order of sending, a pending withdrawal by started_at,  *)
(* also a count here.                                                      *)
(***************************************************************************)
EXTENDS Integers, FiniteSets

CONSTANTS
  Users,
  Calls,       \* withdrawals being initiated at a time
  MaxRewards,  \* bound on the rewards each user earns
  MaxStarted,  \* bound on the pending withdrawals created
  MaxBlocks,   \* bound on the blocks sent
  MaxStops     \* bound on the times the process stops

ASSUME WithdrawalsAssumption == {MaxRewards, MaxStarted, MaxBlocks, MaxStops} \subseteq Nat

VARIABLES
  balance,     \* reward_balance
  pending,     \* pending_withdrawal, a set of rows, one per user at most
  withdrawals, \* withdrawal, a set of blocks
  ledger,      \* the blocks of the collector account that the network knows
  call,        \* the transaction of each call that initiates withdrawals
  queue,       \* the pending withdrawals the worker has read and not completed
  completing,  \* where the worker is in CompleteWithdrawal
  current,     \* the pending withdrawal it has deleted in its transaction, if any
  block,       \* the block it sent for it, if any
  earned,      \* the rewards each user has earned
  started,     \* pending withdrawals created
  sent,        \* blocks sent
  stops,       \* times the process stopped
  unrecorded   \* the blocks sent in transactions that were rolled back

tables == <<balance, pending, withdrawals>>
working == <<queue, completing, current, block>>
withdrawalsVars == <<tables, ledger, call, working, earned, started, sent, stops, unrecorded>>

-----------------------------------------------------------------------------
NoCall == [at |-> "idle", of |-> {}, amount |-> [u \in Users |-> 0]]

Of(us) == [u \in Users |-> IF u \in us THEN balance[u] ELSE 0]

HasPending(u) == \E p \in pending : p.user = u

\* Rows with uncommitted changes by another call, or by the worker.
BalanceUnlocked(c, us) ==
  \A d \in Calls \ {c} : call[d].at \in {"insert", "commit"} => call[d].of \cap us = {}
PendingUnlocked(c, us) ==
  /\ \A d \in Calls \ {c} : call[d].at = "commit" => call[d].of \cap us = {}
  /\ \A p \in current : p.user \notin us

-----------------------------------------------------------------------------
(* Rewards                                                                 *)

\* AdjustRewardBalanceOfAddresses, for a reward.
Reward(u) ==
  /\ earned[u] < MaxRewards
  /\ \A c \in Calls : BalanceUnlocked(c, {u})
  /\ balance' = [balance EXCEPT ![u] = @ + 1]
  /\ earned' = [earned EXCEPT ![u] = @ + 1]
  /\ UNCHANGED <<pending, withdrawals, ledger, call, working, started, sent, stops, unrecorded>>

-----------------------------------------------------------------------------
(* Withdraw and AutoWithdrawBalances                                       *)

Goes(c, t) == /\ call' = [call EXCEPT ![c] = t]
              /\ UNCHANGED <<ledger, working, earned, sent, stops, unrecorded>>

\* Withdraw reads the balance of the user.
Withdraw(c, u) ==
  /\ call[c] = NoCall
  /\ balance[u] > 0
  /\ Goes(c, [at |-> "check", of |-> {u}, amount |-> Of({u})])
  /\ UNCHANGED <<tables, started>>

\* Withdraw looks for a pending withdrawal; with one, the call ends.
CheckPending(c) ==
  /\ call[c].at = "check"
  /\ Goes(c, IF \E u \in call[c].of : HasPending(u) THEN NoCall ELSE [call[c] EXCEPT !.at = "zero"])
  /\ UNCHANGED <<tables, started>>

\* GetRewardBalancesReadyForAutoWithdrawal looks at both tables at once; which
\* balances are large or old enough is left open.
AutoWithdrawBalances(c) ==
  /\ call[c] = NoCall
  /\ \E us \in (SUBSET {u \in Users : balance[u] > 0 /\ ~HasPending(u)}) \ {{}} :
       Goes(c, [at |-> "zero", of |-> us, amount |-> Of(us)])
  /\ UNCHANGED <<tables, started>>

\* ZeroRewardBalanceOfAddresses, not yet committed.
ZeroBalances(c) ==
  /\ call[c].at = "zero"
  /\ BalanceUnlocked(c, call[c].of)
  /\ Goes(c, [call[c] EXCEPT !.at = "insert"])
  /\ UNCHANGED <<tables, started>>

\* InsertPendingWithdrawals fails when one of the users has one; then the whole
\* transaction is rolled back.
InsertPending(c) ==
  /\ call[c].at = "insert"
  /\ PendingUnlocked(c, call[c].of)
  /\ Goes(c, IF \E u \in call[c].of : HasPending(u) THEN NoCall ELSE [call[c] EXCEPT !.at = "commit"])
  /\ UNCHANGED <<tables, started>>

\* Mutant: the balance is left as it is.
CommitWithdraw_KeepsBalance(c) ==
  /\ call[c].at = "commit"
  /\ started < MaxStarted
  /\ pending' = pending \cup {[user |-> u, amount |-> call[c].amount[u], started |-> started + 1] :
                                u \in call[c].of}
  /\ started' = started + 1
  /\ Goes(c, NoCall)
  /\ UNCHANGED <<balance, withdrawals>>

\* The pending withdrawals of one call have the same started_at.
CommitWithdraw(c) ==
  /\ call[c].at = "commit"
  /\ started < MaxStarted
  /\ balance' = [u \in Users |-> IF u \in call[c].of THEN 0 ELSE balance[u]]
  /\ pending' = pending \cup {[user |-> u, amount |-> call[c].amount[u], started |-> started + 1] :
                                u \in call[c].of}
  /\ started' = started + 1
  /\ Goes(c, NoCall)
  /\ UNCHANGED withdrawals

\* A statement fails or the caller goes away.
RollbackWithdraw(c) ==
  /\ call[c] # NoCall
  /\ Goes(c, NoCall)
  /\ UNCHANGED <<tables, started>>

-----------------------------------------------------------------------------
(* The worker                                                              *)

\* CompleteAllPendingWithdrawals reads the list.
CompleteAllPendingWithdrawals ==
  /\ completing = "idle"
  /\ queue = {}
  /\ pending # {}
  /\ queue' = pending
  /\ UNCHANGED <<tables, ledger, call, completing, current, block, earned, started, sent, stops, unrecorded>>

\* CompleteWithdrawal deletes the pending withdrawal of the user; without one it
\* fails, and the error ends the list.  Their order is left open.
DeletePending ==
  /\ completing = "idle"
  /\ \E p \in queue :
       IF HasPending(p.user)
       THEN completing' = "send" /\ current' = {p} /\ queue' = queue \ {p}
       ELSE queue' = {} /\ UNCHANGED <<completing, current>>
  /\ UNCHANGED <<tables, ledger, call, block, earned, started, sent, stops, unrecorded>>

\* The callback in the queue of the collector account.
Send ==
  /\ completing = "send"
  /\ sent < MaxBlocks
  /\ \E p \in current :
       LET b == [user |-> p.user, amount |-> p.amount, started |-> p.started, number |-> sent + 1]
       IN  block' = {b} /\ ledger' = ledger \cup {b}
  /\ sent' = sent + 1
  /\ completing' = "record"
  /\ UNCHANGED <<tables, call, queue, current, earned, started, stops, unrecorded>>

\* Send fails (before or after its block is known), or the insertion or the
\* commit does: the transaction is rolled
\* back and the error ends the list.
CompleteFails ==
  /\ completing \in {"send", "record"}
  /\ unrecorded' = unrecorded \cup block
  /\ completing' = "idle" /\ current' = {} /\ block' = {} /\ queue' = {}
  /\ UNCHANGED <<tables, ledger, call, earned, started, sent, stops>>

\* Mutant: the pending withdrawal is only deleted once it is recorded, apart.
Record_LeavesPending ==
  /\ completing = "record"
  /\ withdrawals' = withdrawals \cup block
  /\ completing' = "idle" /\ current' = {} /\ block' = {}
  /\ UNCHANGED <<balance, pending, ledger, call, queue, earned, started, sent, stops, unrecorded>>

\* Mutant: every pending withdrawal is deleted.
Record_DeletesAll ==
  /\ completing = "record"
  /\ withdrawals' = withdrawals \cup block
  /\ pending' = {}
  /\ completing' = "idle" /\ current' = {} /\ block' = {}
  /\ UNCHANGED <<balance, ledger, call, queue, earned, started, sent, stops, unrecorded>>

\* The withdrawal is inserted and the transaction committed, with the deletion
\* of what is pending for the user.
Record ==
  /\ completing = "record"
  /\ withdrawals' = withdrawals \cup block
  /\ pending' = {p \in pending : \A q \in current : p.user # q.user}
  /\ completing' = "idle" /\ current' = {} /\ block' = {}
  /\ UNCHANGED <<balance, ledger, call, queue, earned, started, sent, stops, unrecorded>>

\* What blocks, or pending withdrawals, are worth: their rewards, one by one.
Rewards(blocks) == UNION {{b} \X (1..b.amount) : b \in blocks}
Sum(blocks) == Cardinality(Rewards(blocks))
OfUser(blocks, u) == {b \in blocks : b.user = u}

\* findAndUndoInvalidWithdrawals, when some are found.
FindAndUndoInvalidWithdrawals ==
  /\ completing = "idle"
  /\ queue = {}
  /\ LET invalid == withdrawals \ ledger
         us == {b.user : b \in invalid}
     IN  /\ invalid # {}
         /\ \A c \in Calls : BalanceUnlocked(c, us)
         /\ withdrawals' = withdrawals \ invalid
         /\ balance' = [u \in Users |-> balance[u] + Sum(OfUser(invalid, u))]
  /\ UNCHANGED <<pending, ledger, call, working, earned, started, sent, stops, unrecorded>>

-----------------------------------------------------------------------------
(* The surroundings                                                        *)

\* A block that was accepted never makes it to the ledger.
LoseBlock ==
  /\ \E b \in ledger : ledger' = ledger \ {b}
  /\ UNCHANGED <<tables, call, working, earned, started, sent, stops, unrecorded>>

\* The process stops and is started again.
Restart ==
  /\ stops < MaxStops
  /\ stops' = stops + 1
  /\ call' = [c \in Calls |-> NoCall]
  /\ unrecorded' = unrecorded \cup block
  /\ queue' = {} /\ completing' = "idle" /\ current' = {} /\ block' = {}
  /\ UNCHANGED <<tables, ledger, earned, started, sent>>

-----------------------------------------------------------------------------
WithdrawalsInit ==
  /\ balance = [u \in Users |-> 0]
  /\ pending = {}
  /\ withdrawals = {}
  /\ ledger = {}
  /\ call = [c \in Calls |-> NoCall]
  /\ queue = {} /\ completing = "idle" /\ current = {} /\ block = {}
  /\ earned = [u \in Users |-> 0]
  /\ started = 0 /\ sent = 0 /\ stops = 0
  /\ unrecorded = {}

WithdrawalsNext ==
  \/ \E u \in Users : Reward(u)
  \/ \E c \in Calls : \/ \E u \in Users : Withdraw(c, u)
                      \/ CheckPending(c) \/ AutoWithdrawBalances(c) \/ ZeroBalances(c)
                      \/ InsertPending(c) \/ CommitWithdraw(c) \/ RollbackWithdraw(c)
  \/ CompleteAllPendingWithdrawals \/ DeletePending \/ Send \/ CompleteFails \/ Record
  \/ FindAndUndoInvalidWithdrawals
  \/ LoseBlock
  \/ Restart

WithdrawalsSpec == WithdrawalsInit /\ [][WithdrawalsNext]_withdrawalsVars
-----------------------------------------------------------------------------
(* Properties                                                              *)

PendingRows == [user : Users, amount : Nat, started : 1..MaxStarted]
Blocks == [user : Users, amount : Nat, started : 1..MaxStarted, number : 1..MaxBlocks]

\* Every variable has the shape its declaration describes; the rows of pending
\* withdrawals have different keys.
WithdrawalsTypeOK ==
  /\ balance \in [Users -> Nat]
  /\ pending \subseteq PendingRows
  /\ \A p, q \in pending : p.user = q.user => p = q
  /\ withdrawals \subseteq Blocks /\ ledger \subseteq Blocks /\ block \subseteq Blocks
  /\ unrecorded \subseteq Blocks
  /\ \A c \in Calls : /\ call[c].at \in {"idle", "check", "zero", "insert", "commit"}
                      /\ call[c].of \subseteq Users
                      /\ call[c].amount \in [Users -> Nat]
  /\ queue \subseteq PendingRows /\ current \subseteq PendingRows
  /\ completing \in {"idle", "send", "record"}
  /\ earned \in [Users -> 0..MaxRewards]
  /\ started \in 0..MaxStarted /\ sent \in 0..MaxBlocks /\ stops \in 0..MaxStops

\* What the database knows a user to have been given.
Total(u) == balance[u] + Sum(OfUser(pending, u)) + Sum(OfUser(withdrawals, u))

\* Only a call that withdraws another balance than the one it zeroes changes what
\* a user has been given, a reward aside: whatever fails, stops, is sent again or
\* is undone in between, nothing is created and nothing lost in the database
\* (withdrawal_handler.go:223, 320-345).
Stale(c, u) == call[c].at = "commit" /\ u \in call[c].of /\ call[c].amount[u] # balance[u]

OnlyStaleCallsMiscount ==
  [][\A u \in Users : Total(u)' = Total(u) + (earned[u]' - earned[u])
                      \/ \E c \in Calls : Stale(c, u) /\ call[c]' = NoCall]_withdrawalsVars

\* Whatever the worker sends is sent for the withdrawal that is pending at that
\* time, and no call can replace it meanwhile, although what is deleted is the row
\* of the user and what is sent is the amount read with the list
\* (withdrawal_handler.go:225-226, 240).
SendsWhatIsPending == current \subseteq pending /\ queue \subseteq pending

\* A withdrawal is recorded once, and one that is still pending, other than the one
\* being sent, only went out if its transaction was rolled back after the block was
\* sent: "the ones that did not go out will remain as pending withdrawals"
\* (withdrawal_handler.go:165-166, 213-261).
RecordedOnce ==
  /\ \A b, d \in withdrawals : b.started = d.started /\ b.user = d.user => b = d
  /\ withdrawals \cap unrecorded = {}
  /\ \A b \in ledger \ unrecorded, p \in pending \ current : ~(b.started = p.started /\ b.user = p.user)
=============================================================================
