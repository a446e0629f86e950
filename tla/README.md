# A verification project for JungleTV

JungleTV plays one queue of media to everybody who is watching. Viewers pay
(in Banano, a cryptocurrency) or spend points to enqueue, spectators who stay
active are rewarded with what was paid, rewards accumulate in balances and are
withdrawn, and every week the tickets of those who enqueued take part in a
raffle. The server is one Go process over PostgreSQL and a Banano node; the
client is a Svelte application that follows it through streams.

This directory holds TLA+ specifications of the parts of the server and of the
client in which goroutines, events, transactions, restarts and the network meet,
the TLC configurations that check them on small instances, and proofs, checked
by TLAPS, that hold for any instance. Definitions are translated from the Go,
TypeScript and Svelte source; `PROJECT.json`
names the lines of each (`map`), the dangers of the code at their lines
(`hazards`), and what each run and theorem is about.

To check a run: `tlc -config MediaQueueSafety.cfg MediaQueueMC.tla`; to check
proofs: `tlapm MediaQueueProofs.tla`.

Contents: 1 inventory; 2 modules; 3 runs; 4 fairness; 5 proofs; 6 findings;
7 abstractions; 8 what is not modelled; 9 plan.

## 1. Inventory

Paths are under `src/`; `components/` is `src/server/components/`.

### Playback

**Media queue** (`components/mediaqueue`). State: the slice of entries under
`queueMutex`, the insert cursor, three settings, a rate limiter for removals of
own entries, `playingSince`, a JSON file, the rows of `played_media` and of
media queue events. Operations: `Enqueue`, `playAfterNext`, `playNow`,
`removeEntry`, `RemoveOwnEntry`, `MoveEntry`, `SkipCurrentEntry`, the setters,
and two workers: `ProcessQueueWorker`, which plays the head, waits for it to be
done and removes it, and `persistenceWorker`, which writes the file whenever
`queueUpdated` fires. It interacts with the entries (`Play`, `Stop`,
`donePlaying`), and tells rewards, skip and tip, statistics and the streams to
clients through events (`mediaChanged`, `entryAdded`, `entryRemoved`, ...).
Hard: the worker holds the mutex only for two moments of its loop, so callers
reorder, insert and stop entries between any two of its steps; a removal of the
playing entry is a `Stop` that relies on the worker to notice; the file and the
database are written by different goroutines and a crash falls between them.
Correct if: only the head plays; the head leaves only after being stopped; each
removal is announced once; the cursor marks a queued entry; order is only
changed by moves; a restart brings back what was queued.

**Media entries and providers** (`server/media`). State of an entry: whether it
started and was played, and the goroutine that stops it after its length.
Providers build entries from web services and have no state.

**Skip and tip** (`components/skipmanager`). State: two accounts (crowdfunded
skip, rain), the skip threshold, whether skipping is possible now. A worker
polls balances and skips, another moves funds when media change. Hard: the
threshold and the current media change between a poll and the skip.

### Events

**Events** (`utils/event`, `utils/fastcollection`). `Event`: subscribers by
buffering strategy (`BufferFirst`, `BufferLatest`, `BufferAll`), notifications
deferred to the first subscriber. `Keyed`: a map from key to event, created on
subscription, with one cleanup goroutine per event that deletes it from the map
when its subscriber count is 0, and notifications kept for keys without one.
Nearly every component is built on these. Hard: the cleanup decides on a count
it was sent earlier; `Notify` gives up its read lock to take the write lock;
slots of collections are used again. Correct if: who is subscribed is reached by
exactly what is sent, in order, and deferred notifications reach the first
subscriber.

### Money

**Payments** (`components/payment`). State: wallet accounts, free or monitored
by a receiver; of each receiver the receivable balance, the hashes seen and a
mutex; a wait group. A worker polls the node for each monitored account; a
receiver is reverted (refund) or closed by its owner, and closing starts a
goroutine that forwards the funds to the collector account and frees the
account. Hard: the worker goes over a *copy* of the monitored accounts, so a
receiver may be closed between the read of its pending blocks and the credit;
accounts are used again; each call to the node may fail, and a `Send` may return
an error for a block that the node accepted, after which it is made again.
Correct if: what was credited is forwarded or refunded exactly once, but for what
left in such `Send`s, and no payment counts twice.

**Enqueue manager** (`components/enqueuemanager`). State: tickets by ID, each
with a receiver, its flags, and a worker that selects over payments, forced
enqueuing, status changes and expiry. Hard: a payment arrives as the ticket
expires or is refunded; a moderator forces a ticket that is being paid;
points are deducted in another component. Correct if: one ticket makes at most
one entry, which is paid for; every ticket ends and gives its account back.

**Rewards** (`components/rewards`). State: spectators by address and by
connection, activity challenges and their timers, the eligible ones, the media
being rewarded. Hard: challenges expire while they are answered; a spectator's
connections come and go; the payments to divide may be under way.

**Withdrawals** (`components/withdrawalhandler`, `server/grpc_withdrawals.go`,
`types/`). State: the tables `reward_balance`, `pending_withdrawal`,
`withdrawal`; the blocks on the ledger. Users withdraw, a job withdraws for
those above a threshold, one worker sends pending withdrawals and records them,
and undoes recorded ones that the ledger does not have. Hard: sending cannot be
rolled back and the transaction around it can; the transactions are read
committed; blocks may be lost. Correct if: each unit of reward is in exactly one
of balance, pending and recorded withdrawals; one block per withdrawal.

**Collector account queue** (`server/grpc_server*.go`). A channel of callbacks
run by one worker that owns the account all rewards, refunds and withdrawals are
sent from. Hard: callbacks push to the queue they are run from, and one of them
waits for other goroutines.

**Points** (`components/pointsmanager`). Balances and transactions in tables,
consecutive transactions collapsed into one; subscriptions. Conversion of Banano
to points: a map from users to flows, and of each flow a receiver, a lock, two
timers and a worker that selects over payments, reconnections and the timers.
Hard: a flow is replaced shortly before it expires, and its cleanup deletes the
entry of the user whichever flow it is; payments are credited before the worker
listens, or late; a conversion fails. Correct if: a user gets the points that all
it paid into a flow is worth, once.

**Pricer** (`components/pricer`). A function of queue length, viewers and media
length.

### Games, people, applications

**Raffle** (`components/raffle`, `types/raffle_drawing.go`). State: the rows of
`raffle_drawing` of a raffle; its tickets are rows of `played_media`.
`ProcessRaffle` runs with each request for the list; moderators confirm,
complete and redraw. Hard: every operation reads without locks in one statement
and writes whole rows in later ones. Correct if: anyone can recompute a winner
from the published row; a redraw changes the document; statuses follow the
documented arrows.

**Chat** (`components/chatmanager`, `stores/chat`, `grpc_chat.go`). State: the
table of messages and whether chat is enabled; of each stream, channels
subscribed to creations, deletions, enabling and disabling. Hard: the channels
keep one notification, a select takes from them in any order, a stream that
is opened again starts from the latest messages only, and chat is enabled and
disabled without a mutex. Correct if: the client shows what the table has and what
the switch says, but for what those channels drop or reorder and for calls that
notify in another order than they wrote.

**Configuration** (`components/configurationmanager`, `utils/keyedstack`, the
configuration module of the runner). State: stacks of the values that
applications set, one entry for each; the page and tab each application's script
set last. Changes go through a channel of one value to all streams of
`ConsumeMedia`, whose first message has a snapshot. Hard: notifications are sent
outside the lock of the stack, by scripts and by callbacks of pages; changes are
differences, and overwritten ones are not made up for. Correct if: who is
connected shows what is set.

**Notifications** (`components/notificationmanager`). State: the persisted
notification of each key, who has read it, a goroutine for each that clears it
at its deadline or when its maker says so; events for everyone and for each
user. A stream of `ConsumeMedia` subscribes to both and is then sent what is
persisted. Hard: three goroutines send to a stream, the expiry clears by key, a
notification is sent after the lock is given up, and the event of a user is one of
a `Keyed`, whose late cleanup may orphan a stream that has just subscribed.
Correct if: a viewer sees what is persisted and not read.

**Moderation**, **blocked users**, **staff activity**, **address reputation**, **users and profiles**: tables with
caches in front of them. **Application runner**: JavaScript runtimes that are
started and stopped with what they export. **Segcha**, **authentication**,
**HTTP server**, **statistics**, **application editor**, **protocol
definitions**: no protocol of their own with the rest. `PROJECT.json` lists each
with its files.

### Web client

JavaScript runs one thing at a time, so what is hard here is what may happen
while something is awaited, and after a component is gone.

**Streams** (`app/src/rpcUtils.ts`, `app/src/api_client.ts`). A controller keeps
a stream open for its component: a request, a keepalive timer, a reconnection
timer. The client of the API first makes sure, under a mutex, that it has a
configuration that has not expired, and falls back to the original host when a
connection fails. Hard: building a request is awaited, and disconnections,
timers and other requests do not cancel it. Correct if: a mounted component has
one stream or a timer that brings one, an unmounted one has neither, and nobody
waits for the mutex for ever.

**Application pages** (`app/src/ApplicationPage.svelte`,
`app/appbridge/main.ts`). The page of an application runs in an iframe; page and
script shake hands, the page opens a stream of events and tells the script when
it comes and goes; the calls of the script to the server wait for that. Hard:
the iframe may load again at any time. Correct if: the script knows whether the
stream is there, and its calls go on.

**Dialogs** (`app/src/modal/modal.ts`). A queue of dialogs, one shown at a time,
results and closes awaited. Hard: asking, closing, animations and timers
interleave. Correct if: every dialog gives a result.

**Chat** (`app/src/Chat.svelte`) keeps a list of messages and a set of their
identifiers across streams; **configuration** (`configurationStores.ts`,
`tabStores.ts`, `Sidebar.svelte`) keeps the tabs of the sidebar and the one that
is selected; **notifications** (`notifications.ts`) keeps one entry and one
timeout by key and what they highlight, across streams. The remaining components show what one call or stream returns.

## 2. Modules

    DistinctSeqs ── MediaQueue ──┬── MediaQueueMC
                                 └── MediaQueueRestart ──┬── MediaQueueRestartMC
                                                         └── MediaQueueProofs
    FastCollection ── KeyedEvent ───┬── KeyedEventMC ── KeyedEventProofs
       Notifications ───────────────┤
       Topic (KeyedEvent refines) ──┘
    MediaQueueRestartMC ──┐
    Chat ─────────────────┼── RecoveryMC ── RecoveryProofs (with MediaQueueProofs)
    ClientConfiguration ──┘
         └── ClientConfigurationMC
    Raffle ───────┬── RaffleMC ───────┐
    Withdrawals ──┼── TransactionProofs (of both)
                  └───────────────────┼── MoneyMC
    PaymentPool ──┬─ EnqueueTicket ───┤
         │        │    │  └── EnqueueTicketMC
         │        └─ BananoConversion ┘
         │             │
    PaymentPoolProofs ─┴── EnqueueTicketProofs
    MoneyProofs: MoneyMC with TransactionProofs and EnqueueTicketProofs
    StreamRPC ──┬── ApiClient ──────┬── WebClientMC ── StreamRPCProofs
                └── ApplicationPage ┤
    Modals ─────────────────────────┘

**MediaQueue** is one life of the process. A caller's operation holds
`queueMutex` throughout and is one action (`Enqueue`, `playAfterNext`,
`playNow`, `removeEntry`, `RemoveOwnEntry`, `MoveEntry`, `SkipCurrentEntry`,
setters). `ProcessQueueWorker` is one action per step between two points where
another goroutine can run; `pc` says where it is: *read* (the first critical
section), *announce* (`mediaChanged`, `entryRemoved`, logging of the previous
entry), *check*, *play*, *subscribe*, *wait* and *pop* (`playNext`). `cur` and
`prev` are its local variables. `timers` are the goroutines that `Play` starts;
`Plays` is 2, for an entry can be played again when it is read twice. The two
event channels the worker reads are `onNextMedia` (`donePlaying` of the current
entry) and membership in `updated` (`queueUpdated`, `BufferFirst`), and
`donePending` is the deferred notification of an entry without subscribers.
`file` and `snapshot` belong to the persister.

**MediaQueueRestart** adds the end of the process at any moment and
`mediaqueue.New`: the queue comes from the file, `playingSince` from the
database, application pages do not come back. `RecentlyPlayedCount` is what the
enqueuing limits read.

**DistinctSeqs** has the sequences without repetition and what is left of one.

**FastCollection** is the slice with free slots. **KeyedEvent** is one key of a
`Keyed`: what runs under `k.mu` is one action; `Notify` with deferral is three
(`Notify`, `NotifyUpgrade`, `NotifyRecheck`), as the lock is changed in between;
a cleanup is two (`CleanupRead`, `CleanupDelete`), as the count is read before
the lock is taken. **Topic** is the abstract event: a set of listeners, their
channels and what is deferred. Each event of `KeyedEvent`, with its collections
and identifiers, implements `Topic`: `AsTopics` maps all the events of the key
at once, to a family of topics.

**Raffle** has a transaction per call, one step per statement: what it has read
(`view`, `list`), what it has written and not committed (`writes`), and where it
is (`at`). `Visible` is what a transaction sees at read committed.

**Withdrawals** has the tables, a transaction per call, the worker
(`DeletePending`, `Send`, `Record`, or `CompleteFails` at each of them), the
ledger, and `unrecorded`, the blocks that were sent in transactions that did not
commit.

**PaymentPool** has the node's view of accounts, the receivers, the worker
(`CopyMonitored`, `ReadPendings`, `LockReceiver`, `ProcessPayment`,
`UnlockReceiver`), reverting, and the goroutine that frees an account
(`FreeReceive`, `FreeSend`, `ReturnAccount` or `FreeFails`, then the deferred
`FreeDone`). Receiving may stop after some of the pending blocks. A `Send` has
three outcomes, in a refund as in the final transfer: it succeeds (`RevertSend`,
`FreeSend`), it fails and nothing left (the next attempt, or `RevertFails` and
`FreeFails`), or it returns an error and the funds left all the same
(`RevertSendErrs`, `FreeSendErrs`), after which the code does not know and sends
again; `unanswered` counts what left that way. **EnqueueTicket** composes it with the workers of tickets, which
own receivers; other receivers stand for the conversion of Banano and for
applications. **BananoConversion** composes it with the flows of one user. A call
of `CreateOrRecoverBananoConversionFlow` is `Recover`, or `RequestFlow` and
`CreateFlow`, between which it asks the node and holds the lock of the map
(`Locked`); the worker is one action per case of its `select`, `Start` before it,
and `End` and `Cleanup` after it. Payments that are credited before `Start` are
notified with deferral, so they are in `inbox` when the worker subscribes. `age` is the time since `createdOrRecoveredAt`,
as far as the code and its two timers tell it apart.

**StreamRPC** has the controllers: `makeRequest` up to its await is
`MakeRequest`, inside `Rebuild` (mounting, or a call by the component),
`KeepaliveFires`, `ReconnectionFires` and `StrayFires`; the rest of it is
`Built`. A timer whose handle was overwritten is `stray`, since `clearTimeouts`
cannot reach it. `overtaken` remembers that a disconnection or another request
came while a request was awaited: the code does not notice, and the properties
are about the controllers to which it did not happen.

**ApiClient** adds what a request goes through: the queue of `rpcConfigMutex`
(`lock`), the call for a configuration (`fetch`), its expiry (`fresh`),
connection failures, and a unary call. An event is handled when all
continuations have run (`Settled`). It implements StreamRPC, which is proved:
the awaiting of StreamRPC is the waiting for the mutex.

**ApplicationPage** uses StreamRPC for the controllers that the loads of an
iframe make, and adds the handler of each load up to its two awaits
(`IframeLoaded`, `Handshake`, `Handshook`), the messages posted to the script,
and the script's promise of a connection and a call that waits for it.

**Modals** has `processModalQueue` within the operations that call it, the timer
that opens the next dialog, the component that shows and closes it
(`svelte-simple-modal`, external), and the promises of results and of closing.

**Chat** goes from the rows of messages, through notifications and the channels
of a stream, to what a client shows. A call of `EnableChat` or `DisableChat` is
three actions (`CheckSwitch`, `WriteSwitch`, `NotifySwitch`), as nothing keeps
calls apart; a stream subscribes to one event after the other (`Subscribe`), asks
whether chat is enabled (`ReadSwitch`) and then loads and sends
(`SendInitial`). **ClientConfiguration** from the stack of
values, through the notifications left to scripts and page callbacks, the
forwarding goroutine and the stream, to the sidebar. In both a stream may be lost
at any point with what is on its way, and is opened again. **Notifications** is one key from the
maps of the manager, through what each subscription of a stream has on its way
(`initial`, `broadcast`, `direct`), to the entry of the client and its light.
`Notify` is two actions, as it sends after it has given up the lock; a monitor is
two, as it takes the lock after its `select`; subscribing and the first delivery
are two. The subscription to the viewer's key is to an event of a `Keyed`:
when a stream of the viewer ends (`Lose`, or `LoseOther` for another one), the
cleanup may read a count of 0 (`UnsubscribeFromKey`), and whenever it then gets
`k.mu` (`Cleanup`) it takes whatever event the key has by then out of the map;
a stream that is subscribed to it is `orphaned` and what is sent to the key does
not reach it. `Queued` bounds what is on its way, `MaxCleanups` the cleanups that
wait for the mutex. History variables
(`due`, `missed`, `muddled`; `missed`, `crossed`; `stale`, `dark`) record what the
channels dropped or reordered, so that the properties can say exactly what a client may show wrongly.

KeyedEventMC, MoneyMC, RecoveryMC and WebClientMC put systems that share no variable in one
run: each behaviour is about one of them (`about`) and the others stay as they
start, so a run's behaviours are the union of those of its systems.

## 3. Runs

Times are on two cores. `CHECK_DEADLOCK FALSE` appears where a model must come
to a stop: entries, messages and payments are used once each and counters are
bounded, so a server nobody calls any more has no next step, nor has a client
whose dialogs were all answered.

| run | instance | what it shows |
|---|---|---|
| MediaQueueSafety (2 min) | 3 entries, 1 user, one endless, one unskippable, skipping on and off | `OnlyHeadPlays`, `RemovedOnce`, `CursorAhead`, `HeadLeavesPlayed`, `OrderKept` with every caller between every two steps of the worker and the timers |
| MediaQueueProgress (1 min) | 2 entries | `StoppedHeadLeavesOnUpdate`: a head that is stopped and followed by any `queueUpdated` leaves |
| MediaQueueLostWakeup (violation) | 2 entries | the finding on `StoppedIsRemoved` |
| KeyedEvent (3 min) | events: 3 subscribers with 2 strategies, 2 events, 2 messages, deferral | `EventsAreTopics`, `InOrder` |
| | notifications: 2 with one key, for everyone or for the viewer, 3 events under way, a late cleanup | `ShowsWhatIsUnread` |
| KeyedEventOrphan (violation) | 2 subscribers, no deferral | the finding on `SubscriberIsFound` |
| Recovery (3 min) | the queue: 2 entries, one volatile, 3 lives | `QuietRestartKeepsQueue`, `CountOvershoot` over all lives |
| | the chat: 4 messages, one hidden, or one and 2 callers of the switch; the client keeps 2, a stream starts with 1 | `ShownOnce`, `ShowsTheChat` |
| | the configuration: 1 application, 2 tabs, a page published or unpublished once, a tab of the site and one of the user | `ShownUnlessMissed`, `SelectedIsShown` |
| ClientConfigurationReplaced (violation) | 1 application, 2 tabs | the finding on `RemovalsReachClients` |
| Money (3 min) | the raffle: 2 calls, 3 drawings, 2 tickets | `DrawingsAreVerifiable`, `LatestIsNotVoided`, `FreshCommitsFollowArrows` |
| | withdrawals: 2 users, 2 calls, 2 rewards, 2 rows, 2 blocks, a stop | `SendsWhatIsPending`, `RecordedOnce`, `OnlyStaleCallsMiscount` |
| | payments: a ticket and another receiver on one account, 2 payments, a revert | `ReturnedIsSettled`, `ReceivableIsThere`, `CreditedToOneReceiver` |
| | conversions: two flows in turn on one account, 2 payments | `PointsFollowPayments`, and those of payments |
| RaffleRedraw (violation) | 1 call | the finding on `RedrawsChangeTheDocument` |
| EnqueueTicketEnds (1 min) | a ticket for which points may be spent and that a moderator may force, 2 payments | `EnqueuedOnce`, `PlayedIsCollected`, `TicketsEnd` |
| PaymentPoolAwait (violation) | a ticket, a payment | the finding on `AwaitedAreRunning` |
| WebClient (3 min) | streams: 1 controller, 2 requests in flight, 1 lost timer, a unary call | `OneStream`, `QuietWhenStopped`, `ConnectedIsWatched`, `Reconnects`, `CallsEnd` |
| | a page: 2 loads, 2 requests in flight for each, 3 messages | `ChildIsTold`, `CallsProceed` |
| | dialogs: 3, and 2 callers that await a close | `ResultsSettle` |

MediaQueueSafety checks the type invariant of its module; `ViewsTypeOK`,
`MoneyTypeOK` and `WebClientTypeOK` are the type invariants of the modules their
runs put together.

Why the bounds are enough. *Queue*: a head, an entry it is followed by and one to
insert, move or remove between them are the roles the code tells apart; the
cursor, a move and an insertion need three. Two plays of one entry are what
reading the head twice leads to. The safety run leaves out the persister
(`InMemorySpec`), whose steps change nothing the others read; the restart run
has it. Three lives are what it takes for a restart to be judged by what the one
before it had lost: with two, `QuietRestartKeepsQueue` once held that a restart
begins no streak, which its proof showed to be false. *Events*: two subscribers of one strategy use a slot again, the third
joins between; two events are the one that is cleaned up and its successor.
*Raffle*: two calls overlap, and three drawings give a voided, a latest and a
new one. *Withdrawals*: two rows and blocks are a first attempt and the one that
follows a rollback, a lost block or a restart; the tables are summed reward by
reward (`Rewards`). *Payments*: one account serves
both receivers, so it is used again, and two payments fall on the two sides of a
credit, a close or a price. *Conversions*: two payments of one and a half points
are rounded together or apart, and an address that is used again is what a late
payment needs; with two accounts and one payment, so that the flow that is
replaced is still open, checked apart, nothing else happened. *Streams*: controllers meet only at the mutex, where
a controller's two requests, the unary call and a refresh already queue; two
requests are the one that is held and the one that overtakes it, and the proofs
need no bound. *Pages*: an earlier load and the one that overtakes it. *Dialogs*:
one shown, two that wait and are taken out last first. *Chat*: a history of two
with three messages that can be seen makes the oldest fall out, also when they
come in another order than they were made, and the hidden one stays (deleted too,
checked apart, nothing else happened); one update under way and one in each
channel are the two that can be reordered. Messages and the switch only meet in
the turns of the select, for which one message is enough. Two callers of the
switch are the one that is overtaken and the one that overtakes it; with three,
checked apart, nothing else happened. *Notifications*: one
and what replaces it; with three, checked apart with two in the channels and
with three but no cleanup, nothing else happened. One
cleanup that waits is enough to orphan any stream, and once it has run the next
one may wait. *Configuration*:
two tabs are one and what replaces it; a default tab and one of the user give
the selection both neighbours. Symmetry is over names only, and only where no
liveness is checked.

Every property is also checked against a plausible defect of the code (`mutants`
in `PROJECT.json`: a dropped guard, a missing reset, a swapped order), which
violates it under the same configuration.

## 4. Fairness

`MediaQueue!Fairness`: goroutines that can run are run, and timers expire, which
Go's scheduler provides (`WF` of the worker, the persister and each timer).
Callers owe nothing.

`EnqueueTicket!Fairness`: the same for the goroutines of tickets, the payment
worker's credits and the freeing goroutine; a call to the node returns, with
success or failure. The worker of a ticket is a `select` loop; Go picks at random
among the cases that are ready, so a case that is ready again and again is taken
(`SF` of `Expire`), and a mutex that is released again and again is acquired in
the end (`SF` of `EndTicket`). Nobody is obliged to pay, force or close
anything.

`ApiClient!Fairness`: continuations run and a call to the server is answered or
fails in the end (`WF`). Timers and answers are events of the browser's loop,
which serves each source in the order of arrival: an armed timer or the end of a
call may be kept waiting by the queue of the mutex again and again, but not left
out for ever (`SF` of `ReconnectionEvent` and `UnaryEnds`); and a stream that is
opened again and again does not end before its first update every time (`SF` of
`UpdateEvent`): against a server that never sends anything, no client connects.
`ApplicationPage!Fairness` is the same, and messages between windows arrive and
the script answers its handshake. `Modals!Fairness`: the timer fires, animations
end, and the user closes the dialog that is shown in the end; without it a
dialog may stay for ever, and those behind it wait, as they should. Users do
nothing else of necessity: nobody need ask, answer or unmount.

The events, recovery and money runs check safety only.

## 5. Proofs

All theorems are for any value of the constants that satisfies the named
assumptions: of the queue `QueueAssumption` and `RestorableAssumption` (what is
restored is distinct), of restarts `RestartAssumption`; `KeyedAssumption` (the
bound on what is sent, and names for "no event" and "nobody"); `RaffleAssumption`
(no document is the absence of a document); `WithdrawalsAssumption` (bounds);
`PoolAssumption` (finitely many accounts, receivers and payments) and
`TicketAssumption` (prices are positive and rise with the privilege, as the
pricer has them); `ChatAssumption` (finitely many messages, and bounds) and
`ConfigurationAssumption` (the site has tabs, and the identifiers that are made up
are new); `StreamAssumption` and `PageAssumption` (requests have an
owner, loads are numbered from 1). Two theorems about restarts suppose besides
that the database and the disk do what they are asked (`Reliable`), which is what
their run supposes. `MoneyTypes` supposes that every document has a number for
its hash. Theorems are of the form `Spec => []Inv`, `Spec =>
[][A]_vars`, or of one specification implementing another. Each inductive
invariant was model-checked on the instances of the runs before it was proved.

**MediaQueueProofs**: `PlaysOnlyHead`, `RemovedExactlyOnce`, `CursorStaysAhead`,
`HeadLeavesStopped`, `TypeCorrect`. None of the invariants is inductive: that
only the head plays depends on where the worker is. `IInv` adds that the
worker's `cur` is the head from its first critical section on (`CurIsHead`),
that `prev` is `cur` after the announcement (`PrevFollows`) and otherwise is the
head or gone (`PrevIsHead`), that a notification that was delivered or deferred
follows a stop (`NotifiedWasPlayed`), and that what is queued was handed in once
(`UsedBefore`). The argument is one lemma, `HeadKeepingStep`: any edit by a
caller keeps the head and announces what it takes out; the first section shows
that each operation is such an edit; the steps of the worker are treated one by
one. `CallersKeepHead` and the same invariant give the action property.
`OnlyMovesReorder` (`OrderKept`) rests on what the edits do to the order:
insertions, removals and pops leave that of what stays (`SameOrder`), and a move
changes that of the entry it moves alone (`OnlyMoves`), which the loop of
`MoveEntry` does by one `Swap` with a neighbour.

The same module proves what restarts keep. `EveryLife` carries the invariants
over to every life of the process (`LifeInv`), whatever the file and the database
answered: what a process restores is a sequence of distinct entries, as the loop
that leaves out volatile entries keeps the order of the others (`Turns`,
`KeptSoFar`, by induction on how far it is). `QuietRestarts`
(`QuietRestartKeepsQueue`) needs that the file, or the copy about to be written,
is the queue as it is unless the persister has yet to be told (`Written`), and
that the latest event of the database says of a streak what the worker knows
(`Streaks`). `OvershootBounded` (`CountOvershoot`) needs that each earlier life
left one row without an end at most (`OneRowPerLife`).

**KeyedEventProofs**: `ReadInOrder` (`InOrder`) and `ImplementsTopics`
(`EventsAreTopics`), a refinement step by step: every step of a key is, for each
of its events, a step of its topic or none. It rests on the collections
(`CollectionOk`): a subscriber is in the slot of its identifier, and the free
slots make a list that starts at `firstFree`, ends at the length, and has no slot
twice; so inserting takes a slot nobody has and deleting gives one back. `Waits`
says that what is deferred waits for a first subscriber, that is with an event
that has none; `SentInOrder` that what is kept, deferred and in channels is in
the order of sending. That deferred notifications, sent in a loop, leave in each
channel what its strategy keeps (`AfterFirst`) is by induction on how many were
sent (least counterexample).

`LightFollows` (`ShowsWhatIsUnread`) is about what such events carry: three
channels that a client reads in any order. `GoesOff` says that a light which
ought to be off is off for good or will be put off by the last event on its way;
`GoesOn` that a notification that was sent and is not past its deadline is the
last to arrive on its channel, with nothing on the other, or has arrived. Both
except what the history variables have recorded as overtaken, lost or late, or
sent to the viewer's key while the stream was orphaned: then a notification that
did not reach it is `dark`, and a clear that did not is `stale` if something is
lit or under way for it to put off. An orphaned stream to which nothing is sent
is no exception.

**TransactionProofs**, of raffles: `Verifiable` (`DrawingsAreVerifiable`) and `NeverLeftVoided`
(`LatestIsNotVoided`). Calls that overtake each other do overwrite each other's
rows, so no order of statuses can be invariant; `RaffleIInv` says instead of each row,
in the table or on its way in a transaction, that it can be verified (`RowOk`),
and of each call which numbers it writes (`NumbersOk`) and that it voids a
drawing only if it writes the next one too (`PhaseOk`). `Overwrite` shows that
such writes leave no gap, so that `Visible` is a sequence; if the last visible
row were a voided one of the call's own, the next number would be visible too.
`FreshCommitsFollow` (`FreshCommitsFollowArrows`) adds what a call is up to while
it goes from statement to statement (`Planned`): which arrow it will have taken
from the statuses it read when it commits (`Confirms`, `Redraws`, `Processes`),
and that the first drawing of a raffle is the initial one.

Of withdrawals, in the same module: `SendsPending` (`SendsWhatIsPending`) and `RecordsOnce`
(`RecordedOnce`). A call that inserted its rows keeps others from inserting for
the same users (`CommitsAreFree`), so what the worker has read stays pending
until it records it (`WorkerHolds`); started_at is never given out again (`Past`);
so what is pending has not been recorded (`NotYetRecorded`) nor sent
(`NotYetSent`), unless by the running transaction or one that was rolled back.
`OnlyStaleMiscount` (`OnlyStaleCallsMiscount`) says that the books balance in
every step but those of calls that commit on a balance they no longer have. Its
sums over tables are cardinalities: a row is worth the set of its rewards, so a
row that moves from one table to another takes its rewards along (`OneRow`,
`Parts`), and no induction over sets is needed. `Booked` says that the block of
the worker is worth what it deleted.

**PaymentPoolProofs** has what every step of the pool preserves, whoever owns the
receivers: `PoolInv` and `CreditedToOneReceiver` (`PoolPreserved`), for the two
modules below. That a receiver is only credited with what is its own cannot be
seen from the receivers: the worker credits what it has read earlier, when the
account may have gone back and out again. So `PoolInv` says who has an account
(`Ownership`: nobody shares one that is in use), that a payment is in one place
(`InOnePlace`), and of the worker that what it has read for a receiver that is
still open can be nobody else's (`WorkerOK`, `CreditsInPlace`). Reverting and
closing exclude each other (`RevertsWhileOpen`). `Funded` says that what is
receivable is on the account, also once the worker has credited what it has read
and a transfer has collected in between (`CollectedIsEnough`), but for what the
receiver's own refunds sent and were told had failed (`unanswered`);
`BooksBalance` that what was credited is receivable, sent back or collected,
according to how far freeing is, where what a refund or transfer sent unanswered
is in none of the three, as the code does not count it either; `Awaited` that the wait group counts the receivers yet to be freed.

**EnqueueTicketProofs**: `Receivable` (`ReceivableIsThere`), `OneReceiver`
(`CreditedToOneReceiver`) and `TicketsSettled` (`ReturnedIsSettled`) follow from these for
tickets; `Once` (`EnqueuedOnce`) and `Collected` (`PlayedIsCollected`) from `IInv`,
which adds that the receiver of a ticket is open while its worker runs
(`Working`), where the flags are while an entry is made (`OneEntry`), and that
its price was credited while the receiver was open (`Priced`): the Amount the
worker compares may have been replaced by a revert, but none was ever more than
what was credited in all (`AmountBound`). `TypeCorrect` is the type invariant.

**MoneyProofs**: `PointsFollow` (`PointsFollowPayments`), in which the
payment worker and a flow's worker meet. `FlowIInv` adds that the payment worker has
yet to credit only what it has not seen (`PoolWorkerOK`), that what is receivable
is all that was seen (`Unreverted`: flows refund nothing), that a receiver is
closed by its flow alone (`ClosedAtEnd`), and that before a flow's worker starts
nothing was converted and what was credited has a notification waiting for it
(`NothingBefore`).
A conversion then reads the whole balance, and `PointsMonotone` shows that it never
takes points back. `OtherFlows` says once that a step of one flow leaves the
others alone. `OneFlow` (`CreditedToOneReceiver`) and `FlowsSettled`
(`ReturnedIsSettled`) are the properties of the pool for flows.

`MoneyTypes` (`MoneyTypeOK`) is about everything money passes through: a
behaviour keeps to one of the four systems, whose inductive invariants are put
together (`PartsInv`), as what a value is follows from what the others say. That
drawings are numbered without gaps rests on `RaffleIInv`, and that there are no
more than the bound on a redraw that begins with fewer (`TxTyped`). The theorem
supposes that the verifiable random function gives a number for every document
(`HashIsNumber`), which is its hypothesis and no assumption of the module, since
there are infinitely many documents and TLC could not evaluate it. Amounts of withdrawals are
natural numbers and have no other bound: the type invariant once said that they
are at most what all rewards are worth, which its proof showed to be false beyond
the instances of the run, as a call that writes back a balance it read earlier
makes rewards count again (`OnlyStaleCallsMiscount`).

**StreamRPCProofs**: `ImplementsStreamRPC` is a refinement: every step of the
client with its mutex and its configuration is a step of the controllers or
leaves them alone (`ApiStep`; the variables are the same ones, so no mapping is
needed), hence what is proved of `StreamSpec` holds behind the mutex.
`ClientTypes` is the type invariant, in which the queue of the mutex only has
requests, the unary call and refreshes. `OneStreamAtATime` (`OneStream`),
`StoppedStaysQuiet` (`QuietWhenStopped`) and `ConnectedHasWatchdog`
(`ConnectedIsWatched`) follow from one inductive invariant, `StreamIInv`: of
every controller, that its request is open; and of those not overtaken
(`Undisturbed`), that they have at most one stream, no armed timer while a
request is awaited and no reconnection timer while one is open, none of either
kind when stopped, and never a lost one. None of the three is inductive alone:
that a second request cannot arise while one is awaited rests on the timers, and
what the timers are rests on there being one stream, as its end arms one.
`OthersKeep` says once that a step of one controller leaves the others alone.

`ChildTold` (`ChildIsTold`) is about pages. As long as nothing was overtaken
(`NoneOvertaken`), the page's own controller is the only one that runs and
`hadConnectedPreviously` says whether it is connected (`OnlyController`); the
messages to the child there is are the last ones posted, each says the opposite
of the one before it, and the last one says what the page believes (`News`): so a
child never hears of a second disconnection in a row, which would strand a call
(`CallWaits`), and knows the truth when nothing is left. Where each load is in its
handler (`Loading`) is what keeps a message of an earlier connection from a later
child.

`WebClientTypes` (`WebClientTypeOK`) has the types of the whole client with its
pages and dialogs: among them that the timers lost by a page stay within their
bound, and that the timer of the dialogs is only armed while some wait.

**RecoveryProofs** is about a client that connects again, for any number of
messages, applications and tabs. What loops over lists compute is a recursive
function in the models; `TurnsOfALoop` gives its turns, one lemma for each loop
what it leaves (`WithoutHolds`, `UpdateIs`, `ProcessedOk`), and `BelowGrows` and
`EachNumber` that sorting by how many are smaller is a permutation (`SortedIs`).

`ChatIsShown` (`ShowsTheChat`) and `ShownInOrder` (`ShownOnce`) follow from
`ChatInv`, which `ChatInductive` shows inductive. Three of its parts follow a
notification from the row to the list: `DeletionReaches` says of a deletion that
was notified and not missed that it is in its channel, or the message is `Gone`,
that is not shown and not on its way, or taken away by an update after which none
brings it; `CreationReaches` that a creation is in its channel, on its way or
shown. `SwitchReaches` says of the switch that a call has yet to notify what it
says (`ToTell`), or that what comes last of it is right (`LastIsRight`): in a
channel, in what `Enabled()` told the stream, or in what the client will say once
the updates on their way are handled (`WillSay`). It is left by the two kinds of
last notification that set `muddled`, and is regained with the next one of
another kind. An update that
takes a message away has no other event, which is why the order in one update
does not matter.

`SelectionShown` (`SelectedIsShown`) follows from `ConfigurationInv`: the tabs of
the site are always there (`SidebarOk`), so whatever is closed or cleared leaves a
tab to select, and each change of the sidebar selects one that stays
(`OpenedOk`, `ClosedOk`, `ClearedOk`). `ViewTypes` is the type invariant.

`TabsAreShown` (`ShownUnlessMissed`) follows from `FollowingInv`
(`FollowingInductive`). A tab has a *level*: 1 where it is there and 0 where it is
not. Its changes on the way to the client, message after message and then the one
in the channel, lead from the level the sidebar shows to a last level, each from
the opposite of what it leads to (`Way`, `Flips`); and the last level is what is
set, unless a thread has yet to notify the difference (`Ends`). A client that has
just subscribed starts from nothing, as its first message resets the sidebar
(`StreamStarts`). A change that is overwritten breaks the chain of its own tab
only (`Told`). That no thread notifies against what another has done, but where
`crossed` says so, is ownership: a tab belongs to one application (`Owned`), which
has one entry in the stack (`OneEntryEach`) and one thread at a time that has
changes of a tab to notify (`OneThread`, `Replacing`).

Only model-checked: the liveness properties (`StoppedHeadLeavesOnUpdate`,
`TicketsEnd`, `Reconnects`, `CallsEnd`, `CallsProceed`, `ResultsSettle`), as
liveness under fairness and `ENABLED` are out of the prover's reach;
dialogs have no other property but their types. Every invariant and action
property of the passing runs is a theorem. The library's theorems of induction take an operator too;
where a proof above needs induction, it takes the least number for which the
claim fails, or counts a set. `SelectSeq`, `SortSeq` and `FoldLeft` take operators
as well and cannot be unfolded, so the models say with functions what they would.

## 6. Findings

Five statements of the repository that the code does not keep, each with a run
that ends in a counterexample:

- *Lost wakeup* (`media_queue.go:357`, run MediaQueueLostWakeup). The head is
  removed after the worker played it and before the worker subscribed to its
  `donePlaying`: only the timer's goroutine is told, the worker waits, and the
  entry stays at the head, stopped, until some `queueUpdated` (which the run
  MediaQueueProgress shows to be enough).
- *Orphaned event* (`keyed.go:43`, run KeyedEventOrphan). The cleanup of a key
  acts on a count that was 0 when it was sent; who subscribes in between is
  subscribed to an event that is taken out of the map.
- *Redraw* (`raffle.go:386`, run RaffleRedraw). The document of a new drawing is
  made before its reason is stored, so the second drawing has the document, and
  the winner, of the first.
- *Waiting for no one* (`monitored_account.go:136`, run PaymentPoolAwait). A
  payment credited after its receiver was freed raises a wait group that nobody
  lowers, and the worker of the collector account waits for it.
- *Replaced without a word* (`configuration.go:136`, run
  ClientConfigurationReplaced). An application sets another tab: its removal and
  the new tab are notified in a row, the goroutine that forwards them keeps the
  latest only, and a connected client shows both tabs until it connects again.

`OneStream`, `QuietWhenStopped`, `ConnectedIsWatched`, `ChildIsTold` and
`CallsProceed` hold *except* for controllers that a disconnection, an unmounting
or another request overtook while a request was awaited (`rpcUtils.ts:32`). Such
a controller can keep a stream after its component is gone, whose updates arm
the keepalive timer for ever, or have two. `ResultsSettle` leaves out whoever
awaits `closeModal` when another call takes the place of its promise
(`modal.ts:50`): they wait for ever. `ShowsTheChat`, `ShownUnlessMissed` and
`ShowsWhatIsUnread` name what a client may miss or keep: a destination can stay
lit after it was read when the clear is lost with the stream or overtakes the
notification, and for good when a notification comes past its deadline
(`notifications.ts:25`). It can also stay lit, or dark, after what was sent to the
viewer's key while the stream was orphaned by a late cleanup (`keyed.go:43`, the
finding above): a client that reconnects may hear nothing that is for its user
alone until it reconnects again. A client can go on saying that chat is disabled when it is
enabled, or the reverse: when the last notification finds the opposite one in its
channel, of which the select may take either first, and when two calls overlap
and the one that wrote first notifies last (`disable.go:9`). No comment or test of the repository promises more, so
these are exceptions in the properties and not findings.

BananoConversion reaches a state (`flow` is *drain*) in which a worker waits for
ever: the client reconnects, the worker is busy with a payment until the flow has
expired, then `select` happens to take the expiry before the reconnection, and
`<-expireTimer.C` (`banano_conversion.go:179`) waits for a timer that was already
read. It holds the lock of its flow, for which the user's next call waits with
the lock of the flows of all users. What is left in the channel of payments when
a flow ends is credited and not converted. No comment or test excludes either.

`ReturnedIsSettled` and `ReceivableIsThere` hold *except* for a `Send` that returned
an error although the node accepted it. A refund or the final transfer is then made
again (`monitored_account.go:65`, `payment_account_pool.go:279`), from whatever else
is on the account, such as a late payment: more leaves than was credited. Without
such funds the attempts fail, a refund leaves the receivable balance as it was,
with nothing behind it, and the account is not used again. The properties count
what left that way (`unanswered`) and say that nothing more can be missing, and
never to another receiver.

`OnlyStaleCallsMiscount` and `FreshCommitsFollowArrows` hold *except* for calls
that write back what they read before another call's commit: the exception is
part of the properties.

`QuietRestartKeepsQueue` has an exception as well: a start goes by the latest
event the database has, so where an entry was cut short in an earlier life and
then lost, `playingSince` comes from that earlier streak although nothing plays
(`media_queue.go:660`).

A ticket that failed for lack of points may still make an entry, by a later
payment or a moderator's hand; `EnqueuedOnce` and `PlayedIsCollected` say what
holds then.

## 7. Abstractions

- *Queue*: an entry is its performance ID, fresh for each enqueuing. Lengths are
  reached or never reached (`Endless`). The database may fail while logging
  (`LogOutcomes`) and the file may fail to be written (`WriteOutcomes`); the runs
  take both to succeed, for nothing in the repository says what should hold
  otherwise. The rate limiter is a number of tokens that is refilled at any time.
- *Restarts*: a write of the file that is cut short has happened or not. A torn
  file is not modelled: the next start fails on it, before any state exists. The
  process starts with a queue whose entries are distinct.
- *Events*: one key, since keys share only `k.mu`. Calls of `Notify` that run at
  once under a read lock happen one after the other. A nil event used by
  `Notify` with deferral ends the process (`panicked`); no caller in the server
  gets there, because none defers notifications of a `Keyed`.
- *Transactions*: PostgreSQL's default level, read committed: a statement sees
  what is committed when it runs and what its own transaction wrote; a row with
  an uncommitted write cannot be written by others. Every statement may fail, and
  the transaction is rolled back.
- *Raffle*: a document is the reasons and the tickets, the parts that vary within
  a raffle; the verifiable random function is any `Hash` of the document.
- *Withdrawals*: amounts are counted in rewards, a block is its place in the order
  of sending. Accepting a block and answering are one step; a failure after it is
  `CompleteFails` in *record*, or a stop.
- *Payments*: amounts are counted in payments of one unit. The receivable balance
  is a list of the `Amount` objects it pointed to, because what a ticket compares
  and refunds is a pointer it read earlier. A `big.Int` that is read without the
  mutex while it is replaced is read before or after. The collector account is
  one and is modelled by what it received. The five attempts are any number, as
  what each may do does not depend on how many came before.
- *Tickets*: whether the requester is banned and has the points is open at the
  point where the code asks. Tickets without a requester, which skip the check,
  are covered by its answer "not banned". `RegisterRequest` is one step.
- *Conversions*: one user, as users share only the lock of the map. A payment is
  0.015 BAN, as in the comment of the code. A conversion is one step: payments
  credited during it are notified and converted after it, and whoever waits for
  the lock of the flow has not called yet. The end of the process, and a commit
  that is reported as failed and took place, are left out.
- *Streams of the client*: time is abstract and an armed timer may fire at any
  moment. An expiry that is computed may be past already. Unary calls are one at
  a time, and are not cancelled. Authorization and versions are left out.
- *Pages*: the methods of the bridge, titles and sizes are left out. What the
  script sends reaches the page at once; what the page sends may be under way.
- *Dialogs*: the component that shows them is external: opening is immediate,
  closing is animated, and asking it to close when nothing is shown does nothing.
- *Chat*: messages are numbered by their time of creation, which are distinct.
  The reason for which chat is disabled is left out. A message that is loaded or
  notified is its identifier and whether the viewer may see it; blocked users,
  emotes, references and system messages that are never stored are left out.
- *Configuration*: a title is left out, so publishing a page again sets the same
  tab again. Reading from the channel and forwarding are one step, for nothing
  in between can tell them apart. `cpChan` of a stream and its unbounded
  subscription are one list.
- *Notifications*: one key, for everyone or for the viewer alone; recipients that
  leave users out, kinds of notification without a destination and those that are
  not persisted are left out. The server and the client share a clock, and
  deadlines pass in the order the notifications were made.

## 8. Not modelled

The second currency of payments (an external swap service); the arithmetic of
prices; media lookups; keys, proofs and certificates of raffles; the cache of
counts of entries by user; the streams to clients but for the chat, the
configuration and notifications; everything that
`PROJECT.json` marks `not_modelled`, with the reason given there: pure input and
output, generated code, single fields or maps under one mutex, or planned below.

Of the client, what is left out is the presentation of what one call or one
stream gives, and the generated code of the protocol, which is most of its lines.

## 9. Plan

Next, in this order:

1. **Spectators**: the activity challenges of rewards, their timers and the
   watchdog, and connections that come and go; at most one live challenge per
   spectator, no reward for one that failed it, every challenge is answered or
   expires. The watchdog subscribes to the disconnection after it is started
   (`activity_checking.go:28`).
2. **CollectorAccount**: the queue of callbacks, the bound of its channel and the
   callbacks that push to it; composed with the wait for payments under way, so
   that the finding of section 6 becomes a statement about progress. The
   distribution of what a media has earned.
3. **SkipManager** on MediaQueue: a skip is of the media that was paid to be
   skipped; abstract promise: the funds of each crowdfunding are spent once. The
   threshold is computed for one media and another may play when the mutex of the
   queue is taken (`skip_manager.go:258`).
4. **Points**: balances and collapsed transactions; abstract specification: an
   account with a balance that never becomes negative; overlap of transactions.
5. **Application runner**: starting and stopping an instance and what it exported.
6. Of the client: cancelling a unary call before it was sent, which does not stop
   it (`api_client.ts:155`); navigation destinations, and the state one window
   takes over from another. Of the server: the end of a stream while a callback
   of its subscriptions waits on its full channel (`grpc_watch.go:42`); the
   deletion of a system message, whose author is nil (`chat_store.go:195`).
7. Torn queue files (`media_queue.go:582`); a streak of entries that are not logged
   after one failed insertion (`media_queue.go:684`); counts dropped by the channel
   of a keyed event's cleanup (`keyed.go:39`).
8. Progress of withdrawals (no pending one is passed over for ever); the steps of
   `RegisterRequest`; prices as operators checked against bounds.

An abstract ledger (each reward is in one place) for Withdrawals and one for
PaymentPool to implement; a playlist (a sequence whose head is taken off) for
MediaQueue to implement.

Theorems, in this order: that MediaQueue implements the playlist; that Withdrawals
and PaymentPool implement the ledger; the main invariants of the modules above.
