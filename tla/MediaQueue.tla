------------------------------ MODULE MediaQueue ------------------------------
(***************************************************************************)
(* The media queue of a JungleTV server during one life of its process     *)
(* (server/components/mediaqueue/media_queue.go, server/media/queue_entry) *)
(*                                                                         *)
(* Four kinds of goroutine share the queue:                                *)
(*   - API callers, whose operations each run under queueMutex and are one *)
(*     action;                                                             *)
(*   - ProcessQueueWorker, which takes the mutex only in two short places, *)
(*     so its loop is one action per step between which others run;        *)
(*   - the goroutine CommonQueueEntry.Play starts, which stops the entry   *)
(*     when its length has elapsed;                                        *)
(*   - persistenceWorker, which writes the queue to a file.                *)
(* A crash and the restart from the file are in MediaQueueRestart.         *)
(***************************************************************************)
EXTENDS DistinctSeqs, SequencesExt

CONSTANTS
  Entries,       \* queue entries, named by their performance ID
  NoEntry,       \* a nil entry; also the empty insert cursor
  Users,         \* addresses of users
  Unknown,       \* the unknown user: the requester of an anonymous entry
  RequestedBy,   \* who requested each entry
  Unskippables,  \* entries requested as unskippable
  Endless,       \* entries whose Length() is never reached
  RemovalTokens, \* own entries a user may remove per interval
  Switches,      \* the settings administrators change during the run
  LogOutcomes,   \* {TRUE}, or BOOLEAN when the database may fail
  WriteOutcomes, \* {TRUE}, or BOOLEAN when writing the queue file may fail
  Restorable     \* the queues the process may have restored when it starts

AllSwitches == {"entryReordering", "removalOfOwnEntries", "skipping"}

ASSUME QueueAssumption ==
  /\ NoEntry \notin Entries
  /\ Unknown \notin Users
  /\ RequestedBy \in [Entries -> Users \cup {Unknown}]
  /\ Unskippables \subseteq Entries
  /\ Endless \subseteq Entries
  /\ RemovalTokens \in Nat
  /\ Switches \subseteq AllSwitches
  /\ LogOutcomes \subseteq BOOLEAN
  /\ WriteOutcomes \subseteq BOOLEAN

\* Every restored queue is a sequence of distinct entries.
ASSUME RestorableAssumption ==
  \A s \in Restorable : s \in Seq(Entries) /\ Distinct(s)

VARIABLES
  queue,        \* the entries, the one playing first
  insertCursor, \* the entry before which Enqueue inserts, or NoEntry
  allowed,      \* the settings that are on
  tokens,       \* tokens left to each user by ownEntryRemovalRateLimiter
  movedBy,      \* users that have moved each entry
  used,         \* entries handed to the queue so far: performance IDs are fresh
  started,      \* startedPlaying is set
  played,       \* the played flag
  timers,       \* phase of the goroutines Play started for each entry
  donePending,  \* donePlaying was notified before anyone subscribed to it
  pc,           \* where ProcessQueueWorker is
  cur,          \* its currentQueueEntry
  prev,         \* its prevQueueEntry, the last entry announced by mediaChanged
  onNextMedia,  \* its donePlaying subscription holds a notification
  updated,      \* the queueUpdated subscribers whose channel is full
  removed,      \* how often entryRemoved was fired for each entry
  playingSince, \* playingSince is not the zero time
  played_media, \* rows of the played_media table
  queueEvent,   \* the latest media queue event in the database
  file,         \* what the queue file holds
  snapshot      \* what persistenceWorker is about to write: at most one copy

apiVars  == <<allowed, tokens, movedBy, used>>
playVars == <<started, played, timers, donePending, onNextMedia>>
workVars == <<pc, cur, prev, removed, playingSince, played_media, queueEvent>>
fileVars == <<file, snapshot>>
vars == <<queue, insertCursor, updated, apiVars, playVars, workVars, fileVars>>

-----------------------------------------------------------------------------
Index(e) == CHOOSE i \in 1..Len(queue) : queue[i] = e
Queued(e) == Holds(queue, e)

Plays == 1..2
TimerPhases == {"none", "starting", "waiting", "done"}
Playing(e) == started[e] /\ ~played[e]

\* queueUpdated.Notify(false): both subscribers use BufferFirst, so a channel
\* that is already full stays as it is.
NotifyUpdated == updated' = {"worker", "persister"}

\* The subscribers of an entry's donePlaying event.
WorkerListens(e) == pc = "wait" /\ cur = e
TimerListens(e) == \E k \in Plays : timers[e][k] = "waiting"

\* CommonQueueEntry.Stop, followed by what Notify(true) does to the
\* subscribers; with none the notification waits for the first one.
Stop(e) ==
  IF Playing(e)
  THEN /\ played' = [played EXCEPT ![e] = TRUE]
       /\ onNextMedia' = (onNextMedia \/ WorkerListens(e))
       /\ timers' = [timers EXCEPT ![e] =
                       [k \in Plays |-> IF @[k] = "waiting" THEN "done" ELSE @[k]]]
       /\ donePending' = [donePending EXCEPT ![e] = @ \/ ~(WorkerListens(e) \/ TimerListens(e))]
       /\ UNCHANGED started
  ELSE UNCHANGED playVars

-----------------------------------------------------------------------------
(* Operations under queueMutex                                             *)

SetAllowed(s, on) ==
  /\ s \in Switches
  /\ allowed' = IF on THEN allowed \cup {s} ELSE allowed \ {s}
  /\ IF s = "skipping" THEN UNCHANGED updated ELSE NotifyUpdated
  /\ UNCHANGED <<queue, insertCursor, tokens, movedBy, used, playVars, workVars, fileVars>>

\* The rate limiter gives a user its tokens back when the interval is over.
RefillTokens(u) ==
  /\ tokens' = [tokens EXCEPT ![u] = RemovalTokens]
  /\ UNCHANGED <<queue, insertCursor, updated, allowed, movedBy, used, playVars, workVars, fileVars>>

\* Mutant: the currently playing entry is not excluded.
SetInsertCursor_Head(e) ==
  /\ Queued(e)
  /\ insertCursor' = e
  /\ NotifyUpdated
  /\ UNCHANGED <<queue, apiVars, playVars, workVars, fileVars>>

SetInsertCursor(e) ==
  /\ \E i \in 2..Len(queue) : queue[i] = e
  /\ insertCursor' = e
  /\ NotifyUpdated
  /\ UNCHANGED <<queue, apiVars, playVars, workVars, fileVars>>

ClearInsertCursor ==
  /\ insertCursor # NoEntry
  /\ insertCursor' = NoEntry
  /\ NotifyUpdated
  /\ UNCHANGED <<queue, apiVars, playVars, workVars, fileVars>>

Fresh(e) == e \in Entries \ used /\ used' = used \cup {e}

EnqueueAtCursor(e) ==
  \E i \in 2..Len(queue) :
    /\ queue[i] = insertCursor
    /\ queue' = InsertAt(queue, i, e)
    /\ UNCHANGED insertCursor

EnqueueAtEnd(e) ==
  /\ \A i \in 2..Len(queue) : queue[i] # insertCursor
  /\ queue' = Append(queue, e)
  /\ insertCursor' = NoEntry

Enqueue(e) ==
  /\ Fresh(e)
  /\ EnqueueAtCursor(e) \/ EnqueueAtEnd(e)
  /\ NotifyUpdated
  /\ UNCHANGED <<allowed, tokens, movedBy, playVars, workVars, fileVars>>

\* Mutants: the copy that makes room is forgotten; the entry goes first.
playAfterNextNoMutex_NoRoom(e) ==
  queue' = IF Len(queue) < 2 THEN Append(queue, e) ELSE InsertAt(queue, 2, queue[2])

playAfterNextNoMutex_First(e) == queue' = InsertAt(queue, 1, e)

playAfterNextNoMutex(e) ==
  queue' = IF Len(queue) < 2 THEN Append(queue, e) ELSE InsertAt(queue, 2, e)

PlayAfterCurrent(e) ==
  /\ Fresh(e)
  /\ playAfterNextNoMutex(e)
  /\ NotifyUpdated
  /\ UNCHANGED <<insertCursor, allowed, tokens, movedBy, playVars, workVars, fileVars>>

PlayNow(e) ==
  /\ Fresh(e)
  /\ playAfterNextNoMutex(e)
  /\ IF queue # <<>> /\ queue[1] \notin Unskippables /\ "skipping" \in allowed
     THEN Stop(queue[1])
     ELSE UNCHANGED playVars
  /\ NotifyUpdated
  /\ UNCHANGED <<insertCursor, allowed, tokens, movedBy, workVars, fileVars>>

SkipCurrentEntry ==
  /\ queue # <<>>
  /\ queue[1] \notin Unskippables
  /\ Stop(queue[1])
  /\ NotifyUpdated
  /\ UNCHANGED <<queue, insertCursor, apiVars, workVars, fileVars>>

\* Mutants: entryRemoved is fired for the head too; the head is not special.
removeEntryInMutex_FiresForHead(e) ==
  /\ Queued(e)
  /\ removed' = [removed EXCEPT ![e] = @ + 1]
  /\ IF e = queue[1]
     THEN Stop(e) /\ UNCHANGED <<queue, insertCursor, updated>>
     ELSE /\ queue' = RemoveAt(queue, Index(e))
          /\ insertCursor' = IF e = insertCursor THEN NoEntry ELSE insertCursor
          /\ NotifyUpdated
          /\ UNCHANGED playVars
  /\ UNCHANGED <<allowed, movedBy, used, pc, cur, prev, playingSince, played_media, queueEvent, fileVars>>

removeEntryInMutex_DeletesHead(e) ==
  /\ Queued(e)
  /\ queue' = RemoveAt(queue, Index(e))
  /\ insertCursor' = IF e = insertCursor THEN NoEntry ELSE insertCursor
  /\ removed' = [removed EXCEPT ![e] = @ + 1]
  /\ NotifyUpdated
  /\ UNCHANGED <<allowed, movedBy, used, pc, cur, prev, playingSince, played_media, queueEvent,
                 playVars, fileVars>>

\* Removing the entry at the head only stops it: ProcessQueueWorker pops it.
removeEntryInMutex(e) ==
  /\ Queued(e)
  /\ IF e = queue[1]
     THEN Stop(e) /\ UNCHANGED <<queue, insertCursor, updated, removed>>
     ELSE /\ queue' = RemoveAt(queue, Index(e))
          /\ insertCursor' = IF e = insertCursor THEN NoEntry ELSE insertCursor
          /\ removed' = [removed EXCEPT ![e] = @ + 1]
          /\ NotifyUpdated
          /\ UNCHANGED playVars
  /\ UNCHANGED <<allowed, movedBy, used, pc, cur, prev, playingSince, played_media, queueEvent, fileVars>>

RemoveEntry(e) == removeEntryInMutex(e) /\ UNCHANGED tokens

RemoveOwnEntry(e, u) ==
  /\ "removalOfOwnEntries" \in allowed
  /\ RequestedBy[e] = u
  /\ tokens[u] > 0
  /\ tokens' = [tokens EXCEPT ![u] = @ - 1]
  /\ removeEntryInMutex(e)

\* Mutant: a user may move an entry any number of times.
canMoveEntryInMutex_Again(i, j, u) ==
  /\ i >= 2 /\ j >= 2 /\ j <= Len(queue)
  /\ insertCursor \notin {queue[i], queue[j]}

canMoveEntryInMutex(i, j, u) ==
  /\ i >= 2 /\ j >= 2 /\ j <= Len(queue)
  /\ insertCursor \notin {queue[i], queue[j]}
  /\ u \notin movedBy[queue[i]]

MoveEntry(e, u, up) ==
  /\ "entryReordering" \in allowed
  /\ Queued(e)
  /\ LET i == Index(e)
         j == IF up THEN i - 1 ELSE i + 1
     IN  /\ canMoveEntryInMutex(i, j, u)
         /\ queue' = [queue EXCEPT ![i] = queue[j], ![j] = queue[i]]
  /\ movedBy' = [movedBy EXCEPT ![e] = @ \cup {u}]
  /\ NotifyUpdated
  /\ UNCHANGED <<insertCursor, allowed, tokens, used, playVars, workVars, fileVars>>

-----------------------------------------------------------------------------
(* ProcessQueueWorker                                                      *)

\* The first critical section of the loop.
WorkerRead ==
  /\ pc = "read"
  /\ pc' = "announce"
  /\ cur' = IF queue = <<>> THEN NoEntry ELSE queue[1]
  /\ insertCursor' = IF queue = <<>> \/ insertCursor = cur' THEN NoEntry ELSE insertCursor
  /\ playingSince' = (queue # <<>>)
  /\ UNCHANGED <<queue, updated, apiVars, playVars, prev, removed, played_media, queueEvent, fileVars>>

\* Mutant: the row of the previous entry is left without an end.
logPlayedMedia_NoEnd ==
  \E ok \in LogOutcomes :
    IF ok /\ (prev # NoEntry => played_media[prev] # "none")
    THEN /\ played_media' = [e \in Entries |-> IF e = cur THEN "started" ELSE played_media[e]]
         /\ queueEvent' = CASE prev = NoEntry -> "filled"
                            [] cur = NoEntry  -> "emptied"
                            [] OTHER          -> queueEvent
    ELSE UNCHANGED <<played_media, queueEvent>>

\* One transaction: the row of prev gets its end, the row of cur is upserted.
\* It fails, changing nothing, when the database does or prev has no row.
logPlayedMedia ==
  \E ok \in LogOutcomes :
    IF ok /\ (prev # NoEntry => played_media[prev] # "none")
    THEN /\ played_media' = [e \in Entries |-> CASE e = cur  -> "started"
                                                  [] e = prev -> "ended"
                                                  [] OTHER    -> played_media[e]]
         /\ queueEvent' = CASE prev = NoEntry -> "filled"
                            [] cur = NoEntry  -> "emptied"
                            [] OTHER          -> queueEvent
    ELSE UNCHANGED <<played_media, queueEvent>>

\* entryRemoved for the previous entry and mediaChanged for the new one.
WorkerAnnounce ==
  /\ pc = "announce"
  /\ pc' = IF cur = NoEntry THEN "wait" ELSE "check"
  /\ IF prev = cur
     THEN UNCHANGED <<removed, played_media, queueEvent>>
     ELSE /\ logPlayedMedia
          /\ removed' = IF prev = NoEntry THEN removed
                        ELSE [removed EXCEPT ![prev] = @ + 1]
  /\ prev' = cur
  /\ UNCHANGED <<queue, insertCursor, updated, apiVars, playVars, cur, playingSince, fileVars>>

\* Mutant: an entry that was stopped meanwhile is not looked for.
WorkerCheckPlayed_Never ==
  /\ pc = "check"
  /\ pc' = "play"
  /\ UNCHANGED <<queue, insertCursor, updated, apiVars, playVars, cur, prev, removed, playingSince,
                 played_media, queueEvent, fileVars>>

WorkerCheckPlayed ==
  /\ pc = "check"
  /\ pc' = IF played[cur] THEN "pop" ELSE "play"
  /\ UNCHANGED <<queue, insertCursor, updated, apiVars, playVars, cur, prev, removed, playingSince,
                 played_media, queueEvent, fileVars>>

\* CommonQueueEntry.Play, when the entry is not Playing() by now.
WorkerPlay ==
  /\ pc = "play"
  /\ pc' = "subscribe"
  /\ IF Playing(cur)
     THEN UNCHANGED <<started, timers>>
     ELSE /\ started' = [started EXCEPT ![cur] = TRUE]
          /\ LET k == IF timers[cur][1] = "none" THEN 1 ELSE 2
             IN  timers' = [timers EXCEPT ![cur][k] = "starting"]
  /\ UNCHANGED <<queue, insertCursor, updated, apiVars, played, donePending, onNextMedia, cur, prev,
                 removed, playingSince, played_media, queueEvent, fileVars>>

\* DonePlaying().Subscribe(BufferFirst): a deferred notification goes to the
\* first subscriber.
WorkerSubscribe ==
  /\ pc = "subscribe"
  /\ pc' = "wait"
  /\ onNextMedia' = donePending[cur]
  /\ donePending' = [donePending EXCEPT ![cur] = FALSE]
  /\ UNCHANGED <<queue, insertCursor, updated, apiVars, started, played, timers, cur, prev, removed,
                 playingSince, played_media, queueEvent, fileVars>>

\* The select: case <-onNextMedia
WorkerNextMedia ==
  /\ pc = "wait"
  /\ onNextMedia
  /\ pc' = "pop"
  /\ onNextMedia' = FALSE
  /\ UNCHANGED <<queue, insertCursor, updated, apiVars, started, played, timers, donePending, cur,
                 prev, removed, playingSince, played_media, queueEvent, fileVars>>

\* The select: case <-onQueueUpdated; unsubscribing drops what onNextMedia held
WorkerQueueUpdated ==
  /\ pc = "wait"
  /\ "worker" \in updated
  /\ updated' = updated \ {"worker"}
  /\ pc' = "read"
  /\ onNextMedia' = FALSE
  /\ UNCHANGED <<queue, insertCursor, apiVars, started, played, timers, donePending, cur, prev,
                 removed, playingSince, played_media, queueEvent, fileVars>>

playNext ==
  /\ pc = "pop"
  /\ pc' = "read"
  /\ IF queue = <<>>
     THEN UNCHANGED <<queue, updated>>
     ELSE queue' = Tail(queue) /\ NotifyUpdated
  /\ UNCHANGED <<insertCursor, apiVars, playVars, cur, prev, removed, playingSince, played_media,
                 queueEvent, fileVars>>

Worker == WorkerRead \/ WorkerAnnounce \/ WorkerCheckPlayed \/ WorkerPlay \/ WorkerSubscribe
            \/ WorkerNextMedia \/ WorkerQueueUpdated \/ playNext

-----------------------------------------------------------------------------
(* The goroutines Play starts                                              *)

TimerSubscribe(e, k) ==
  /\ timers[e][k] = "starting"
  /\ timers' = [timers EXCEPT ![e][k] = IF donePending[e] THEN "done" ELSE "waiting"]
  /\ donePending' = [donePending EXCEPT ![e] = FALSE]
  /\ UNCHANGED <<queue, insertCursor, updated, apiVars, started, played, onNextMedia, workVars, fileVars>>

\* The length has elapsed: the goroutine, itself a subscriber of donePlaying,
\* stops the entry and returns.
TimerFires(e, k) ==
  /\ timers[e][k] = "waiting"
  /\ e \notin Endless
  /\ IF Playing(e)
     THEN Stop(e)
     ELSE /\ timers' = [timers EXCEPT ![e][k] = "done"]
          /\ UNCHANGED <<started, played, donePending, onNextMedia>>
  /\ UNCHANGED <<queue, insertCursor, updated, apiVars, workVars, fileVars>>

Timer == \E e \in Entries, k \in Plays : TimerSubscribe(e, k) \/ TimerFires(e, k)

-----------------------------------------------------------------------------
(* persistenceWorker                                                       *)

\* case <-c, then the copy of the queue taken by Entries()
PersisterTake ==
  /\ snapshot = <<>>
  /\ "persister" \in updated
  /\ updated' = updated \ {"persister"}
  /\ snapshot' = <<[queue |-> queue, movedBy |-> movedBy]>>
  /\ UNCHANGED <<queue, insertCursor, apiVars, playVars, workVars, file>>

\* Mutant: the notifications that arrive during the write are drained after it.
PersisterWrite_Drains ==
  /\ snapshot # <<>>
  /\ file' = snapshot[1]
  /\ snapshot' = <<>>
  /\ updated' = updated \ {"persister"}
  /\ UNCHANGED <<queue, insertCursor, apiVars, playVars, workVars>>

PersisterWrite ==
  /\ snapshot # <<>>
  /\ \E ok \in WriteOutcomes : file' = IF ok THEN snapshot[1] ELSE file
  /\ snapshot' = <<>>
  /\ UNCHANGED <<queue, insertCursor, updated, apiVars, playVars, workVars>>

Persister == PersisterTake \/ PersisterWrite

-----------------------------------------------------------------------------
Caller ==
  \/ \E s \in AllSwitches, on \in BOOLEAN : SetAllowed(s, on)
  \/ \E u \in Users : RefillTokens(u)
  \/ \E e \in Entries : \/ SetInsertCursor(e)
                        \/ Enqueue(e)
                        \/ PlayAfterCurrent(e)
                        \/ PlayNow(e)
                        \/ RemoveEntry(e)
  \/ ClearInsertCursor
  \/ SkipCurrentEntry
  \/ \E e \in Entries, u \in Users : \/ RemoveOwnEntry(e, u)
                                     \/ \E up \in BOOLEAN : MoveEntry(e, u, up)

Init ==
  /\ queue \in Restorable
  /\ insertCursor = NoEntry
  /\ allowed = AllSwitches
  /\ tokens = [u \in Users |-> RemovalTokens]
  /\ movedBy = [e \in Entries |-> {}]
  /\ used = {e \in Entries : Queued(e)}
  /\ started = [e \in Entries |-> FALSE]
  /\ played = [e \in Entries |-> FALSE]
  /\ timers = [e \in Entries |-> [k \in Plays |-> "none"]]
  /\ donePending = [e \in Entries |-> FALSE]
  /\ pc = "read"
  /\ cur = NoEntry
  /\ prev = NoEntry
  /\ onNextMedia = FALSE
  /\ updated = {}
  /\ removed = [e \in Entries |-> 0]
  /\ playingSince = FALSE
  /\ played_media = [e \in Entries |-> "none"]
  /\ queueEvent = "none"
  /\ file = [queue |-> queue, movedBy |-> movedBy]
  /\ snapshot = <<>>

Next == Caller \/ Worker \/ Timer \/ Persister

Spec == Init /\ [][Next]_vars

\* The same while persistenceWorker is not scheduled: its steps change nothing
\* the others read.
InMemorySpec == Init /\ [][Caller \/ Worker \/ Timer]_vars

\* Goroutines are scheduled and timers expire; callers owe nothing.
Fairness ==
  /\ WF_vars(Worker)
  /\ WF_vars(Persister)
  /\ \A e \in Entries, k \in Plays : WF_vars(TimerSubscribe(e, k)) /\ WF_vars(TimerFires(e, k))

FairSpec == Spec /\ Fairness
-----------------------------------------------------------------------------
(* Properties                                                              *)

\* Every variable has the shape its declaration describes, and no entry is in
\* the queue at two positions (media_queue.go:34-62).
TypeOK ==
  /\ queue \in Seq(Entries) /\ Distinct(queue)
  /\ insertCursor \in Entries \cup {NoEntry}
  /\ allowed \subseteq AllSwitches
  /\ tokens \in [Users -> 0..RemovalTokens]
  /\ movedBy \in [Entries -> SUBSET Users]
  /\ used \subseteq Entries
  /\ started \in [Entries -> BOOLEAN]
  /\ played \in [Entries -> BOOLEAN]
  /\ timers \in [Entries -> [Plays -> TimerPhases]]
  /\ donePending \in [Entries -> BOOLEAN]
  /\ pc \in {"read", "announce", "check", "play", "subscribe", "wait", "pop"}
  /\ cur \in Entries \cup {NoEntry}
  /\ prev \in Entries \cup {NoEntry}
  /\ onNextMedia \in BOOLEAN
  /\ updated \subseteq {"worker", "persister"}
  /\ removed \in [Entries -> Nat]
  /\ playingSince \in BOOLEAN
  /\ played_media \in [Entries -> {"none", "started", "ended"}]
  /\ queueEvent \in {"none", "filled", "emptied"}

\* Whatever is inserted, moved, stopped or removed around it, an entry that is
\* playing is the one at the head of the queue and the one mediaChanged last
\* announced: two entries never play at once.
OnlyHeadPlays ==
  \A e \in Entries : Playing(e) => /\ queue # <<>> /\ queue[1] = e
                                   /\ prev = e

\* entryRemoved is fired exactly once for each entry that has left the queue
\* "by any means" (media_queue.go:59-61), the head's being due until the worker
\* announces its successor, and never for one that is still queued.
RemovedOnce ==
  \A e \in Entries :
    removed[e] = IF e \in used /\ ~Queued(e) /\ e # prev THEN 1 ELSE 0

\* The insert cursor always marks an entry of the queue, and while the worker
\* is playing an entry the cursor is not on that one (media_queue.go:161).
CursorAhead ==
  insertCursor # NoEntry => /\ Queued(insertCursor)
                            /\ pc # "read" => insertCursor # cur

\* The head leaves the queue only by playNext, and only after it was stopped:
\* playNext pops whatever is first without looking at it (media_queue.go:534).
HeadLeavesPlayed ==
  [][queue # <<>> /\ (queue' = <<>> \/ queue'[1] # queue[1])
       => pc = "pop" /\ played[queue[1]]]_queue

\* Two queued entries change their order only when one of them is moved by a
\* user that had not moved it yet: insertions and removals keep the others in
\* order (media_queue.go:231-241, 263-265, 364, 404).
Ahead(e, f) == \E i, j \in 1..Len(queue) : i < j /\ queue[i] = e /\ queue[j] = f
OrderKept ==
  [][\A e, f \in Entries :
       Ahead(e, f) /\ Ahead(f, e)' =>
         \E m \in {e, f}, u \in Users : u \in movedBy'[m] \ movedBy[m]]_<<queue, movedBy>>

\* A queueUpdated that follows the stop of the head gets it off the queue, even
\* if its donePlaying notification was lost (media_queue.go:306, 493-496, 518).
StoppedHeadLeavesOnUpdate ==
  \A e \in Entries :
    (queue # <<>> /\ queue[1] = e /\ played[e] /\ "worker" \in updated) ~> ~Queued(e)

\* "ProcessQueueWorker will take care of firing entryRemoved"
\* (media_queue.go:358): an entry that was stopped while at the head eventually
\* leaves the queue and is announced as removed.
StoppedIsRemoved == \A e \in Entries : played[e] ~> removed[e] = 1
=============================================================================
