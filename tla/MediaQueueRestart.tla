-------------------------- MODULE MediaQueueRestart --------------------------
(***************************************************************************)
(* The lives of a server process: the media queue of one life, killed at   *)
(* any moment, and the next one restored from the queue file and the       *)
(* database (mediaqueue.New).  What the process held in memory is lost;    *)
(* the file and the played_media and media queue event tables stay.        *)
(***************************************************************************)
EXTENDS MediaQueue, FiniteSets

CONSTANTS
  Volatile, \* entries that do not survive a restart: application pages
  MaxLives  \* bound on the lives of the process that are examined

ASSUME RestartAssumption == Volatile \subseteq Entries /\ MaxLives \in Nat \ {0}

VARIABLES
  life, \* which life of the process this is
  lost  \* entries of earlier lives that the restarts did not bring back

restartVars == <<vars, life, lost>>

keepInQueue(e) == e \notin Volatile

\* The loop over the restored entries, which passes over those not to be kept.
Kept(q) ==
  LET kept[n \in 0..Len(q)] ==
        IF n = 0 THEN <<>>
        ELSE IF keepInQueue(q[n]) THEN Append(kept[n - 1], q[n]) ELSE kept[n - 1]
  IN  kept[Len(q)]

\* restoreQueueFromFile; a write cut short by the crash is taken to have
\* happened or not.
restoreQueueFromFile ==
  \E f \in {file} \cup ToSet(snapshot) :
    /\ file' = f
    /\ queue' = Kept(f.queue)
    /\ movedBy' = [e \in Entries |-> IF e \in ToSet(queue') THEN f.movedBy[e] ELSE {}]

restorePlayingSinceFromDatabase == playingSince' = (queueEvent = "filled")

Restart ==
  /\ life < MaxLives
  /\ life' = life + 1
  /\ restoreQueueFromFile
  /\ restorePlayingSinceFromDatabase
  /\ lost' = (lost \cup used) \ ToSet(queue')
  /\ used' = ToSet(queue')
  /\ insertCursor' = NoEntry
  /\ allowed' = AllSwitches
  /\ tokens' = [u \in Users |-> RemovalTokens]
  /\ started' = [e \in Entries |-> FALSE]
  /\ played' = [e \in Entries |-> FALSE]
  /\ timers' = [e \in Entries |-> [k \in Plays |-> "none"]]
  /\ donePending' = [e \in Entries |-> FALSE]
  /\ pc' = "read"
  /\ cur' = NoEntry
  /\ prev' = NoEntry
  /\ onNextMedia' = FALSE
  /\ updated' = {}
  /\ removed' = [e \in Entries |-> 0]
  /\ snapshot' = <<>>
  /\ UNCHANGED <<played_media, queueEvent>>

\* One step of the running process; performance IDs are never used again.
Run == Next /\ used' \cap lost = {} /\ UNCHANGED <<life, lost>>

RestartInit == Init /\ life = 1 /\ lost = {}
RestartNext == Run \/ Restart
RestartSpec == RestartInit /\ [][RestartNext]_restartVars

-----------------------------------------------------------------------------
\* fetchAndUpdateRecentlyPlayedMediaCount within recentPlayDuration of every
\* row: the rows of the user, less one at the first row without an end.
Rows(u, states) == {e \in Entries : RequestedBy[e] = u /\ played_media[e] \in states}
RecentlyPlayedCount(u) ==
  Cardinality(Rows(u, {"started", "ended"})) - (IF Rows(u, {"started"}) # {} THEN 1 ELSE 0)

\* The count is meant to hold only entries "that have already finished playing"
\* (media_queue.go:829).  A crash leaves the row of the playing entry without an
\* end for good, and only one such row is discounted: the count exceeds the
\* finished entries by at most one per earlier life, never within the first.
CountOvershoot ==
  \A u \in Users : RecentlyPlayedCount(u) - Cardinality(Rows(u, {"ended"})) <= life - 1

\* A crash at a moment when the last change of the queue had been written
\* loses no entry, no order and no record of who moved an entry, except for the
\* application pages: every change that matters has notified queueUpdated.  And
\* between two changes of the playing entry it does not end or restart the streak
\* of playingSince, which comes from the latest event in the database; it begins
\* one where there was none only if an entry that an earlier restart did not
\* bring back was cut short, whose row and streak were left without an end
\* (media_queue.go:641-666, 729-753).
QuietRestartKeepsQueue ==
  /\ [][life' # life /\ snapshot = <<>> /\ "persister" \notin updated =>
          /\ queue' = Kept(queue)
          /\ \A e \in ToSet(queue') : movedBy'[e] = movedBy[e]]_restartVars
  /\ [][life' # life /\ pc = "wait" =>
          /\ playingSince => playingSince'
          /\ playingSince' /\ ~playingSince => \E e \in lost : played_media[e] = "started"]_restartVars
=============================================================================
