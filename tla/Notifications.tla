---------------------------- MODULE Notifications ----------------------------
(***************************************************************************)
(* Persisted notifications (server/components/notificationmanager) that    *)
(* light up a destination of the navigation bar of one viewer              *)
(* (app/src/notifications.ts), through the stream of ConsumeMedia.         *)
(*                                                                         *)
(* Everything here is about one persistency key, which is for everyone or  *)
(* for the viewer.  Its notifications are numbered as they are made, and   *)
(* their deadlines pass in that order.  Each subscription of the stream    *)
(* has a channel and a goroutine of its own, as has the first delivery of  *)
(* what is persisted: only what comes through one of them stays in order.  *)
(***************************************************************************)
EXTENDS Integers, Sequences, FiniteSets

CONSTANTS
  MaxNotifications, \* bound on the notifications made for the key
  MaxQueued,        \* bound on what the channels of the viewer hold together
  MaxCleanups       \* bound on the cleanups of the viewer's key that wait for k.mu

VARIABLES
  personal,   \* whether the key is for the viewer alone
  made,       \* notifications made so far
  announcing, \* those that Notify has persisted and not sent
  persisted,  \* the entry of persistedNotifications, 0 if none
  read,       \* whether readNotifications has the viewer for the key
  monitor,    \* where the notificationExpirationMonitor of each one is
  aborted,    \* those whose monitorAbortChan is closed
  late,       \* those whose deadline has passed
  cancelled,  \* those whose clear function was called
  stream,     \* the subscription of the viewer: off, subscribed or live
  orphaned,   \* whether its subscription to the viewer's key is to an event that is no longer there
  cleanups,   \* counts of 0 for the viewer's key, read and not acted on (utils/event/keyed.go)
  initial,    \* the first delivery, until it is done
  broadcast,  \* the channel subscribed to the event of everyone
  direct,     \* the channel subscribed to the viewer's key of onSingleUser
  entry,      \* the client's entry of persistedNotifications, 0 if none
  lit,        \* whether the destination is highlighted
  stale,      \* history: an event that takes the light away was lost or overtaken
  dark        \* history: an event that takes it away overtook one that gives it

monitorVars == <<monitor, aborted, late, cancelled>>
streamVars == <<stream, orphaned, cleanups>>
channelVars == <<initial, broadcast, direct>>
clientVars  == <<entry, lit>>
historyVars == <<stale, dark>>
notificationVars ==
  <<personal, made, announcing, persisted, read, monitorVars, streamVars, channelVars, clientVars,
    historyVars>>

Numbers == 1..MaxNotifications
Clear == 0 \* the event that clears the key; any other is a new notification

Listening == stream # "off"
Reachable == Listening /\ ~orphaned \* through onSingleUser
Unread == persisted # 0 /\ ~read
Over == late \cup cancelled

-----------------------------------------------------------------------------
(* The manager                                                             *)

Queued == Len(initial) + Len(broadcast) + Len(direct)

\* Mutant: events are missed until the snapshot was taken.
Sent_Late(reached, channel, events) ==
  IF reached /\ stream = "live" THEN channel \o events ELSE channel

\* What a channel of the viewer holds after events were sent that reached it or not.
Sent(reached, channel, events) == IF reached THEN channel \o events ELSE channel

\* maybePersistNotification
Persist ==
  /\ made < MaxNotifications
  /\ made' = made + 1
  /\ announcing' = announcing \cup {made + 1}
  /\ persisted' = made + 1
  /\ read' = FALSE
  /\ monitor' = [monitor EXCEPT ![made + 1] = "waiting"]
  /\ aborted' = aborted \cup ({persisted} \ {0})
  /\ UNCHANGED <<personal, late, cancelled, streamVars, channelVars, clientVars, historyVars>>

\* The rest of Notify.  Another event about the key may have been sent first, or
\* be on its way through another channel.
Announce(n) ==
  LET reached == IF personal THEN Reachable ELSE Listening
  IN  /\ n \in announcing /\ Queued < MaxQueued
      /\ announcing' = announcing \ {n}
      /\ IF personal THEN direct' = Sent(reached, direct, <<n>>) /\ UNCHANGED broadcast
                     ELSE broadcast' = Sent(reached, broadcast, <<n>>) /\ UNCHANGED direct
      /\ stale' = (stale \/ (reached /\ (persisted # n \/ read)))
      /\ dark' = (dark \/ (Listening /\ \/ ~reached \/ persisted # n \/ initial \notin {<<>>, <<n>>}
                                        \/ ~personal /\ direct # <<>>))
      /\ UNCHANGED <<personal, made, persisted, read, monitorVars, streamVars, initial, clientVars>>

\* How the event that clears the key comes to the viewer.
SendClear(events) ==
  /\ Queued + Len(events) <= MaxQueued
  /\ direct' = Sent(Reachable, direct, events)
  /\ stale' = (stale \/ IF Reachable THEN broadcast # <<>> \/ initial # <<>> ELSE lit \/ Queued > 0)
  /\ UNCHANGED <<streamVars, initial, broadcast, clientVars, dark>>

\* clearPersistedNotificationInsideMutex
ClearInsideMutex(events) ==
  /\ aborted' = aborted \cup {persisted}
  /\ persisted' = 0 /\ read' = FALSE
  /\ SendClear(events)

\* MarkAsRead, for the viewer.  Everyone never has read it, the viewer alone has.
MarkAsRead ==
  /\ persisted # 0
  /\ IF personal THEN ClearInsideMutex(<<Clear, Clear>>)
                 ELSE read' = TRUE /\ SendClear(<<Clear>>) /\ UNCHANGED <<persisted, aborted>>
  /\ UNCHANGED <<personal, made, announcing, monitor, late, cancelled>>

\* ClearPersistedNotificationsWithKeyPrefix, or ...SentByApplication
ClearPersisted ==
  /\ persisted # 0
  /\ ClearInsideMutex(<<Clear>>)
  /\ UNCHANGED <<personal, made, announcing, monitor, late, cancelled>>

\* Whoever made a notification calls the function that Notify returned.
CallClear(n) ==
  /\ n <= made /\ n \notin announcing \cup cancelled
  /\ cancelled' = cancelled \cup {n}
  /\ UNCHANGED <<personal, made, announcing, persisted, read, monitor, aborted, late, streamVars,
                 channelVars, clientVars, historyVars>>

\* Time goes by, for the server and for the client.
PassDeadline(n) ==
  /\ n <= made /\ n \notin late /\ 1..(n - 1) \subseteq late
  /\ late' = late \cup {n}
  /\ UNCHANGED <<personal, made, announcing, persisted, read, monitor, aborted, cancelled, streamVars,
                 channelVars, clientVars, historyVars>>

\* The select of notificationExpirationMonitor.
MonitorAborts(n) ==
  /\ monitor[n] = "waiting" /\ n \in aborted
  /\ monitor' = [monitor EXCEPT ![n] = "ended"]
  /\ UNCHANGED <<personal, made, announcing, persisted, read, aborted, late, cancelled, streamVars,
                 channelVars, clientVars, historyVars>>

MonitorDone(n) ==
  /\ monitor[n] = "waiting" /\ n \in Over
  /\ monitor' = [monitor EXCEPT ![n] = "clearing"]
  /\ UNCHANGED <<personal, made, announcing, persisted, read, aborted, late, cancelled, streamVars,
                 channelVars, clientVars, historyVars>>

\* ... and ClearPersistedNotification, of whatever has the key by then.
MonitorClears(n) ==
  /\ monitor[n] = "clearing"
  /\ monitor' = [monitor EXCEPT ![n] = "ended"]
  /\ IF persisted # 0
       THEN ClearInsideMutex(<<Clear>>)
       ELSE UNCHANGED <<aborted, persisted, read, streamVars, channelVars, clientVars, historyVars>>
  /\ UNCHANGED <<personal, made, announcing, late, cancelled>>

-----------------------------------------------------------------------------
(* The stream and the client                                               *)

\* monitor, the function: from here on nothing is missed, unless a cleanup of an
\* earlier event of the viewer's key takes this one out of the map.
Subscribe ==
  /\ stream = "off"
  /\ stream' = "subscribed" /\ orphaned' = FALSE
  /\ UNCHANGED <<personal, made, announcing, persisted, read, monitorVars, cleanups, channelVars, clientVars,
                 historyVars>>

\* The goroutine of SubscribeToEventsForUser.
TakeSnapshot ==
  /\ stream = "subscribed" /\ Queued < MaxQueued
  /\ stream' = "live"
  /\ initial' = IF Unread THEN <<persisted>> ELSE <<>>
  /\ UNCHANGED <<personal, made, announcing, persisted, read, monitorVars, orphaned, cleanups, broadcast,
                 direct, clientVars, historyVars>>

\* A subscription to the viewer's key ends.  The cleanup of its event reads a 0, but
\* not if another stream of the viewer is subscribed or a count is waiting for it.
UnsubscribeFromKey == cleanups' \in cleanups .. (cleanups + 1) /\ cleanups' <= MaxCleanups

\* The stream ends, with what was on its way.
Lose ==
  /\ stream # "off"
  /\ stream' = "off" /\ orphaned' = FALSE
  /\ UnsubscribeFromKey
  /\ initial' = <<>> /\ broadcast' = <<>> /\ direct' = <<>>
  /\ stale' = (stale \/ (lit /\ \E i \in DOMAIN direct : direct[i] = Clear))
  /\ UNCHANGED <<personal, made, announcing, persisted, read, monitorVars, clientVars, dark>>

\* Another stream of the viewer ends, on this event or on one that is no longer there.
LoseOther ==
  /\ UnsubscribeFromKey
  /\ UNCHANGED <<personal, made, announcing, persisted, read, monitorVars, stream, orphaned, channelVars,
                 clientVars, historyVars>>

\* The callback of getOrCreateEvent has k.mu: whatever event the key has by now goes.
Cleanup ==
  /\ cleanups > 0
  /\ cleanups' = cleanups - 1
  /\ orphaned' = Listening
  /\ UNCHANGED <<personal, made, announcing, persisted, read, monitorVars, stream, channelVars, clientVars,
                 historyVars>>

\* processNotifications and processClearedNotifications: an entry to set, one
\* that is there and goes away, or neither.
Process(event) ==
  CASE event # Clear /\ event \notin late -> entry' = event /\ lit' = TRUE
    [] event # Clear /\ event \in late /\ entry = 0 -> lit' = TRUE /\ UNCHANGED entry
    [] event = Clear /\ entry = 0 -> UNCHANGED clientVars
    [] OTHER -> entry' = 0 /\ lit' = FALSE

\* A checkpoint arrives.  After the last one on its way, a light that is off
\* is not stale, and one for what is persisted is not missed.
Receive(event) ==
  /\ Process(event)
  /\ stale' = ((stale \/ event \in late) /\ (lit' \/ Queued > 1))
  /\ dark' = (dark /\ (entry' # persisted \/ Queued > 1))
  /\ UNCHANGED <<personal, made, announcing, persisted, read, monitorVars, streamVars>>

ReceiveInitial ==
  /\ initial # <<>>
  /\ Receive(Head(initial))
  /\ initial' = <<>> /\ UNCHANGED <<broadcast, direct>>

ReceiveBroadcast ==
  /\ broadcast # <<>>
  /\ Receive(Head(broadcast))
  /\ broadcast' = Tail(broadcast) /\ UNCHANGED <<initial, direct>>

ReceiveDirect ==
  /\ direct # <<>>
  /\ Receive(Head(direct))
  /\ direct' = Tail(direct) /\ UNCHANGED <<initial, broadcast>>

\* The timeout of the entry.
ClientExpires ==
  /\ entry \in late
  /\ entry' = 0 /\ lit' = FALSE
  /\ UNCHANGED <<personal, made, announcing, persisted, read, monitorVars, streamVars, channelVars,
                 historyVars>>

-----------------------------------------------------------------------------

NotificationsInit ==
  /\ personal \in BOOLEAN
  /\ made = 0 /\ announcing = {} /\ persisted = 0 /\ read = FALSE
  /\ monitor = [n \in Numbers |-> "none"] /\ aborted = {} /\ late = {} /\ cancelled = {}
  /\ stream = "off" /\ orphaned = FALSE /\ cleanups = 0
  /\ initial = <<>> /\ broadcast = <<>> /\ direct = <<>>
  /\ entry = 0 /\ lit = FALSE
  /\ stale = FALSE /\ dark = FALSE

NotificationsNext ==
  \/ Persist \/ MarkAsRead \/ ClearPersisted
  \/ \E n \in Numbers : \/ Announce(n) \/ CallClear(n) \/ PassDeadline(n)
                        \/ MonitorAborts(n) \/ MonitorDone(n) \/ MonitorClears(n)
  \/ Subscribe \/ TakeSnapshot \/ Lose \/ LoseOther \/ Cleanup
  \/ ReceiveInitial \/ ReceiveBroadcast \/ ReceiveDirect \/ ClientExpires

NotificationsSpec == NotificationsInit /\ [][NotificationsNext]_notificationVars

-----------------------------------------------------------------------------
(* Properties                                                              *)

\* Nothing about the key is on its way, to the manager or to the client.
Settled ==
  /\ stream = "live" /\ initial = <<>> /\ broadcast = <<>> /\ direct = <<>>
  /\ announcing = {} /\ persisted \notin Over /\ entry \notin late

\* A viewer whose client has received everything sees the destination
\* highlighted exactly if a notification about it is persisted that the viewer
\* has not read, through replacements, expiry, reading and lost streams
\* (manager.go:60-95, notifications.ts:10-44), up to what this code does not
\* keep in order or does not deliver.  The light may stay on after a clear that was
\* lost with the stream or overtook the notification, and after a notification that
\* came past its deadline; it may be off after a notification that an earlier one or
\* a clear of the same key overtook; and either may follow what was sent to the
\* viewer's key while a late cleanup of an earlier event had taken the one that the
\* stream is subscribed to out of the map (keyed.go:39-47).
ShowsWhatIsUnread == Settled =>
  /\ Unread /\ ~dark => lit
  /\ lit /\ ~stale => Unread
=============================================================================
