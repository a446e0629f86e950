---------------------------- MODULE KeyedEventMC ----------------------------
(* Small instances of KeyedEvent and of Notifications, which are made of    *)
(* such events.  Each behaviour is about one of the two, as they share no   *)
(* variable; the other stays as it starts.                                  *)
EXTENDS KeyedEvent, TLC

CONSTANTS s1, s2, s3, ev1, ev2, ev3, MaxNotifications, MaxQueued, MaxCleanups

VARIABLES
  personal, made, announcing, persisted, read, monitor, aborted, late, cancelled,
  stream, orphaned, cleanups, initial, broadcast, direct, entry, lit, stale, dark,
  about \* which of the two this behaviour is about

Notifications == INSTANCE Notifications

notificationVars ==
  <<personal, made, announcing, persisted, read, monitor, aborted, late, cancelled,
    stream, orphaned, cleanups, initial, broadcast, direct, entry, lit, stale, dark>>

MCInit ==
  /\ Init /\ Notifications!NotificationsInit
  /\ about \in {"events", "notifications"} /\ (personal => about = "notifications")
MCNext ==
  /\ UNCHANGED about
  /\ \/ about = "events" /\ Next /\ UNCHANGED notificationVars
     \/ about = "notifications" /\ Notifications!NotificationsNext /\ UNCHANGED vars
MCSpec == MCInit /\ [][MCNext]_<<vars, notificationVars, about>>

\* Two subscribers share a collection, so slots are reused in every order.
MCStrategy == s1 :> "all" @@ s2 :> "all" @@ s3 :> "latest"
MCSymmetry == Permutations(Events) \cup Permutations({s1, s2})

MCCallbacks == s1 :> "first" @@ s2 :> "first"

(* The property of Notifications of that name (manager.go of the            *)
(* notification manager, notifications.ts).                                 *)
ShowsWhatIsUnread == Notifications!ShowsWhatIsUnread
=============================================================================
