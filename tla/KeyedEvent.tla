------------------------------ MODULE KeyedEvent ------------------------------
(***************************************************************************)
(* One key of a Keyed event (utils/event/keyed.go) and the events that     *)
(* serve it one after the other (utils/event/event.go).  Keys share only   *)
(* the mutex k.mu, so one key stands for all of them.                      *)
(*                                                                         *)
(* Subscribe, Notify and Close run under k.mu; a subscriber unsubscribes   *)
(* from its event without it.  Each event has a cleanup goroutine, which   *)
(* learns of its subscriber count through a BufferFirst channel and takes  *)
(* the event out of the map when it reads a 0.  Concurrent calls of Notify *)
(* share a read lock; here they happen one after the other.                *)
(***************************************************************************)
EXTENDS FastCollection, FiniteSets

CONSTANTS
  Subscribers,
  Strategy,    \* the BufferStrategy each subscriber uses
  Events,      \* the event objects created for the key
  NoEvent,     \* no event for the key, or not subscribed
  Deferral,    \* the values of deferNotification that callers pass
  MaxMessages  \* bound on the notifications that are examined

Strategies == {"first", "latest", "all"}

ASSUME KeyedAssumption ==
  /\ NoEvent \notin Events
  /\ Nil \notin Subscribers
  /\ Strategy \in [Subscribers -> Strategies]
  /\ Deferral \subseteq BOOLEAN
  /\ MaxMessages \in Nat

VARIABLES
  current,    \* k.events[key]
  kept,       \* k.pendingNotifications[key]
  upgrading,  \* calls of Notify between RUnlock and Lock, to defer a notification
  panicked,   \* a nil event was used, which ends the process
  created,    \* events created so far
  subs,       \* per event and strategy, the collection of subscriptions
  pendingNotifications, \* per event
  closed,     \* per event
  at,         \* the event each subscriber is subscribed to
  subID,      \* the identifier of its subscription, 0 without one
  inbox,      \* what the channel of each subscriber holds
  sent,       \* notifications numbered so far
  cleanup     \* per event, the goroutine started by getOrCreateEvent

keyVars == <<current, kept, upgrading, panicked, created>>
vars == <<keyVars, subs, pendingNotifications, closed, at, subID, inbox, sent, cleanup>>

-----------------------------------------------------------------------------
(* The event                                                               *)

\* notifyNowWithinMutex: the loops over the first two collections rely on the
\* content of a free slot being nil, the one over the third looks at the slot.
Reached(e) ==
  {s \in Subscribers : \/ s \in BackingContents(subs[e]["first"])
                       \/ s \in BackingContents(subs[e]["latest"])
                       \/ s \in Entries(subs[e]["all"])}

len(e) == subs[e]["first"].len + subs[e]["latest"].len + subs[e]["all"].len

Send(strategy, box, m) ==
  CASE strategy = "first"  -> IF box = <<>> THEN <<m>> ELSE box
    [] strategy = "latest" -> <<m>>
    [] strategy = "all"    -> Append(box, m)

\* The loops over what was kept and over what was deferred.
SendEach(strategy, box, ms) ==
  LET after[n \in 0..Len(ms)] == IF n = 0 THEN box ELSE Send(strategy, after[n - 1], ms[n])
  IN  after[Len(ms)]

\* event.Notify with deferNotification = defer
NotifyEvent(e, m, defer) ==
  IF closed[e] THEN UNCHANGED <<inbox, pendingNotifications>>
  ELSE IF defer /\ len(e) = 0
  THEN /\ pendingNotifications' = [pendingNotifications EXCEPT ![e] = Append(@, m)]
       /\ UNCHANGED inbox
  ELSE /\ inbox' = [s \in Subscribers |-> IF s \in Reached(e) THEN Send(Strategy[s], inbox[s], m)
                                                              ELSE inbox[s]]
       /\ UNCHANGED pendingNotifications

-----------------------------------------------------------------------------
(* Operations of subscribers                                               *)

\* Mutant: what was deferred stays behind and is sent again.
Subscribe_Resends(s) ==
  /\ ~panicked
  /\ at[s] = NoEvent
  /\ \E e \in IF current = NoEvent THEN Events \ created ELSE {current} :
       /\ current' = e
       /\ created' = created \cup {e}
       /\ at' = [at EXCEPT ![s] = e]
       /\ subID' = [subID EXCEPT ![s] = InsertID(subs[e][Strategy[s]])]
       /\ subs' = [subs EXCEPT ![e][Strategy[s]] = Insert(@, s)]
       /\ inbox' = [x \in Subscribers |->
                      IF x = s \/ x \in Reached(e)
                      THEN SendEach(Strategy[x], inbox[x], pendingNotifications[e] \o kept)
                      ELSE inbox[x]]
       /\ pendingNotifications' = [pendingNotifications EXCEPT ![e] = @ \o kept]
       /\ kept' = <<>>
       /\ cleanup' = IF e \in created THEN cleanup
                     ELSE [cleanup EXCEPT ![e].at = "wait", ![e].open = TRUE]
  /\ UNCHANGED <<upgrading, panicked, closed, sent>>

\* getOrCreateEvent; event.Notify(kept, true), which defers it when nobody is
\* subscribed; then event.Subscribe, which sends what was deferred to everyone.
Subscribe(s) ==
  /\ ~panicked
  /\ at[s] = NoEvent
  /\ \E e \in IF current = NoEvent THEN Events \ created ELSE {current} :
       LET mine   == pendingNotifications[e] \o (IF len(e) = 0 THEN kept ELSE <<>>)
           others == kept \o pendingNotifications[e]
       IN  /\ current' = e
           /\ created' = created \cup {e}
           /\ at' = [at EXCEPT ![s] = e]
           /\ subID' = [subID EXCEPT ![s] = InsertID(subs[e][Strategy[s]])]
           /\ subs' = [subs EXCEPT ![e][Strategy[s]] = Insert(@, s)]
           /\ IF closed[e]
              THEN UNCHANGED <<inbox, pendingNotifications>>
              ELSE /\ inbox' = [x \in Subscribers |->
                                  CASE x = s            -> SendEach(Strategy[x], <<>>, mine)
                                    [] x \in Reached(e) -> SendEach(Strategy[x], inbox[x], others)
                                    [] OTHER            -> inbox[x]]
                   /\ pendingNotifications' = [pendingNotifications EXCEPT ![e] = <<>>]
           /\ kept' = <<>>
           /\ cleanup' = IF e \in created THEN cleanup
                         ELSE [cleanup EXCEPT ![e].at = "wait", ![e].open = TRUE]
  /\ UNCHANGED <<upgrading, panicked, closed, sent>>

\* The function Subscribe returned; onUnsubscribed.Notify reaches the cleanup
\* goroutine if its channel is empty.
Unsubscribe(s) ==
  LET e == at[s]
  IN  /\ ~panicked
      /\ e # NoEvent
      /\ subs' = [subs EXCEPT ![e][Strategy[s]] = Delete(@, subID[s])]
      /\ at' = [at EXCEPT ![s] = NoEvent]
      /\ subID' = [subID EXCEPT ![s] = 0]
      /\ inbox' = [inbox EXCEPT ![s] = <<>>]
      /\ cleanup' = IF cleanup[e].open /\ cleanup[e].counts = <<>>
                    THEN [cleanup EXCEPT ![e].counts = <<len(e) - 1>>]
                    ELSE cleanup
  /\ UNCHANGED <<keyVars, pendingNotifications, closed, sent>>

Read(s) ==
  /\ ~panicked
  /\ inbox[s] # <<>>
  /\ inbox' = [inbox EXCEPT ![s] = Tail(@)]
  /\ UNCHANGED <<keyVars, subs, pendingNotifications, closed, at, subID, sent, cleanup>>

-----------------------------------------------------------------------------
(* Operations of notifiers                                                 *)

Notify(defer) ==
  /\ ~panicked
  /\ current # NoEvent
  /\ sent + upgrading < MaxMessages
  /\ sent' = sent + 1
  /\ NotifyEvent(current, sent', defer)
  /\ UNCHANGED <<keyVars, subs, closed, at, subID, cleanup>>

\* The key has no event: the read lock is given up to take the write lock.
NotifyUpgrade ==
  /\ TRUE \in Deferral
  /\ ~panicked
  /\ current = NoEvent
  /\ sent + upgrading < MaxMessages
  /\ upgrading' = upgrading + 1
  /\ UNCHANGED <<current, kept, panicked, created, subs, pendingNotifications, closed, at, subID, inbox,
                 sent, cleanup>>

\* The e of the second check is the zero value the first one declared.
NotifyRecheck ==
  /\ ~panicked
  /\ upgrading > 0
  /\ upgrading' = upgrading - 1
  /\ IF current # NoEvent
     THEN panicked' = TRUE /\ UNCHANGED <<kept, sent>>
     ELSE kept' = Append(kept, sent + 1) /\ sent' = sent + 1 /\ UNCHANGED panicked
  /\ UNCHANGED <<current, created, subs, pendingNotifications, closed, at, subID, inbox, cleanup>>

Close ==
  /\ ~panicked
  /\ current # NoEvent
  /\ closed' = [closed EXCEPT ![current] = TRUE]
  /\ UNCHANGED <<keyVars, subs, pendingNotifications, at, subID, inbox, sent, cleanup>>

-----------------------------------------------------------------------------
(* The cleanup goroutine of an event                                       *)

\* The goroutine ends once its channel is closed and empty.
CleanupRead(e) ==
  /\ ~panicked
  /\ cleanup[e].at = "wait"
  /\ cleanup[e].counts # <<>>
  /\ cleanup' = [cleanup EXCEPT ![e].counts = <<>>,
                                ![e].at = IF cleanup[e].counts[1] = 0 THEN "lock"
                                          ELSE IF cleanup[e].open THEN "wait" ELSE "ended"]
  /\ UNCHANGED <<keyVars, subs, pendingNotifications, closed, at, subID, inbox, sent>>

\* The callback, once it holds k.mu: whatever event serves the key by now is
\* taken out of the map.  The channel is closed but still holds its count.
CleanupDelete(e) ==
  /\ ~panicked
  /\ cleanup[e].at = "lock"
  /\ current' = NoEvent
  /\ kept' = <<>>
  /\ cleanup' = [cleanup EXCEPT ![e].open = FALSE,
                                ![e].at = IF cleanup[e].counts = <<>> THEN "ended" ELSE "wait"]
  /\ UNCHANGED <<upgrading, panicked, created, subs, pendingNotifications, closed, at, subID, inbox, sent>>

-----------------------------------------------------------------------------
Init ==
  /\ current = NoEvent
  /\ kept = <<>>
  /\ upgrading = 0
  /\ panicked = FALSE
  /\ created = {}
  /\ subs = [e \in Events |-> [st \in Strategies |-> EmptyCollection]]
  /\ pendingNotifications = [e \in Events |-> <<>>]
  /\ closed = [e \in Events |-> FALSE]
  /\ at = [s \in Subscribers |-> NoEvent]
  /\ subID = [s \in Subscribers |-> 0]
  /\ inbox = [s \in Subscribers |-> <<>>]
  /\ sent = 0
  /\ cleanup = [e \in Events |-> [at |-> "none", open |-> FALSE, counts |-> <<>>]]

Next ==
  \/ \E s \in Subscribers : Subscribe(s) \/ Unsubscribe(s) \/ Read(s)
  \/ \E defer \in Deferral : Notify(defer)
  \/ NotifyUpgrade
  \/ NotifyRecheck
  \/ Close
  \/ \E e \in Events : CleanupRead(e) \/ CleanupDelete(e)

Spec == Init /\ [][Next]_vars
-----------------------------------------------------------------------------
(* Properties                                                              *)

\* Each event, with its collections that reuse the slots of those who left, is
\* a Topic: a notification reaches exactly the subscribers it has, each as its
\* strategy promises, and what was deferred goes to the first of them
\* (event.go:58-86, 263-316).
AsTopics == INSTANCE Topic WITH
  Topics   <- Events,
  NoTopic  <- NoEvent,
  Messages <- 1..MaxMessages,
  MaxKept  <- MaxMessages,
  deferred <- pendingNotifications

EventsAreTopics == AsTopics!TopicSpec

\* A notification is never read after a later one: what was deferred for the
\* key, or for its event, comes before anything sent since (keyed.go:60-64).
InOrder ==
  \A s \in Subscribers : \A i, j \in 1..Len(inbox[s]) : i < j => inbox[s][i] < inbox[s][j]

\* "by locking and unlocking outside of the getOrCreateEvent function, we ensure
\* that the subscription happens inside the lock and therefore we don't lose
\* track of any Notify calls" (keyed.go:54-55): whoever is subscribed is
\* subscribed to the event that Notify finds.
SubscriberIsFound == \A s \in Subscribers : at[s] # NoEvent => at[s] = current
=============================================================================
