--------------------------------- MODULE Topic ---------------------------------
(***************************************************************************)
(* What events (utils/event) promise, without their data structures: who   *)
(* is subscribed to each, what each subscriber can read, and the           *)
(* notifications kept for the first one.                                   *)
(***************************************************************************)
EXTENDS Integers, SequencesExt

CONSTANTS
  Topics,
  NoTopic,
  Subscribers,
  Strategy, \* the BufferStrategy of each subscriber: "first", "latest" or "all"
  Messages, \* what can be sent
  MaxKept   \* bound on the notifications kept before there is an event

VARIABLES
  at,        \* the topic each subscriber is subscribed to
  inbox,     \* what each subscriber has not read yet
  deferred,  \* per topic, notifications sent with nobody subscribed
  closed     \* per topic, no more notifications will be sent

topicVars == <<at, inbox, deferred, closed>>

\* What a notification does to the channel of a subscriber, per strategy:
\* "the first notification that was sent after their latest read", "the latest
\* notification", "exactly as many times as the event is fired".
Offer(strategy, box, m) ==
  CASE strategy = "first"  -> IF box = <<>> THEN <<m>> ELSE box
    [] strategy = "latest" -> <<m>>
    [] strategy = "all"    -> Append(box, m)

OfferAll(strategy, box, ms) ==
  IF ms = <<>> THEN box
  ELSE CASE strategy = "first"  -> IF box = <<>> THEN <<ms[1]>> ELSE box
         [] strategy = "latest" -> <<ms[Len(ms)]>>
         [] strategy = "all"    -> box \o ms

TopicInit ==
  /\ at = [s \in Subscribers |-> NoTopic]
  /\ inbox = [s \in Subscribers |-> <<>>]
  /\ deferred = [t \in Topics |-> <<>>]
  /\ closed = [t \in Topics |-> FALSE]

\* The first subscriber gets what was deferred, here and (ms) before the event
\* existed.
TopicSubscribe(t, s, ms) ==
  /\ at[s] = NoTopic
  /\ at' = [at EXCEPT ![s] = t]
  /\ IF closed[t]
     THEN UNCHANGED <<inbox, deferred>>
     ELSE /\ inbox' = [inbox EXCEPT ![s] = OfferAll(Strategy[s], <<>>, deferred[t] \o ms)]
          /\ deferred' = [deferred EXCEPT ![t] = <<>>]
  /\ UNCHANGED closed

TopicUnsubscribe(s) ==
  /\ at[s] # NoTopic
  /\ at' = [at EXCEPT ![s] = NoTopic]
  /\ inbox' = [inbox EXCEPT ![s] = <<>>]
  /\ UNCHANGED <<deferred, closed>>

TopicNotify(t, m) ==
  /\ ~closed[t]
  /\ inbox' = [s \in Subscribers |-> IF at[s] = t THEN Offer(Strategy[s], inbox[s], m) ELSE inbox[s]]
  /\ UNCHANGED <<at, deferred, closed>>

TopicDefer(t, m) ==
  /\ ~closed[t]
  /\ \A s \in Subscribers : at[s] # t
  /\ deferred' = [deferred EXCEPT ![t] = Append(@, m)]
  /\ UNCHANGED <<at, inbox, closed>>

TopicRead(s) ==
  /\ inbox[s] # <<>>
  /\ inbox' = [inbox EXCEPT ![s] = Tail(@)]
  /\ UNCHANGED <<at, deferred, closed>>

TopicClose(t) == closed' = [closed EXCEPT ![t] = TRUE] /\ UNCHANGED <<at, inbox, deferred>>

TopicNext ==
  \/ \E s \in Subscribers : TopicUnsubscribe(s) \/ TopicRead(s)
  \/ \E t \in Topics :
       \/ \E m \in Messages : TopicNotify(t, m) \/ TopicDefer(t, m)
       \/ TopicClose(t)
       \/ \E s \in Subscribers, ms \in BoundedSeq(Messages, MaxKept) : TopicSubscribe(t, s, ms)

TopicSpec == TopicInit /\ [][TopicNext]_topicVars
=============================================================================
