-------------------------------- MODULE Chat --------------------------------
(***************************************************************************)
(* What a viewer sees of the chat (app/src/Chat.svelte), from the messages *)
(* that are stored and deleted (server/components/chatmanager) through the *)
(* stream of ConsumeChat (server/grpc_chat.go), which is lost and opened   *)
(* again by a controller of StreamRPC.                                     *)
(*                                                                         *)
(* Messages are numbered by their time of creation.  A stream subscribes   *)
(* to each event with a channel for one notification that drops the others *)
(* (BufferFirst), loads the latest messages and then takes from any of the *)
(* channels.  The client keeps what it shows across streams.               *)
(***************************************************************************)
EXTENDS DistinctSeqs, FiniteSets, Functions

CONSTANTS
  Callers,            \* of EnableChat and DisableChat: two moderators, an application
  Messages,           \* by time of creation: 1..n
  Shadowbanned,       \* those of users that this viewer must not see
  InitialHistorySize, \* messages loaded by a stream
  MessageHistorySize, \* messages kept by the client
  MaxInFlight         \* bound on the updates on their way to the client

VARIABLES
  row,        \* chat_message: the row of each message is none, stored or deleted
  announced,  \* messages whose creation was notified
  withdrawn,  \* messages whose deletion was notified
  enabled,    \* enabled of the manager
  caller,     \* how far each call of EnableChat or DisableChat has come
  consumer,   \* the handler of the stream: off, the event it subscribed to last,
              \* subscribed to all, what Enabled() told it, or live
  onCreated, onDeleted,   \* its channels, one message at most
  onEnabled, onDisabled,  \* its channels: whether they hold a notification
  updates,    \* updates in flight, each a sequence of events
  connected,  \* the client received from this stream
  shown,      \* chatMessages
  seen,       \* seenMessageIDs
  chatEnabled,\* chatEnabled
  due,        \* history: messages the stream was notified of, less those pushed out
  missed,     \* history: messages whose deletion does not reach what is shown
  muddled     \* history: the order of the last notifications of the switch is lost

messageVars == <<row, announced, withdrawn>>
switchVars  == <<enabled, caller>>
serverVars  == <<messageVars, switchVars>>
channelVars == <<onCreated, onDeleted, onEnabled, onDisabled>>
clientVars  == <<connected, shown, seen, chatEnabled>>
historyVars == <<due, missed, muddled>>
chatVars == <<serverVars, consumer, channelVars, updates, clientVars, historyVars>>

Created(m) == [what |-> "created", id |-> m]
Deleted(m) == [what |-> "deleted", id |-> m]
Event(what) == [what |-> what, id |-> 0]

\* The events that the stream is subscribed to.
HearsDisabled == consumer # "off"
HearsEnabled  == HearsDisabled /\ consumer # "disabled"
HearsCreated  == HearsEnabled /\ consumer # "enabled"
HearsDeleted  == HearsCreated /\ consumer # "created"

\* A call of EnableChat or DisableChat, to set the switch to on.
Idle == [at |-> "idle", on |-> FALSE]
Call(at, on) == [at |-> at, on |-> on]

-----------------------------------------------------------------------------
(* chatmanager                                                             *)

\* CreateMessage and CreateSystemMessage: the row first.
Store(m) ==
  /\ row[m] = "none"
  /\ row' = [row EXCEPT ![m] = "stored"]
  /\ UNCHANGED <<announced, withdrawn, switchVars, consumer, channelVars, updates, clientVars, historyVars>>

\* ... and then messageCreated.Notify.
Announce(m) ==
  /\ row[m] # "none" /\ m \notin announced
  /\ announced' = announced \cup {m}
  /\ IF HearsCreated /\ onCreated = {}
       THEN onCreated' = {m} /\ due' = due \cup ({m} \ Shadowbanned)
       ELSE UNCHANGED <<onCreated, due>>
  /\ UNCHANGED <<row, withdrawn, switchVars, consumer, onDeleted, onEnabled, onDisabled,
                 updates, clientVars, missed, muddled>>

\* DeleteMessage: the transaction of the store.
Delete(m) ==
  /\ row[m] = "stored"
  /\ row' = [row EXCEPT ![m] = "deleted"]
  /\ UNCHANGED <<announced, withdrawn, switchVars, consumer, channelVars, updates, clientVars, historyVars>>

\* ... and then messageDeleted.Notify.
Withdraw(m) ==
  /\ row[m] = "deleted" /\ m \notin withdrawn
  /\ withdrawn' = withdrawn \cup {m}
  /\ IF HearsDeleted /\ onDeleted = {}
       THEN onDeleted' = {m} /\ UNCHANGED missed
       ELSE missed' = missed \cup {m} /\ UNCHANGED onDeleted
  /\ UNCHANGED <<row, announced, switchVars, consumer, onCreated, onEnabled, onDisabled,
                 updates, clientVars, due, muddled>>

\* EnableChat and DisableChat, with no mutex: the check,
CheckSwitch(c) ==
  /\ caller[c] = Idle
  /\ caller' = [caller EXCEPT ![c] = Call("checked", ~enabled)]
  /\ UNCHANGED <<messageVars, enabled, consumer, channelVars, updates, clientVars, historyVars>>

\* ... the write,
WriteSwitch(c) ==
  /\ caller[c].at = "checked"
  /\ enabled' = caller[c].on
  /\ caller' = [caller EXCEPT ![c].at = "written"]
  /\ UNCHANGED <<messageVars, consumer, channelVars, updates, clientVars, historyVars>>

\* Callers other than c that have yet to notify what the switch says.
ToNotify(c) == {d \in Callers \ {c} : caller[d] = Call("written", enabled)}

\* ... and the notification.
NotifySwitch(c) ==
  /\ caller[c].at = "written"
  /\ IF caller[c].on
       THEN /\ onEnabled' = (onEnabled \/ HearsEnabled)
            /\ UNCHANGED onDisabled
       ELSE /\ onDisabled' = (onDisabled \/ HearsDisabled)
            /\ UNCHANGED onEnabled
  /\ muddled' = /\ HearsDisabled
                /\ \/ IF caller[c].on THEN onDisabled ELSE onEnabled
                   \/ caller[c].on # enabled /\ ToNotify(c) = {}
  /\ caller' = [caller EXCEPT ![c] = Idle]
  /\ UNCHANGED <<messageVars, enabled, consumer, onCreated, onDeleted, updates, clientVars,
                 due, missed>>

-----------------------------------------------------------------------------
(* ConsumeChat                                                             *)

\* One event after the other.
Subscribe ==
  /\ \E step \in { <<"off", "disabled">>, <<"disabled", "enabled">>,
                   <<"enabled", "created">>, <<"created", "subscribed">> } :
       consumer = step[1] /\ consumer' = step[2]
  /\ UNCHANGED <<serverVars, channelVars, updates, clientVars, historyVars>>

\* Enabled()
ReadSwitch ==
  /\ consumer = "subscribed"
  /\ consumer' = IF enabled THEN "told on" ELSE "told off"
  /\ UNCHANGED <<serverVars, channelVars, updates, clientVars, historyVars>>

\* LoadNumLatestMessages
Latest ==
  LET visible == {m \in Messages : row[m] = "stored" /\ m \notin Shadowbanned}
      latest  == {m \in visible : Cardinality({n \in visible : n > m}) < InitialHistorySize}
  IN [k \in 1..Cardinality(latest) |->
        CHOOSE m \in latest : Cardinality({n \in latest : n > m}) = k - 1]

\* The first update has the messages, or that chat is disabled.
SendInitial ==
  /\ consumer \in {"told on", "told off"}
  /\ consumer' = "live"
  /\ updates' = << IF consumer = "told on" THEN [i \in DOMAIN Latest |-> Created(Latest[i])]
                                            ELSE <<Event("disabled")>> >>
  /\ UNCHANGED <<serverVars, channelVars, clientVars, historyVars>>

Send(event) ==
  /\ consumer = "live" /\ Len(updates) < MaxInFlight
  /\ updates' = Append(updates, <<event>>)

\* The select, which takes any of the channels that has something: the deletion
\* of a message may overtake its creation.
SendCreated ==
  /\ \E m \in onCreated :
       IF m \in Shadowbanned THEN consumer = "live" /\ UNCHANGED updates ELSE Send(Created(m))
  /\ onCreated' = {}
  /\ UNCHANGED <<serverVars, consumer, onDeleted, onEnabled, onDisabled, clientVars, historyVars>>

SendDeleted ==
  /\ \E m \in onDeleted : Send(Deleted(m))
  /\ onDeleted' = {}
  /\ missed' = missed \cup {m \in onDeleted : m \in onCreated \/ m \notin announced}
  /\ UNCHANGED <<serverVars, consumer, onCreated, onEnabled, onDisabled, clientVars, due, muddled>>

SendEnabled ==
  /\ onEnabled /\ Send(Event("enabled"))
  /\ onEnabled' = FALSE
  /\ UNCHANGED <<serverVars, consumer, onCreated, onDeleted, onDisabled, clientVars, historyVars>>

SendDisabled ==
  /\ onDisabled /\ Send(Event("disabled"))
  /\ onDisabled' = FALSE
  /\ UNCHANGED <<serverVars, consumer, onCreated, onDeleted, onEnabled, clientVars, historyVars>>

\* The stream ends, with what was on its way.
Lose ==
  /\ consumer # "off"
  /\ consumer' = "off"
  /\ onCreated' = {} /\ onDeleted' = {} /\ onEnabled' = FALSE /\ onDisabled' = FALSE
  /\ updates' = <<>>
  /\ connected' = FALSE
  /\ due' = {} /\ muddled' = FALSE
  /\ missed' = missed \cup onDeleted
                \cup {m \in Messages : \E u \in Range(updates) : Deleted(m) \in Range(u)}
  /\ UNCHANGED <<serverVars, shown, seen, chatEnabled>>

-----------------------------------------------------------------------------
(* The client                                                              *)

\* What the client keeps, as one value that events are applied to.
State == [shown |-> shown, seen |-> seen, on |-> chatEnabled \/ ~connected]

\* Mutant: a deleted message is forgotten by the set only.
Applied_KeepsDeleted(s, e) ==
  CASE e.what = "created" /\ e.id \notin s.seen ->
         [s EXCEPT !.shown = Append(@, e.id), !.seen = @ \cup {e.id}]
    [] e.what = "deleted"  -> [s EXCEPT !.seen = @ \ {e.id}]
    [] e.what = "enabled"  -> [s EXCEPT !.on = TRUE]
    [] e.what = "disabled" -> [s EXCEPT !.on = FALSE]
    [] OTHER               -> s

\* Mutant: a message that is shown is shown again.
Applied_Repeats(s, e) ==
  CASE e.what = "created" ->
         [s EXCEPT !.shown = Append(@, e.id), !.seen = @ \cup {e.id}]
    [] e.what = "deleted" ->
         [s EXCEPT !.shown = Without(@, {e.id}), !.seen = @ \ {e.id}]
    [] e.what = "enabled"  -> [s EXCEPT !.on = TRUE]
    [] e.what = "disabled" -> [s EXCEPT !.on = FALSE]

\* handleChatEvent
Applied(s, e) ==
  CASE e.what = "created" /\ e.id \notin s.seen ->
         [s EXCEPT !.shown = Append(@, e.id), !.seen = @ \cup {e.id}]
    [] e.what = "deleted" ->
         [s EXCEPT !.shown = Without(@, {e.id}), !.seen = @ \ {e.id}]
    [] e.what = "enabled"  -> [s EXCEPT !.on = TRUE]
    [] e.what = "disabled" -> [s EXCEPT !.on = FALSE]
    [] OTHER               -> s

\* handleChatUpdated, one event of the update after the other.
Processed(s, events) ==
  LET after[i \in 0..Len(events)] ==
        IF i = 0 THEN s ELSE Applied(after[i - 1], events[i])
  IN  after[Len(events)]

\* By the time of creation, and messages of one time in the order they are in.
Sorted(messages) ==
  LET before(i) == {j \in DOMAIN messages :
                      messages[j] < messages[i] \/ (messages[j] = messages[i] /\ j < i)}
  IN  [k \in DOMAIN messages |->
         messages[CHOOSE i \in DOMAIN messages : Cardinality(before(i)) = k - 1]]

\* The latest messages that the client keeps, by their time.
Kept(messages) ==
  LET sorted == Sorted(messages)
      excess == IF Len(sorted) > MessageHistorySize THEN Len(sorted) - MessageHistorySize ELSE 0
  IN SubSeq(sorted, excess + 1, Len(sorted))

\* The identifiers of the messages that are not kept.
Forgotten(messages) == Range(messages) \ Range(Kept(messages))

\* handleChatUpdated
Receive ==
  /\ updates # <<>>
  /\ updates' = Tail(updates)
  /\ LET new == Processed(State, Head(updates)) IN
       /\ shown' = Kept(new.shown)
       /\ seen' = new.seen \ Forgotten(new.shown)
       /\ chatEnabled' = new.on
       /\ due' = due \ Forgotten(new.shown)
  /\ connected' = TRUE
  /\ UNCHANGED <<serverVars, consumer, channelVars, missed, muddled>>

-----------------------------------------------------------------------------

ChatInit ==
  /\ row = [m \in Messages |-> "none"] /\ announced = {} /\ withdrawn = {}
  /\ enabled = TRUE /\ caller = [c \in Callers |-> Idle]
  /\ consumer = "off"
  /\ onCreated = {} /\ onDeleted = {} /\ onEnabled = FALSE /\ onDisabled = FALSE
  /\ updates = <<>> /\ connected = FALSE
  /\ shown = <<>> /\ seen = {} /\ chatEnabled = TRUE
  /\ due = {} /\ missed = {} /\ muddled = FALSE

ChatNext ==
  \/ \E m \in Messages : Store(m) \/ Announce(m) \/ Delete(m) \/ Withdraw(m)
  \/ \E c \in Callers : CheckSwitch(c) \/ WriteSwitch(c) \/ NotifySwitch(c)
  \/ Subscribe \/ ReadSwitch \/ SendInitial \/ SendCreated \/ SendDeleted \/ SendEnabled \/ SendDisabled
  \/ Lose \/ Receive

ChatSpec == ChatInit /\ [][ChatNext]_chatVars

-----------------------------------------------------------------------------
(* Properties                                                              *)

ChatTypeOK ==
  /\ row \in [Messages -> {"none", "stored", "deleted"}]
  /\ announced \subseteq Messages /\ withdrawn \subseteq Messages
  /\ caller \in [Callers -> [at : {"idle", "checked", "written"}, on : BOOLEAN]]
  /\ consumer \in {"off", "disabled", "enabled", "created", "subscribed", "told on",
                   "told off", "live"}
  /\ onCreated \in SUBSET Messages /\ onDeleted \in SUBSET Messages
  /\ {enabled, onEnabled, onDisabled, connected, chatEnabled, muddled} \subseteq BOOLEAN
  /\ Len(updates) <= MaxInFlight
  /\ shown \in Seq(Messages) /\ seen \subseteq Messages
  /\ due \subseteq Messages /\ missed \subseteq Messages

\* What is shown is in order, no message twice, no more than the client keeps,
\* and what seenMessageIDs has is what is shown: a message that left the list
\* may be shown again, one that is in it may not (handleChatUpdated).
ShownOnce ==
  /\ \A i, j \in DOMAIN shown : i < j => shown[i] < shown[j]
  /\ Len(shown) <= MessageHistorySize
  /\ seen = Range(shown)

\* Nothing is on its way from the stored messages to the client.
CaughtUp ==
  /\ consumer = "live" /\ connected /\ updates = <<>>
  /\ onCreated = {} /\ onDeleted = {} /\ ~onEnabled /\ ~onDisabled
  /\ \A m \in Messages : row[m] = "deleted" => m \in withdrawn

\* A client that has caught up shows no message it should not: of those that
\* were deleted only the ones whose deletion was dropped, lost with a stream or
\* overtook the creation; none of a shadowbanned user.  It shows every message
\* the stream had a notification of, unless later ones have pushed it out.
\* Once no call is between its write and its notification it says whether chat
\* is enabled, unless the last notification of the switch found the opposite one
\* in its channel (handleChatEvent, the select of ConsumeChat), or came after
\* another call had set the switch again and told so (disable.go has no mutex).
ShowsTheChat == CaughtUp =>
  /\ \A m \in Range(shown) : m \notin Shadowbanned /\ (row[m] = "deleted" => m \in missed)
  /\ \A m \in due : m \in Range(shown) \/ row[m] = "deleted"
  /\ ~muddled /\ (\A c \in Callers : caller[c].at # "written") => chatEnabled = enabled
=============================================================================
