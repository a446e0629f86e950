------------------------------- MODULE RecoveryMC -------------------------------
(* What is rebuilt after it was lost: the queue of a process that starts    *)
(* again, and what a client that connects again shows of the chat and of    *)
(* the configuration.  Each behaviour is about one of the three, as they    *)
(* share no variable; the others stay as they start.  Of those about the    *)
(* chat, one kind has every message and no change of the switch, and the    *)
(* hidden one is not deleted; the other has one message and the switch.     *)
EXTENDS MediaQueueRestartMC

CONSTANTS
  Callers, Messages, Shadowbanned, InitialHistorySize, MessageHistorySize, MaxInFlight,
  Applications, Tabs, Defaults, Own, BeforeTab, NoTab, MaxPages, MaxChangesInFlight,
  tab1, tab2, siteTab

VARIABLES
  row, announced, withdrawn, enabled, caller, consumer, onCreated, onDeleted, onEnabled,
  onDisabled, updates, connected, shown, seen, chatEnabled, due, missed, muddled,
  stack, current, script, todo, made, pages, latest, link, box, fresh,
  tabs, mode, overwritten, crossed,
  about \* what this behaviour is about

ASSUME ChatAssumption ==
  /\ Messages \subseteq Nat /\ IsFiniteSet(Messages)
  /\ {InitialHistorySize, MessageHistorySize} \subseteq Nat /\ MaxInFlight \in Nat \ {0}

\* The identifiers that are made up are fresh.
ASSUME ConfigurationAssumption ==
  /\ Tabs \in Seq(ToSet(Tabs)) /\ Distinct(Tabs)
  /\ Defaults \in Seq(ToSet(Defaults)) /\ Distinct(Defaults) /\ Defaults # <<>>
  /\ ToSet(Tabs) \cap ToSet(Defaults) = {}
  /\ Own \notin ToSet(Tabs) \cup ToSet(Defaults)
  /\ NoTab \notin ToSet(Tabs) \cup ToSet(Defaults) \cup {Own}
  /\ BeforeTab \in [ToSet(Tabs) -> ToSet(Defaults) \cup {NoTab}]
  /\ {MaxPages, MaxChangesInFlight} \subseteq Nat

\* The first tab of an application goes next to a tab of the site, the other last.
MCTabs == <<tab1, tab2>>
MCDefaults == <<siteTab>>
MCBeforeTab == tab1 :> siteTab @@ tab2 :> NoTab

Chat == INSTANCE Chat
Configuration == INSTANCE ClientConfiguration WITH
  missed <- overwritten, MaxInFlight <- MaxChangesInFlight

chatVars ==
  <<row, announced, withdrawn, enabled, caller, consumer, onCreated, onDeleted, onEnabled,
    onDisabled, updates, connected, shown, seen, chatEnabled, due, missed, muddled>>
configurationVars ==
  <<stack, current, script, todo, made, pages, latest, link, box, fresh,
    tabs, mode, overwritten, crossed>>

MCInit ==
  /\ RestartInit /\ Chat!ChatInit /\ Configuration!ConfigurationInit
  /\ about \in {"queue", "messages", "switch", "configuration"}
MCNext ==
  /\ UNCHANGED about
  /\ \/ about = "queue" /\ RestartNext /\ UNCHANGED <<chatVars, configurationVars>>
     \/ /\ about = "messages"
        /\ UNCHANGED <<enabled, caller>> /\ Chat!ChatNext
        /\ \A m \in Shadowbanned : row'[m] # "deleted"
        /\ UNCHANGED <<restartVars, configurationVars>>
     \/ /\ about = "switch"
        /\ Chat!ChatNext /\ \A m \in Messages \ {2} : row'[m] = "none"
        /\ UNCHANGED <<restartVars, configurationVars>>
     \/ /\ about = "configuration"
        /\ Configuration!ConfigurationNext
        /\ UNCHANGED <<restartVars, chatVars>>
MCSpec == MCInit /\ [][MCNext]_<<restartVars, chatVars, configurationVars, about>>

(* The type invariants of the two parts of the client.                      *)
ViewsTypeOK == Chat!ChatTypeOK /\ Configuration!ConfigurationTypeOK

(* The properties of Chat and of ClientConfiguration of that name           *)
(* (Chat.svelte and grpc_chat.go; configuration.go, configurationStores.ts  *)
(* and tabStores.ts).                                                       *)
ShownOnce == Chat!ShownOnce
ShowsTheChat == Chat!ShowsTheChat
ShownUnlessMissed == Configuration!ShownUnlessMissed
SelectedIsShown == Configuration!SelectedIsShown
=============================================================================
