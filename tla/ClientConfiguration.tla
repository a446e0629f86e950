------------------------- MODULE ClientConfiguration --------------------------
(***************************************************************************)
(* The sidebar tabs the applications set, from the stack of the            *)
(* configuration manager to the sidebar of a client.  An application sets  *)
(* one tab at a time; the stack is one entry per application, the latest   *)
(* first; what changes is notified, forwarded by a goroutine that reads a  *)
(* channel of one value (BufferLatest), and streamed to the client, which  *)
(* starts from a snapshot.  The title of a tab is left out: a tab that is  *)
(* published again is the same tab, set again.                             *)
(***************************************************************************)
EXTENDS DistinctSeqs, SequencesExt

CONSTANTS
  Applications,
  Tabs,        \* the identifiers setSidebarTab makes up, in that order
  Defaults,    \* the tabs of the site, from left to right
  Own,         \* a tab the user opens, next to the selected one, and closes
  BeforeTab,   \* the default tab each of Tabs goes to the left of, or NoTab
  NoTab,
  MaxPages,    \* bound on the pages published and unpublished
  MaxInFlight  \* bound on the messages on their way to the client

VARIABLES
  stack,   \* clientCollectionConfigurable.stack
  current, \* currentSidebarTab of the configuration module of each application
  script,  \* what the script of each application is in the middle of setting
  todo,    \* the notifications left to the script and to the page callbacks
  made,    \* how many of Tabs are used
  pages,   \* how many pages were published or unpublished
  latest,  \* the channel of the goroutine that forwards the configurable
  link,    \* ConsumeMedia of the client: "none", "subscribed" or "streaming"
  box,     \* the messages of the stream not yet received, lists of changes
  fresh,   \* no message of this stream was received yet
  tabs,    \* sidebarTabs, in the client
  mode,    \* sidebarMode, in the client
  missed,  \* history: changes overwritten in the channel before being read
  crossed  \* history: tabs a change of which was on its way when another, or
           \* the snapshot, went past it

serverVars == <<stack, current, script, todo, made, pages>>
forwardVars == <<latest, missed>>
clientVars == <<link, box, fresh, tabs, mode>>
configurationVars == <<serverVars, forwardVars, clientVars, crossed>>

TabIds == ToSet(Tabs)
Open(t) == [kind |-> "open", tab |-> t]
Close(t) == [kind |-> "close", tab |-> t]
Changes == [kind : {"open", "close"}, tab : TabIds]

Threads == Applications \X {"script", "pages"}
Idle == [busy |-> FALSE, tab |-> NoTab]

-----------------------------------------------------------------------------
\* The server: the stack and who changes it.

EntriesOf(a) == {e \in ToSet(stack) : e.app = a}
SetBy(a) == Without(stack, ToSet(stack) \ EntriesOf(a))
WithoutApp(a) == Without(stack, EntriesOf(a))
Replaced(a) == [i \in 1..Len(SetBy(a)) |-> Close(SetBy(a)[i].tab)]

TabsIn(seqs) == UNION {{s[i].tab : i \in 1..Len(s)} : s \in seqs}

\* A thread changes the entry of an application and will notify the changes
\* after it: those the other thread still has to notify may come later.
Changed(a, thread, changes) ==
  LET others == {todo[th] : th \in {<<a, "script">>, <<a, "pages">>} \ {thread}}
  IN  /\ todo' = [todo EXCEPT ![thread] = changes]
      /\ crossed' = crossed \union
           (IF TabsIn(others) = {} THEN {} ELSE TabsIn(others \union {changes}))

\* Set (KeyedStack.Push) and UndoApplicationChanges (KeyedStack.Remove).
Push(a, t, thread) ==
  /\ stack' = <<[app |-> a, tab |-> t]>> \o WithoutApp(a)
  /\ Changed(a, thread, Append(Replaced(a), Open(t)))

Undo(a, thread) ==
  /\ stack' = WithoutApp(a)
  /\ Changed(a, thread, Replaced(a))

\* setSidebarTab of a page, under an identifier made for it; and of undefined.
SetTab(a) ==
  /\ ~script[a].busy
  /\ made < Len(Tabs)
  /\ made' = made + 1
  /\ script' = [script EXCEPT ![a] = [busy |-> TRUE, tab |-> Tabs[made + 1]]]
  /\ Push(a, Tabs[made + 1], <<a, "script">>)
  /\ UNCHANGED <<current, pages, forwardVars, clientVars>>

UnsetTab(a) ==
  /\ ~script[a].busy
  /\ script' = [script EXCEPT ![a] = [busy |-> TRUE, tab |-> NoTab]]
  /\ Undo(a, <<a, "script">>)
  /\ UNCHANGED <<current, made, pages, forwardVars, clientVars>>

\* The script assigns currentSidebarTab last, under the lock that the callbacks
\* of the pages hold for as long as they run.
TabAssigned(a) ==
  /\ script[a].busy
  /\ todo[<<a, "script">>] = <<>> /\ todo[<<a, "pages">>] = <<>>
  /\ current' = [current EXCEPT ![a] = script[a].tab]
  /\ script' = [script EXCEPT ![a] = Idle]
  /\ UNCHANGED <<stack, todo, made, pages, forwardVars, clientVars, crossed>>

\* updatePageConfigurablesOnPagePublish, resetPageConfigurablesOnPageUnpublish.
PagePublished(a) ==
  /\ pages < MaxPages /\ pages' = pages + 1
  /\ todo[<<a, "pages">>] = <<>>
  /\ current[a] # NoTab
  /\ Push(a, current[a], <<a, "pages">>)
  /\ UNCHANGED <<current, script, made, forwardVars, clientVars>>

PageUnpublished(a) ==
  /\ pages < MaxPages /\ pages' = pages + 1
  /\ todo[<<a, "pages">>] = <<>>
  /\ current[a] # NoTab
  /\ Undo(a, <<a, "pages">>)
  /\ UNCHANGED <<current, script, made, forwardVars, clientVars>>

\* Mutant: the subscriber keeps everything it has not read yet.
Notify_KeepsAll(thread) ==
  /\ todo[thread] # <<>>
  /\ latest' = Append(latest, Head(todo[thread]))
  /\ todo' = [todo EXCEPT ![thread] = Tail(@)]
  /\ UNCHANGED <<stack, current, script, made, pages, missed, clientVars, crossed>>

\* event.Notify to a subscriber that keeps the latest: what it has not read yet
\* is replaced.
Notify(thread) ==
  /\ todo[thread] # <<>>
  /\ latest' = <<Head(todo[thread])>>
  /\ missed' = missed \union ToSet(latest)
  /\ todo' = [todo EXCEPT ![thread] = Tail(@)]
  /\ UNCHANGED <<stack, current, script, made, pages, clientVars, crossed>>

-----------------------------------------------------------------------------
\* On the way: the goroutine of New and the stream of ConsumeMedia.

\* A turn of the goroutine, from its channel to onConfigChange.Notify: the
\* subscription of the client keeps all that is notified to it.
Forward ==
  /\ latest # <<>>
  /\ Len(box) < MaxInFlight
  /\ box' = IF link = "none" THEN box ELSE Append(box, latest)
  /\ latest' = <<>>
  /\ UNCHANGED <<missed, serverVars, link, fresh, tabs, mode, crossed>>

Subscribe ==
  /\ link = "none"
  /\ link' = "subscribed" /\ fresh' = TRUE
  /\ UNCHANGED <<serverVars, forwardVars, box, tabs, mode, crossed>>

\* AllClientConfigurationChanges of the collection: every entry, the top first.
Snapshot == [i \in 1..Len(stack) |-> Open(stack[i].tab)]

UnderWay == {todo[th] : th \in Threads} \union {latest}

\* The first message of ConsumeMedia; what is still to be notified, or waits in
\* the subscription, is delivered on top of it.
SendSnapshot ==
  /\ link = "subscribed"
  /\ link' = "streaming"
  /\ box' = <<Snapshot>> \o box
  /\ crossed' = TabsIn(UnderWay \union ToSet(box))
  /\ missed' = IF TabsIn(UnderWay \union ToSet(box)) = {} THEN {} ELSE missed
  /\ UNCHANGED <<serverVars, latest, fresh, tabs, mode>>

\* The stream ends. The client keeps what it shows until it is connected again.
Disconnect ==
  /\ link # "none"
  /\ link' = "none" /\ box' = <<>>
  /\ UNCHANGED <<serverVars, forwardVars, fresh, tabs, mode, crossed>>

-----------------------------------------------------------------------------
\* The client: a sidebar is its tabs and the one selected.

\* The place of a tab, or 0.
IndexOf(ts, t) ==
  LET places == {i \in DOMAIN ts : ts[i] = t}
  IN  IF places = {} THEN 0 ELSE Min(places)

\* openSidebarTab, to the left of a tab or else at the end.
Opened(bar, t) ==
  LET at == IndexOf(bar.tabs, BeforeTab[t])
  IN  [bar EXCEPT !.tabs = IF at > 0 THEN InsertAt(@, at, t) ELSE Append(@, t)]

\* Mutant: the selection stays on the tab that goes.
Closed_KeepsMode(bar, t) ==
  LET at == IndexOf(bar.tabs, t)
  IN  IF at = 0 THEN bar ELSE [bar EXCEPT !.tabs = RemoveAt(@, at)]

\* closeSidebarTab: the first tab of that name goes, and the selection moves to
\* the tab on its left.
Closed(bar, t) ==
  LET at == IndexOf(bar.tabs, t)
      left == RemoveAt(bar.tabs, at)
  IN  IF at = 0 THEN bar
      ELSE [tabs |-> left,
            mode |-> IF bar.mode # t THEN bar.mode
                     ELSE left[IF at > 1 THEN at - 1 ELSE 1]]

\* resetConfigurationChanges (closeAllApplicationTabs): the selection moves to
\* the nearest tab on its left that stays, or else to the first that stays.
Cleared(bar) ==
  LET kept == Without(bar.tabs, TabIds)
      near == {i \in 1..IndexOf(bar.tabs, bar.mode) : bar.tabs[i] \notin TabIds}
  IN  [tabs |-> kept, mode |-> IF near # {} THEN bar.tabs[Max(near)] ELSE kept[1]]

\* processConfigurationChanges.
Processed(bar, changes) ==
  LET after[i \in 0..Len(changes)] ==
        IF i = 0 THEN bar
        ELSE IF changes[i].kind = "open" THEN Opened(after[i - 1], changes[i].tab)
                                         ELSE Closed(after[i - 1], changes[i].tab)
  IN  after[Len(changes)]

Sidebar == [tabs |-> tabs, mode |-> mode]
ShowSidebar(bar) == tabs' = bar.tabs /\ mode' = bar.mode

\* Mutant: the tabs of the previous stream stay.
Receive_NoReset ==
  /\ link = "streaming" /\ box # <<>>
  /\ ShowSidebar(Processed(Sidebar, Head(box)))
  /\ box' = Tail(box) /\ fresh' = FALSE
  /\ UNCHANGED <<serverVars, forwardVars, link, crossed>>

\* A message of the stream; the first one finds the client disconnected, which
\* drops the tabs of the previous stream.
Receive ==
  /\ link = "streaming" /\ box # <<>>
  /\ ShowSidebar(Processed(IF fresh THEN Cleared(Sidebar) ELSE Sidebar, Head(box)))
  /\ box' = Tail(box) /\ fresh' = FALSE
  /\ UNCHANGED <<serverVars, forwardVars, link, crossed>>

\* The user selects a tab; openAndSwitchToSidebarTab; closes the tab opened so.
SelectTab(t) ==
  /\ t \in ToSet(tabs) /\ t # mode
  /\ mode' = t
  /\ UNCHANGED <<serverVars, forwardVars, link, box, fresh, tabs, crossed>>

OpenOwn ==
  /\ ~Contains(tabs, Own)
  /\ tabs' = InsertAt(tabs, IndexOf(tabs, mode) + 1, Own)
  /\ mode' = Own
  /\ UNCHANGED <<serverVars, forwardVars, link, box, fresh, crossed>>

CloseOwn ==
  /\ Contains(tabs, Own)
  /\ ShowSidebar(Closed(Sidebar, Own))
  /\ UNCHANGED <<serverVars, forwardVars, link, box, fresh, crossed>>

-----------------------------------------------------------------------------
ConfigurationInit ==
  /\ stack = <<>>
  /\ current = [a \in Applications |-> NoTab]
  /\ script = [a \in Applications |-> Idle]
  /\ todo = [th \in Threads |-> <<>>]
  /\ made = 0 /\ pages = 0
  /\ latest = <<>> /\ missed = {}
  /\ link = "none" /\ box = <<>> /\ fresh = TRUE /\ crossed = {}
  /\ tabs = Defaults /\ mode \in ToSet(Defaults)

ConfigurationNext ==
  \/ \E a \in Applications :
       \/ SetTab(a) \/ UnsetTab(a) \/ TabAssigned(a)
       \/ PagePublished(a) \/ PageUnpublished(a)
  \/ \E th \in Threads : Notify(th)
  \/ Forward \/ Subscribe \/ SendSnapshot \/ Disconnect \/ Receive
  \/ \E t \in TabIds \union ToSet(Defaults) \union {Own} : SelectTab(t)
  \/ OpenOwn \/ CloseOwn

ConfigurationSpec == ConfigurationInit /\ [][ConfigurationNext]_configurationVars

-----------------------------------------------------------------------------
StackEntries == [app : Applications, tab : TabIds]

ConfigurationTypeOK ==
  /\ stack \in Seq(StackEntries)
  /\ current \in [Applications -> TabIds \union {NoTab}]
  /\ script \in [Applications -> [busy : BOOLEAN, tab : TabIds \union {NoTab}]]
  /\ todo \in [Threads -> Seq(Changes)]
  /\ made \in 0..Len(Tabs) /\ pages \in 0..MaxPages
  /\ latest \in Seq(Changes) /\ Len(latest) <= 1
  /\ link \in {"none", "subscribed", "streaming"}
  /\ box \in Seq(Seq(Changes)) /\ fresh \in BOOLEAN
  /\ tabs \in Seq(TabIds \union ToSet(Defaults) \union {Own})
  /\ mode \in TabIds \union ToSet(Defaults) \union {Own}
  /\ missed \subseteq Changes /\ crossed \subseteq TabIds

\* How many tabs of the sidebar, or entries of the stack, are this tab.
Shown(t) == Cardinality({i \in DOMAIN tabs : tabs[i] = t})
SetAs(t) == Cardinality({i \in DOMAIN stack : stack[i].tab = t})

CaughtUpClient ==
  /\ link = "streaming" /\ box = <<>>
  /\ latest = <<>>
  /\ \A th \in Threads : todo[th] = <<>>

(***************************************************************************)
(* A client that received everything that is on its way shows each tab     *)
(* that is set once, and no other, however often it connected, except for  *)
(* the tabs with a change that was overwritten in the one-value channel,   *)
(* and for those that changed while the stream was being set up            *)
(* (configuration.go, grpc_watch.go, configurationStores.ts).              *)
(***************************************************************************)
ShownUnlessMissed ==
  CaughtUpClient =>
    \A t \in TabIds \ crossed :
      {Open(t), Close(t)} \intersect missed = {} => Shown(t) = SetAs(t)

(***************************************************************************)
(* The selected tab is one of the tabs, whatever the server closes while   *)
(* the user selects, opens and closes tabs (tabStores.ts,                  *)
(* configurationStores.ts).  Otherwise the sidebar shows nothing.          *)
(***************************************************************************)
SelectedIsShown == Contains(tabs, mode)

(***************************************************************************)
(* "ClientConfigurationChanged returns the event that is fired when a new  *)
(* configuration change should be made available to clients": a client     *)
(* connected with nothing under way, which then receives every change,     *)
(* shows no tab that is not set any more.  The code breaks it: a tab is    *)
(* replaced with two notifications, and the second overwrites the first    *)
(* (configuration.go, configurable.go).                                    *)
(***************************************************************************)
RemovalsReachClients ==
  CaughtUpClient => \A t \in TabIds \ crossed : Shown(t) > 0 => SetAs(t) > 0
=============================================================================
