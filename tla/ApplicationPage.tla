--------------------------- MODULE ApplicationPage ---------------------------
(***************************************************************************)
(* A page of an application (app/src/ApplicationPage.svelte) and the       *)
(* script in its iframe that talks to it (app/appbridge/main.ts).  Each    *)
(* load of the iframe makes another child, which the page shakes hands     *)
(* with and then gives a controller of StreamRPC to consume the events of  *)
(* the application; the page tells the child when the stream of that       *)
(* controller comes and goes, and the calls of the child to the server     *)
(* wait until it has been told that it is there.                           *)
(*                                                                         *)
(* The Controllers are the loads, 1..n.  Everything the page keeps outside *)
(* the controllers (connection, had) is shared by all of them.             *)
(***************************************************************************)
EXTENDS StreamRPC, Sequences

CONSTANTS MaxPosted  \* bound on the messages on their way to the child

VARIABLES
  load,        \* the load of the iframe, 0 before the first
  handler,     \* where onIframeLoaded of each load is
  connection,  \* the load whose handshake made connection, 0 before any
  controller,  \* the load that made eventsRequestController, 0 if undefined
  had,         \* hadConnectedPreviously
  posted,      \* messages to the iframe: what, and on which connection
  peer,        \* the load whose handshake the child answered, 0 before
  ready,       \* the child listens and has emitted handshook
  resolved,    \* its current serverConnectionPromise is resolved
  call,        \* a call of the child: none, waiting, or stranded on a lost promise
  gone         \* the component is destroyed, or its page unpublished

childVars == <<peer, ready, resolved, call>>
pageVars == <<load, handler, connection, controller, had, posted, gone>>
vars == <<streamVars, pageVars, childVars>>

-----------------------------------------------------------------------------
(* The page                                                                *)

Room == Len(posted) < MaxPosted

\* Mutant: the child hears of every change, even if it was told.
StatusChanged_Always(up) ==
  /\ Room
  /\ had' = up
  /\ posted' = Append(posted, [to |-> connection, up |-> up])

\* handleApplicationEventRequestStatusChanged
StatusChanged(up) ==
  /\ up # had => Room
  /\ had' = up
  /\ posted' = IF up = had THEN posted
               ELSE Append(posted, [to |-> connection, up |-> up])

\* disconnect reports the status it changes.
StatusDropped(k) ==
  IF connected[k] THEN StatusChanged(FALSE) ELSE UNCHANGED <<had, posted>>

NewChild == peer' = 0 /\ ready' = FALSE /\ resolved' = FALSE /\ call' = "none"

\* Mutant: the new child inherits what the old one was told.
Reset_Forgotten == had' = had /\ posted' = posted

\* The page forgets what it told the child that was there.
Reset ==
  /\ had' = FALSE
  /\ posted' = IF connected[controller] /\ had
               THEN Append(posted, [to |-> connection, up |-> FALSE]) ELSE posted

\* onIframeLoaded, until it awaits the handshake.
IframeLoaded ==
  /\ ~gone /\ load + 1 \in Controllers /\ Room
  /\ load' = load + 1
  /\ handler' = [handler EXCEPT ![load + 1] = "handshaking"]
  /\ IF controller # 0
       THEN Stop(controller) /\ Reset
       ELSE UNCHANGED <<streamVars, had, posted>>
  /\ controller' = 0
  /\ NewChild
  /\ UNCHANGED <<connection, gone>>

\* ParentHandshake of load k is answered by the child of the moment.
Handshake(k) ==
  /\ ~gone /\ handler[k] = "handshaking" /\ peer = 0
  /\ handler' = [handler EXCEPT ![k] = "waiting"]
  /\ connection' = k
  /\ peer' = k
  /\ UNCHANGED <<streamVars, load, controller, had, posted, gone, ready, resolved, call>>

\* Handshook comes: the rest of onIframeLoaded.
Handshook(k) ==
  /\ ~gone /\ handler[k] = "waiting" /\ peer = k /\ ready
  /\ handler' = [handler EXCEPT ![k] = "consuming"]
  /\ controller' = k
  /\ Rebuild(k)
  /\ StatusDropped(k)
  /\ UNCHANGED <<load, connection, gone, childVars>>

\* onDestroy, and the end of a page that is unpublished.
Leave ==
  /\ ~gone /\ load > 0
  /\ gone' = TRUE
  /\ IF controller # 0
       THEN Stop(controller) /\ StatusDropped(controller)
       ELSE UNCHANGED <<streamVars, had, posted>>
  /\ NewChild
  /\ UNCHANGED <<load, handler, connection, controller>>

-----------------------------------------------------------------------------
(* The streams of the controllers                                          *)

StreamRequested(k) ==
  /\ KeepaliveFires(k) \/ ReconnectionFires(k) \/ StrayFires(k)
  /\ StatusDropped(k)
  /\ UNCHANGED <<load, handler, connection, controller, gone, childVars>>

StreamBuilt(s) == Built(s) /\ UNCHANGED <<pageVars, childVars>>

StreamUpdated(s) ==
  /\ HandleUpdate(s)
  /\ IF connected[Owner[s]] THEN UNCHANGED <<had, posted>> ELSE StatusChanged(TRUE)
  /\ UNCHANGED <<load, handler, connection, controller, gone, childVars>>

StreamClosed(s) ==
  /\ HandleClose(s)
  /\ StatusChanged(FALSE)
  /\ UNCHANGED <<load, handler, connection, controller, gone, childVars>>

-----------------------------------------------------------------------------
(* The child                                                               *)

\* The child has asked what it wants to know, listens and emits handshook.
ChildReady ==
  /\ peer # 0 /\ ~ready
  /\ ready' = TRUE
  /\ UNCHANGED <<streamVars, pageVars, peer, resolved, call>>

\* Mutant: the promise of the first connection stays.
Hears_KeepsPromise(up) ==
  /\ resolved' = (resolved \/ up)
  /\ call' = IF up THEN "none" ELSE call

\* The listeners of connected and disconnected.  The second replaces the
\* promise, and with it what the calls to come wait for.
Hears(up) ==
  /\ resolved' = up
  /\ call' = CASE up /\ call = "waiting"  -> "none"
               [] ~up /\ call = "waiting" -> "stranded"
               [] OTHER                   -> call

\* A message comes: to the child, if it has the connection and listens.
Delivered ==
  /\ posted # <<>>
  /\ posted' = Tail(posted)
  /\ IF Head(posted).to = peer /\ ready THEN Hears(Head(posted).up)
                                        ELSE UNCHANGED <<resolved, call>>
  /\ UNCHANGED <<streamVars, load, handler, connection, controller, had, gone, peer, ready>>

\* serverMethod and emitToServer, which wait unless the promise is resolved.
Calls ==
  /\ ready /\ ~resolved /\ call = "none"
  /\ call' = "waiting"
  /\ UNCHANGED <<streamVars, pageVars, peer, ready, resolved>>

-----------------------------------------------------------------------------

Init ==
  /\ StreamInit
  /\ load = 0 /\ handler = [k \in Controllers |-> "none"]
  /\ connection = 0 /\ controller = 0 /\ had = FALSE /\ posted = <<>>
  /\ peer = 0 /\ ready = FALSE /\ resolved = FALSE /\ call = "none"
  /\ gone = FALSE

Next ==
  \/ IframeLoaded \/ Leave
  \/ \E k \in Controllers : Handshake(k) \/ Handshook(k) \/ StreamRequested(k)
  \/ \E s \in Streams : StreamBuilt(s) \/ StreamUpdated(s) \/ StreamClosed(s)
  \/ ChildReady \/ Delivered \/ Calls

\* As in ApiClient for the streams; messages are delivered, and a handshake
\* that the child answers ends.
Fairness ==
  /\ WF_vars(\E k \in Controllers : Handshake(k) \/ Handshook(k))
  /\ \A k \in Controllers :
       /\ WF_vars(StreamRequested(k))
       /\ WF_vars(\E s \in Streams : Owner[s] = k /\ StreamBuilt(s))
       /\ SF_vars(\E s \in Streams : Owner[s] = k /\ StreamUpdated(s))
  /\ WF_vars(ChildReady) /\ WF_vars(Delivered)

Spec == Init /\ [][Next]_vars
FairSpec == Spec /\ Fairness

-----------------------------------------------------------------------------
(* Properties                                                              *)

PageTypeOK ==
  /\ StreamTypeOK
  /\ {load, connection, controller, peer} \subseteq Controllers \cup {0}
  /\ handler \in [Controllers -> {"none", "handshaking", "waiting", "consuming"}]
  /\ had \in BOOLEAN /\ ready \in BOOLEAN /\ resolved \in BOOLEAN /\ gone \in BOOLEAN
  /\ posted \in Seq([to : Controllers \cup {0}, up : BOOLEAN])
  /\ call \in {"none", "waiting", "stranded"}

\* Unless a load overtook the request of an earlier one, a child knows whether
\* the stream of its controller is there, once what was posted is delivered:
\* connected and disconnected alternate for each child (hadConnectedPreviously)
\* and no call waits for a promise that was replaced (serverConnectionPromise).
ChildIsTold ==
  (\A k \in Controllers : ~overtaken[k]) =>
    /\ call # "stranded"
    /\ \A k \in Controllers :
         (peer = k /\ handler[k] = "consuming" /\ posted = <<>>) => resolved = connected[k]

\* Unless a load overtook the request of an earlier one, a call of the child
\* does not wait for ever: it is sent, or its page goes away.
CallsProceed ==
  []<>(call = "none" \/ \E k \in Controllers : overtaken[k])
=============================================================================
