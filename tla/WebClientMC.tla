------------------------------ MODULE WebClientMC ------------------------------
(* The parts of the web client that wait for something: a component for its *)
(* stream and its calls, the script of a page for the page, and whoever     *)
(* opened a dialog for its result.  Each behaviour is about one of the      *)
(* three, as they share no variable; the others stay as they start, where   *)
(* none of the actions that are fair is enabled.                            *)
EXTENDS ApiClient, TLC

CONSTANTS
  c1, s1, s2, s3, s4, s5, s6,
  Loads, PageStreams, PageOwner, MaxPosted,
  Dialogs, Closers, Nothing

\* The loads are numbered from 1.
ASSUME PageAssumption ==
  /\ PageOwner \in [PageStreams -> Loads] /\ NoStream \notin PageStreams
  /\ Loads \subseteq Nat \ {0}

VARIABLES
  pagePhase, pageStream, pageRequest, pageConnected, pageKeepalive,
  pageReconnection, pageStray, pageOvertaken,
  load, handler, connection, controller, had, posted, peer, ready, resolved,
  pageCall, gone,
  deferredModalOpeningQueue, modalCurrentlyActuallyClosed, currentModal, timer,
  window, leaving, result, closer, resolver,
  about \* whom this behaviour is about

P == INSTANCE ApplicationPage WITH
  Controllers <- Loads, Streams <- PageStreams, Owner <- PageOwner,
  phase <- pagePhase, stream <- pageStream, request <- pageRequest,
  connected <- pageConnected, keepalive <- pageKeepalive,
  reconnection <- pageReconnection, stray <- pageStray,
  overtaken <- pageOvertaken, call <- pageCall
D == INSTANCE Modals

pageVars ==
  <<pagePhase, pageStream, pageRequest, pageConnected, pageKeepalive,
    pageReconnection, pageStray, pageOvertaken,
    load, handler, connection, controller, had, posted, peer, ready, resolved,
    pageCall, gone>>
dialogVars ==
  <<deferredModalOpeningQueue, modalCurrentlyActuallyClosed, currentModal, timer,
    window, leaving, result, closer, resolver>>
allVars == <<vars, pageVars, dialogVars, about>>

MCOwner == s1 :> c1 @@ s2 :> c1
MCPageOwner == s3 :> 1 @@ s4 :> 1 @@ s5 :> 2 @@ s6 :> 2

MCInit ==
  /\ Init /\ P!Init /\ D!ModalsInit
  /\ about \in {"calls", "page", "dialogs"}
MCNext ==
  /\ UNCHANGED about
  /\ \/ about = "calls" /\ Next /\ UNCHANGED <<pageVars, dialogVars>>
     \/ about = "page" /\ P!Next /\ UNCHANGED <<vars, dialogVars>>
     \/ about = "dialogs" /\ D!ModalsNext /\ UNCHANGED <<vars, pageVars>>
MCFairSpec ==
  /\ MCInit /\ [][MCNext]_allVars
  /\ Fairness /\ P!Fairness /\ D!ModalsFairness

(* The type invariants of the three parts.                                  *)
WebClientTypeOK == ClientTypeOK /\ P!PageTypeOK /\ D!ModalsTypeOK

(* The properties of ApplicationPage and of Modals of that name             *)
(* (ApplicationPage.svelte and main.ts, modal.ts).                          *)
ChildIsTold == P!ChildIsTold
CallsProceed == P!CallsProceed
ResultsSettle == D!ResultsSettle
=============================================================================
