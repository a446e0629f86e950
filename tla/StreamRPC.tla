------------------------------ MODULE StreamRPC ------------------------------
(***************************************************************************)
(* The controllers of the streaming calls of the web client                *)
(* (app/src/rpcUtils.ts, consumeStreamRPC): each keeps one stream of the   *)
(* server open while its component is mounted.  A stream is requested      *)
(* asynchronously (building), then open; a keepalive timer, armed by every *)
(* update, and a reconnection timer, armed by the end of the stream, make  *)
(* the next request.  Time is abstract: an armed timer may fire any time.  *)
(*                                                                         *)
(* Nothing tells the request being awaited that it was overtaken by a      *)
(* disconnection or by another request; overtaken records that it was.     *)
(***************************************************************************)
EXTENDS Naturals

CONSTANTS
  Controllers,  \* results of consumeStreamRPC
  Streams,      \* identities of requests, reused once idle: bounds those in flight
  Owner,        \* the controller of each
  NoStream,     \* undefined
  MaxStray      \* bound on the timers whose handle was lost

ASSUME StreamAssumption ==
  /\ Owner \in [Streams -> Controllers]
  /\ NoStream \notin Streams
  /\ MaxStray \in Nat

VARIABLES
  phase,        \* what the component last asked of the controller
  stream,       \* each request: idle, building (awaited) or open
  request,      \* request
  connected,    \* connected
  keepalive,    \* the timer of keepaliveTimeoutHandle is armed
  reconnection, \* the timer of reconnectionTimeoutHandle is armed
  stray,        \* armed reconnection timers whose handle was overwritten
  overtaken     \* history: the controller moved on while a request was awaited

timers == <<keepalive, reconnection, stray>>
streamVars == <<phase, stream, request, connected, timers, overtaken>>

Phases == {"new", "running", "stopped"}

Building(c) == {s \in Streams : Owner[s] = c /\ stream[s] = "building"}
Open(c)     == {s \in Streams : Owner[s] = c /\ stream[s] = "open"}

-----------------------------------------------------------------------------
(* consumeStreamRPC                                                        *)

\* Mutant: the stream in use is left open.
Closed_NotClosed(c) == stream

\* The streams once the request of c is closed.
Closed(c) == [s \in Streams |-> IF s = request[c] THEN "idle" ELSE stream[s]]

ClearTimeouts(c) ==
  /\ keepalive' = [keepalive EXCEPT ![c] = FALSE]
  /\ reconnection' = [reconnection EXCEPT ![c] = FALSE]

\* disconnect, but for what it does to stream.
Disconnect(c) ==
  /\ connected' = [connected EXCEPT ![c] = FALSE]
  /\ request' = [request EXCEPT ![c] = NoStream]
  /\ ClearTimeouts(c)
  /\ overtaken' = [overtaken EXCEPT ![c] = @ \/ Building(c) # {}]

\* makeRequest, until it awaits requestBuilder.
MakeRequest(c) ==
  /\ Disconnect(c)
  /\ \E s \in Streams :
       /\ Owner[s] = c /\ Closed(c)[s] = "idle"
       /\ stream' = [Closed(c) EXCEPT ![s] = "building"]

\* rebuildAndReconnect: by onMount, or by the component itself, which may do it
\* after an await of its own, stopped or destroyed in the meantime.
Rebuild(c) ==
  /\ MakeRequest(c)
  /\ phase' = [phase EXCEPT ![c] = "running"]
  /\ UNCHANGED stray

\* disconnect: by onDestroy, or by a component that stays.
Stop(c) ==
  /\ phase[c] = "running"
  /\ Disconnect(c)
  /\ stream' = Closed(c)
  /\ phase' = [phase EXCEPT ![c] = "stopped"]
  /\ UNCHANGED stray

\* The awaited request becomes the request of its controller, whatever that is doing.
Built(s) ==
  /\ stream[s] = "building"
  /\ stream' = [stream EXCEPT ![s] = "open"]
  /\ request' = [request EXCEPT ![Owner[s]] = s]
  /\ UNCHANGED <<phase, connected, timers, overtaken>>

\* Mutant: the keepalive timer is not armed again.
HandleUpdate_NoKeepalive(s) ==
  LET c == Owner[s] IN
  /\ stream[s] = "open"
  /\ connected' = [connected EXCEPT ![c] = TRUE]
  /\ keepalive' = [keepalive EXCEPT ![c] = FALSE]
  /\ UNCHANGED <<phase, stream, request, reconnection, stray, overtaken>>

\* handleUpdate
HandleUpdate(s) ==
  LET c == Owner[s] IN
  /\ stream[s] = "open"
  /\ connected' = [connected EXCEPT ![c] = TRUE]
  /\ keepalive' = [keepalive EXCEPT ![c] = TRUE]
  /\ UNCHANGED <<phase, stream, request, reconnection, stray, overtaken>>

\* handleClose: the stream that ends need not be the request it forgets.
HandleClose(s) ==
  LET c == Owner[s] IN
  /\ stream[s] = "open"
  /\ reconnection[c] => stray[c] < MaxStray
  /\ stream' = [stream EXCEPT ![s] = "idle"]
  /\ request' = [request EXCEPT ![c] = NoStream]
  /\ connected' = [connected EXCEPT ![c] = FALSE]
  /\ reconnection' = [reconnection EXCEPT ![c] = TRUE]
  /\ stray' = [stray EXCEPT ![c] = IF reconnection[c] THEN @ + 1 ELSE @]
  /\ UNCHANGED <<phase, keepalive, overtaken>>

KeepaliveFires(c) ==
  /\ keepalive[c]
  /\ MakeRequest(c)
  /\ UNCHANGED <<phase, stray>>

ReconnectionFires(c) ==
  /\ reconnection[c]
  /\ MakeRequest(c)
  /\ UNCHANGED <<phase, stray>>

\* A timer that clearTimeouts cannot reach.
StrayFires(c) ==
  /\ stray[c] > 0
  /\ MakeRequest(c)
  /\ stray' = [stray EXCEPT ![c] = @ - 1]
  /\ UNCHANGED phase

-----------------------------------------------------------------------------

StreamInit ==
  /\ phase = [c \in Controllers |-> "new"]
  /\ stream = [s \in Streams |-> "idle"]
  /\ request = [c \in Controllers |-> NoStream]
  /\ connected = [c \in Controllers |-> TRUE]
  /\ keepalive = [c \in Controllers |-> FALSE]
  /\ reconnection = [c \in Controllers |-> FALSE]
  /\ stray = [c \in Controllers |-> 0]
  /\ overtaken = [c \in Controllers |-> FALSE]

StreamNext ==
  \/ \E c \in Controllers :
       \/ Rebuild(c)
       \/ Stop(c)
       \/ KeepaliveFires(c)
       \/ ReconnectionFires(c)
       \/ StrayFires(c)
  \/ \E s \in Streams :
       \/ Built(s)
       \/ HandleUpdate(s)
       \/ HandleClose(s)

StreamSpec == StreamInit /\ [][StreamNext]_streamVars

-----------------------------------------------------------------------------
(* Properties                                                              *)

\* The types of the variables.
StreamTypeOK ==
  /\ phase \in [Controllers -> Phases]
  /\ stream \in [Streams -> {"idle", "building", "open"}]
  /\ request \in [Controllers -> Streams \cup {NoStream}]
  /\ connected \in [Controllers -> BOOLEAN]
  /\ keepalive \in [Controllers -> BOOLEAN]
  /\ reconnection \in [Controllers -> BOOLEAN]
  /\ stray \in [Controllers -> 0..MaxStray]
  /\ overtaken \in [Controllers -> BOOLEAN]

\* A controller has one stream at most, awaited or held in request: two at a
\* time would deliver every update twice, and the one that is not in request
\* can never be closed (disconnect of rpcUtils.ts).
OneStream == \A c \in Controllers : ~overtaken[c] =>
  /\ \A s, t \in Building(c) \cup Open(c) : s = t
  /\ \A s \in Open(c) : request[c] = s

\* A controller that was disconnected keeps neither a stream nor a timer, and
\* so does not come back to life after its component is gone (onDestroy of
\* consumeStreamRPCFromSvelteComponent).
QuietWhenStopped == \A c \in Controllers :
  (phase[c] # "running" /\ ~overtaken[c]) =>
    /\ Building(c) \cup Open(c) = {}
    /\ ~keepalive[c] /\ ~reconnection[c] /\ stray[c] = 0

\* A component that is told it is connected has a stream, and the timer that
\* notices when that stream falls silent.
ConnectedIsWatched == \A c \in Controllers :
  (phase[c] # "new" /\ connected[c] /\ ~overtaken[c]) =>
    /\ request[c] # NoStream /\ stream[request[c]] = "open"
    /\ keepalive[c]
=============================================================================
