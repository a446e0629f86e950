--------------------------- MODULE StreamRPCProofs ---------------------------
(***************************************************************************)
(* Proofs about StreamRPC, that ApiClient implements it, and about the     *)
(* pages of ApplicationPage, which is an instance of it, with the types of *)
(* the whole client: for any controllers and dialogs, any number of        *)
(* requests in flight, of loads and of messages to the child of one.       *)
(***************************************************************************)
EXTENDS WebClientMC, SequenceTheorems, TLAPS

\* What holds of a controller that never moved on while it awaited a request.
Undisturbed(c) ==
  /\ \A s, t \in Building(c) \cup Open(c) : s = t
  /\ \A s \in Open(c) : request[c] = s /\ ~reconnection[c]
  /\ Building(c) # {} => ~keepalive[c] /\ ~reconnection[c]
  /\ stray[c] = 0
  /\ phase[c] # "running" => Building(c) \cup Open(c) = {} /\ ~keepalive[c] /\ ~reconnection[c]
  /\ phase[c] # "new" /\ connected[c] => Open(c) # {} /\ keepalive[c]

StreamIInv ==
  /\ StreamTypeOK
  /\ \A c \in Controllers : request[c] # NoStream => request[c] \in Open(c)
  /\ \A c \in Controllers : ~overtaken[c] => Undisturbed(c)

-----------------------------------------------------------------------------

USE StreamAssumption

LEMMA StreamInitIInv == StreamInit => StreamIInv
  BY DEF StreamInit, StreamIInv, StreamTypeOK, Phases, Undisturbed, Building, Open

\* What makeRequest leaves behind, when it overtook nothing.
LEMMA MakeRequestKeeps ==
  ASSUME StreamIInv, NEW c \in Controllers, MakeRequest(c),
         phase' \in [Controllers -> Phases], ~overtaken'[c] => phase'[c] = "running",
         \A d \in Controllers : d # c => phase'[d] = phase[d],
         stray' \in [Controllers -> 0..MaxStray], stray[c] = 0 => stray'[c] = 0,
         \A d \in Controllers : d # c => stray'[d] = stray[d]
  PROVE  StreamIInv'
<1> USE DEF StreamIInv
<1>1. PICK s \in Streams : /\ Owner[s] = c /\ Closed(c)[s] = "idle"
                           /\ stream' = [Closed(c) EXCEPT ![s] = "building"]
  BY DEF MakeRequest
<1>2. StreamTypeOK'
  BY <1>1 DEF MakeRequest, Disconnect, ClearTimeouts, Closed, StreamTypeOK
<1>3. ASSUME NEW d \in Controllers, d # c
      PROVE  Building(d)' = Building(d) /\ Open(d)' = Open(d) /\ request'[d] = request[d]
  BY <1>1, <1>3 DEF MakeRequest, Disconnect, Closed, Building, Open, StreamTypeOK
<1>4. ASSUME NEW d \in Controllers, d # c, ~overtaken'[d]
      PROVE  Undisturbed(d)'
  <2>1. Undisturbed(d)
    BY <1>4 DEF MakeRequest, Disconnect, StreamTypeOK
  <2>2. /\ keepalive'[d] = keepalive[d] /\ reconnection'[d] = reconnection[d]
        /\ connected'[d] = connected[d]
    BY <1>4 DEF MakeRequest, Disconnect, ClearTimeouts, StreamTypeOK
  <2> QED
    BY <1>3, <1>4, <2>1, <2>2 DEF Undisturbed
<1>5. ASSUME ~overtaken'[c]
      PROVE  Undisturbed(c)'
  <2>1. ~overtaken[c] /\ Building(c) = {}
    BY <1>5 DEF MakeRequest, Disconnect, StreamTypeOK
  <2>2. Undisturbed(c)
    BY <2>1
  <2>3. Building(c)' = {s} /\ Open(c)' = {}
    BY <1>1, <2>1, <2>2 DEF Undisturbed, Building, Open, Closed, StreamTypeOK
  <2>4. /\ ~keepalive'[c] /\ ~reconnection'[c] /\ ~connected'[c]
        /\ request'[c] = NoStream /\ stray'[c] = 0
    BY <2>2 DEF MakeRequest, Disconnect, ClearTimeouts, StreamTypeOK, Undisturbed
  <2> QED
    BY <1>5, <2>3, <2>4 DEF Undisturbed
<1>6. \A d \in Controllers : request'[d] # NoStream => request'[d] \in Open(d)'
  BY <1>3 DEF MakeRequest, Disconnect, StreamTypeOK
<1> QED
  BY <1>2, <1>4, <1>5, <1>6

\* The other controllers do not notice what a step of c does to its own.
LEMMA OthersKeep ==
  ASSUME StreamIInv, NEW c \in Controllers, NEW d \in Controllers, c # d,
         \A s \in Streams : Owner[s] # c => stream'[s] = stream[s],
         StreamTypeOK', ~overtaken'[d],
         request'[d] = request[d], phase'[d] = phase[d], connected'[d] = connected[d],
         keepalive'[d] = keepalive[d], reconnection'[d] = reconnection[d],
         stray'[d] = stray[d], overtaken'[d] = overtaken[d]
  PROVE  Undisturbed(d)'
<1>1. Undisturbed(d)
  BY DEF StreamIInv
<1>2. Building(d)' = Building(d) /\ Open(d)' = Open(d)
  BY DEF Building, Open
<1> QED
  BY <1>1, <1>2 DEF Undisturbed

LEMMA StopKeeps ==
  ASSUME StreamIInv, NEW c \in Controllers, Stop(c)
  PROVE  StreamIInv'
<1>1. StreamTypeOK'
  BY DEF Stop, StreamIInv, Disconnect, ClearTimeouts, Closed, StreamTypeOK, Phases
<1>2. ASSUME NEW d \in Controllers, request'[d] # NoStream
      PROVE  request'[d] \in Open(d)'
  BY <1>2 DEF Stop, StreamIInv, Disconnect, Closed, Open, StreamTypeOK
<1>3. ASSUME NEW d \in Controllers, d # c, ~overtaken'[d]
      PROVE  Undisturbed(d)'
  <2>1. \A s \in Streams : Owner[s] # c => stream'[s] = stream[s]
    BY DEF Stop, StreamIInv, Closed, Open
  <2>2. c # d => /\ request'[d] = request[d] /\ phase'[d] = phase[d] /\ connected'[d] = connected[d]
                 /\ keepalive'[d] = keepalive[d] /\ reconnection'[d] = reconnection[d]
                 /\ stray'[d] = stray[d] /\ overtaken'[d] = overtaken[d]
    BY DEF Stop, Disconnect, ClearTimeouts, StreamIInv, StreamTypeOK
  <2> QED
    BY <1>1, <1>3, <2>1, <2>2, OthersKeep
<1>4. ASSUME ~overtaken'[c]
      PROVE  Undisturbed(c)'
  <2>1. Building(c) = {} /\ Undisturbed(c)
    BY <1>4 DEF Stop, Disconnect, StreamIInv, StreamTypeOK
  <2>2. Building(c)' = {} /\ Open(c)' = {}
    BY <2>1 DEF Stop, Closed, Building, Open, Undisturbed
  <2>3. ~keepalive'[c] /\ ~reconnection'[c] /\ ~connected'[c] /\ request'[c] = NoStream
    BY DEF Stop, Disconnect, ClearTimeouts, StreamIInv, StreamTypeOK
  <2>4. stray'[c] = 0
    BY <2>1 DEF Stop, Undisturbed
  <2> QED
    BY <2>2, <2>3, <2>4 DEF Undisturbed
<1> QED
  BY <1>1, <1>2, <1>3, <1>4 DEF StreamIInv

LEMMA BuiltKeeps ==
  ASSUME StreamIInv, NEW s \in Streams, Built(s)
  PROVE  StreamIInv'
<1> DEFINE c == Owner[s]
<1>0. c \in Controllers /\ s \in Building(c)
  BY DEF Built, timers, Building
<1>1. StreamTypeOK'
  BY DEF Built, timers, StreamIInv, StreamTypeOK
<1>2. ASSUME NEW d \in Controllers, request'[d] # NoStream
      PROVE  request'[d] \in Open(d)'
  BY <1>2 DEF Built, timers, StreamIInv, Open, StreamTypeOK
<1>3. ASSUME NEW d \in Controllers, d # c, ~overtaken'[d]
      PROVE  Undisturbed(d)'
  BY <1>0, <1>1, <1>3, OthersKeep DEF Built, timers, StreamIInv, StreamTypeOK
<1>4. ASSUME ~overtaken'[c]
      PROVE  Undisturbed(c)'
  <2>1. Undisturbed(c)
    BY <1>0, <1>4 DEF Built, timers, StreamIInv
  <2>2. Building(c)' = {} /\ Open(c)' = {s}
    BY <1>0, <2>1 DEF Built, timers, Building, Open, Undisturbed, StreamIInv, StreamTypeOK
  <2>3. /\ phase'[c] = "running" /\ request'[c] = s /\ stray'[c] = 0
        /\ ~keepalive'[c] /\ ~reconnection'[c] /\ ~connected'[c]
    <3>1. Building(c) # {} /\ Open(c) = {}
      BY <1>0, <2>1 DEF Undisturbed, Building, Open
    <3> QED
      BY <1>0, <2>1, <3>1 DEF Built, timers, Undisturbed, StreamIInv, StreamTypeOK, Phases
  <2> QED
    BY <2>2, <2>3 DEF Undisturbed
<1> QED
  BY <1>1, <1>2, <1>3, <1>4 DEF StreamIInv

LEMMA UpdateKeeps ==
  ASSUME StreamIInv, NEW s \in Streams, HandleUpdate(s)
  PROVE  StreamIInv'
<1> DEFINE c == Owner[s]
<1>0. c \in Controllers /\ s \in Open(c)
  BY DEF HandleUpdate, Open
<1>1. StreamTypeOK'
  BY DEF HandleUpdate, StreamIInv, StreamTypeOK
<1>2. ASSUME NEW d \in Controllers
      PROVE  Building(d)' = Building(d) /\ Open(d)' = Open(d) /\ request'[d] = request[d]
  BY DEF HandleUpdate, Building, Open
<1>3. ASSUME NEW d \in Controllers, d # c, ~overtaken'[d]
      PROVE  Undisturbed(d)'
  BY <1>0, <1>1, <1>3, OthersKeep DEF HandleUpdate, StreamIInv, StreamTypeOK
<1>4. ASSUME ~overtaken'[c]
      PROVE  Undisturbed(c)'
  <2>1. Undisturbed(c)
    BY <1>0, <1>4 DEF HandleUpdate, StreamIInv
  <2>2. Building(c) = {}
    BY <1>0, <2>1 DEF Undisturbed, Building, Open
  <2> QED
    BY <1>0, <1>2, <2>1, <2>2 DEF HandleUpdate, Undisturbed, StreamIInv, StreamTypeOK
<1> QED
  BY <1>1, <1>2, <1>3, <1>4 DEF StreamIInv

LEMMA CloseKeeps ==
  ASSUME StreamIInv, NEW s \in Streams, HandleClose(s)
  PROVE  StreamIInv'
<1> DEFINE c == Owner[s]
<1>0. c \in Controllers /\ s \in Open(c)
  BY DEF HandleClose, Open
<1>1. StreamTypeOK'
  BY DEF HandleClose, StreamIInv, StreamTypeOK
<1>2. ASSUME NEW d \in Controllers, request'[d] # NoStream
      PROVE  request'[d] \in Open(d)'
  BY <1>0, <1>2 DEF HandleClose, StreamIInv, Open, StreamTypeOK
<1>3. ASSUME NEW d \in Controllers, d # c, ~overtaken'[d]
      PROVE  Undisturbed(d)'
  BY <1>0, <1>1, <1>3, OthersKeep DEF HandleClose, StreamIInv, StreamTypeOK
<1>4. ASSUME ~overtaken'[c]
      PROVE  Undisturbed(c)'
  <2>1. Undisturbed(c)
    BY <1>0, <1>4 DEF HandleClose, StreamIInv
  <2>2. Building(c)' = {} /\ Open(c)' = {}
    BY <1>0, <2>1 DEF HandleClose, Building, Open, Undisturbed, StreamIInv, StreamTypeOK
  <2>3. ~reconnection[c] /\ phase[c] = "running" /\ stray[c] = 0
    BY <1>0, <2>1 DEF Undisturbed
  <2>4. ~connected'[c] /\ request'[c] = NoStream /\ stray'[c] = 0 /\ phase'[c] = "running"
    BY <1>0, <2>3 DEF HandleClose, StreamIInv, StreamTypeOK
  <2> QED
    BY <2>2, <2>4 DEF Undisturbed
<1> QED
  BY <1>1, <1>2, <1>3, <1>4 DEF StreamIInv

LEMMA StreamNextIInv == StreamIInv /\ [StreamNext]_streamVars => StreamIInv'
<1> SUFFICES ASSUME StreamIInv, [StreamNext]_streamVars PROVE StreamIInv'
  OBVIOUS
<1>1. ASSUME NEW c \in Controllers, Rebuild(c) PROVE StreamIInv'
  BY <1>1, MakeRequestKeeps DEF Rebuild, StreamIInv, StreamTypeOK, Phases
<1>2. ASSUME NEW c \in Controllers, Stop(c) PROVE StreamIInv'
  BY <1>2, StopKeeps
<1>3. ASSUME NEW c \in Controllers, KeepaliveFires(c) \/ ReconnectionFires(c) \/ StrayFires(c)
      PROVE  StreamIInv'
  <2>1. MakeRequest(c) /\ phase' = phase
    BY <1>3 DEF KeepaliveFires, ReconnectionFires, StrayFires
  <2>2. ~overtaken'[c] => phase[c] = "running"
    BY <1>3, <2>1 DEF MakeRequest, Disconnect, KeepaliveFires, ReconnectionFires, StrayFires,
                      StreamIInv, StreamTypeOK, Undisturbed
  <2>3. /\ stray' \in [Controllers -> 0..MaxStray] /\ (stray[c] = 0 => stray'[c] = 0)
        /\ \A d \in Controllers : d # c => stray'[d] = stray[d]
    BY <1>3 DEF KeepaliveFires, ReconnectionFires, StrayFires, StreamIInv, StreamTypeOK
  <2> QED
    BY <2>1, <2>2, <2>3, MakeRequestKeeps DEF StreamIInv, StreamTypeOK
<1>4. ASSUME NEW s \in Streams, Built(s) PROVE StreamIInv'
  BY <1>4, BuiltKeeps
<1>5. ASSUME NEW s \in Streams, HandleUpdate(s) PROVE StreamIInv'
  BY <1>5, UpdateKeeps
<1>6. ASSUME NEW s \in Streams, HandleClose(s) PROVE StreamIInv'
  BY <1>6, CloseKeeps
<1>7. CASE UNCHANGED streamVars
  BY <1>7 DEF streamVars, timers, StreamIInv, StreamTypeOK, Undisturbed, Building, Open
<1> QED
  BY <1>1, <1>2, <1>3, <1>4, <1>5, <1>6, <1>7 DEF StreamNext
LEMMA StreamInductive == StreamSpec => []StreamIInv
  BY StreamInitIInv, StreamNextIInv, PTL DEF StreamSpec

-----------------------------------------------------------------------------

\* ApiClient implements StreamRPC: the mutex, the configuration and the other
\* calls only decide when an awaited request goes on.
LEMMA ApiStep == [Next]_vars => [StreamNext]_streamVars
<1> SUFFICES ASSUME [Next]_vars PROVE [StreamNext]_streamVars
  OBVIOUS
<1>1. ASSUME NEW c \in Controllers,
             RebuildEvent(c) \/ KeepaliveEvent(c)
             \/ ReconnectionEvent(c) \/ StrayEvent(c) \/ StopEvent(c)
      PROVE  StreamNext
  BY <1>1 DEF RebuildEvent, KeepaliveEvent, ReconnectionEvent, StrayEvent, AwaitsConfig, StopEvent, StreamNext
<1>2. ASSUME NEW s \in Streams, UpdateEvent(s) \/ EndEvent(s) \/ StreamPasses(s)
      PROVE  StreamNext
  BY <1>2 DEF UpdateEvent, EndEvent, StreamPasses, StreamNext
<1>3. CASE AskForConfig \/ ConfigAnswered \/ ConfigFails \/ UnaryPasses \/ RefreshPasses
           \/ Expires \/ UnaryCall \/ UnaryEnds
  BY <1>3 DEF AskForConfig, ConfigAnswered, ConfigFails, UnaryPasses, RefreshPasses, Expires,
              UnaryCall, UnaryEnds
<1>4. CASE UNCHANGED vars
  BY <1>4 DEF vars
<1> QED
  BY <1>1, <1>2, <1>3, <1>4 DEF Next

THEOREM ImplementsStreamRPC == Spec => StreamSpec
  BY ApiStep, PTL DEF Spec, StreamSpec, Init

\* The queue of the mutex holds awaited requests and the two other waiters.
LEMMA LockStep == LockTypeOK /\ [Next]_vars => LockTypeOK'
<1> SUFFICES ASSUME lock \in Seq(Waiters), [Next]_vars PROVE lock' \in Seq(Waiters)
  BY DEF LockTypeOK, Waiters
<1>0. Streams \subseteq Waiters /\ Refresh \in Waiters /\ Unary \in Waiters
  BY DEF Waiters
<1>1. ASSUME NEW c \in Controllers,
             RebuildEvent(c) \/ KeepaliveEvent(c)
             \/ ReconnectionEvent(c) \/ StrayEvent(c)
      PROVE  \E w \in Waiters : lock' = Append(lock, w)
  BY <1>0, <1>1 DEF RebuildEvent, KeepaliveEvent, ReconnectionEvent, StrayEvent, AwaitsConfig, Awaits
<1>2. ASSUME NEW s \in Streams, EndEvent(s)
      PROVE  lock' = Append(lock, Refresh) \/ lock' = lock
  BY <1>2 DEF EndEvent, Awaits
<1>3. ASSUME NEW s \in Streams, StreamPasses(s) PROVE lock # <<>> /\ lock' = Tail(lock)
  BY <1>3 DEF StreamPasses, Passes, Release
<1>4. CASE UnaryPasses \/ RefreshPasses
  BY <1>4 DEF UnaryPasses, RefreshPasses, Passes, Release
<1>5. CASE AskForConfig \/ ConfigAnswered \/ Expires
  BY <1>5 DEF AskForConfig, ConfigAnswered, Expires
<1>6. CASE ConfigFails \/ UnaryEnds
  <2>1. lock' = Append(lock, Refresh) \/ lock' = lock
    BY <1>6 DEF ConfigFails, UnaryEnds, Awaits
  <2> QED
    BY <1>0, <2>1
<1>7. CASE UnaryCall
  BY <1>0, <1>7 DEF UnaryCall, Awaits
<1>8. ASSUME NEW c \in Controllers, StopEvent(c) PROVE lock' = lock
  BY <1>8 DEF StopEvent, configVars
<1>9. ASSUME NEW s \in Streams, UpdateEvent(s) PROVE lock' = lock
  BY <1>9 DEF UpdateEvent, configVars
<1>10. CASE UNCHANGED vars
  BY <1>10 DEF vars, configVars
<1> QED
  BY <1>0, <1>1, <1>2, <1>3, <1>4, <1>5, <1>6, <1>7, <1>8, <1>9, <1>10 DEF Next

\* The other variables of ApiClient.
ConfigTypeOK ==
  /\ fetch \in {"none", "sent", "done"}
  /\ host \in {"original", "edge"}
  /\ obtained \in BOOLEAN /\ fresh \in BOOLEAN
  /\ call \in {"none", "waiting", "sent"}

LEMMA ConfigStep == ConfigTypeOK /\ [Next]_vars => ConfigTypeOK'
<1> SUFFICES ASSUME ConfigTypeOK, [Next]_vars PROVE ConfigTypeOK'
  OBVIOUS
<1>1. FallBack => host' \in {"original", "edge"} /\ obtained' \in BOOLEAN /\ fresh' \in BOOLEAN
  BY DEF FallBack, ConfigTypeOK
<1>2. ASSUME NEW c \in Controllers,
             RebuildEvent(c) \/ KeepaliveEvent(c)
             \/ ReconnectionEvent(c) \/ StrayEvent(c)
      PROVE  ConfigTypeOK'
  BY <1>2 DEF RebuildEvent, KeepaliveEvent, ReconnectionEvent, StrayEvent, AwaitsConfig, ConfigTypeOK
<1>3. ASSUME NEW s \in Streams, EndEvent(s) PROVE ConfigTypeOK'
  BY <1>1, <1>3 DEF EndEvent, ConfigTypeOK
<1>4. ASSUME NEW s \in Streams, StreamPasses(s) PROVE ConfigTypeOK'
  BY <1>4 DEF StreamPasses, Passes, Release, ConfigTypeOK
<1>5. CASE UnaryPasses \/ RefreshPasses
  BY <1>5 DEF UnaryPasses, RefreshPasses, Passes, Release, ConfigTypeOK
<1>6. CASE AskForConfig \/ Expires \/ UnaryCall
  BY <1>6 DEF AskForConfig, Expires, UnaryCall, ConfigTypeOK
<1>7. CASE ConfigAnswered
  BY <1>7 DEF ConfigAnswered, ConfigTypeOK
<1>8. CASE ConfigFails
  BY <1>8 DEF ConfigFails, ConfigTypeOK
<1>9. CASE UnaryEnds
  BY <1>1, <1>9 DEF UnaryEnds, ConfigTypeOK
<1>10. ASSUME NEW c \in Controllers, StopEvent(c) PROVE ConfigTypeOK'
  BY <1>10 DEF StopEvent, configVars, ConfigTypeOK
<1>11. ASSUME NEW s \in Streams, UpdateEvent(s) PROVE ConfigTypeOK'
  BY <1>11 DEF UpdateEvent, configVars, ConfigTypeOK
<1>12. CASE UNCHANGED vars
  BY <1>12 DEF vars, configVars, ConfigTypeOK
<1> QED
  BY <1>2, <1>3, <1>4, <1>5, <1>6, <1>7, <1>8, <1>9, <1>10, <1>11, <1>12 DEF Next

LEMMA ClientInit == Init => StreamTypeOK /\ LockTypeOK /\ ConfigTypeOK
<1>1. Init => ConfigTypeOK
  BY DEF Init, ConfigTypeOK
<1>2. Init => lock = <<>> /\ StreamInit
  BY DEF Init
<1>3. lock = <<>> => LockTypeOK
  BY DEF LockTypeOK
<1>4. StreamIInv => StreamTypeOK
  BY DEF StreamIInv
<1> QED
  BY <1>1, <1>2, <1>3, <1>4, StreamInitIInv

\* Every variable of the client keeps its type.
THEOREM ClientTypes == Spec => []ClientTypeOK
<1>1. StreamIInv => StreamTypeOK
  BY DEF StreamIInv
<1>2. StreamTypeOK /\ LockTypeOK /\ ConfigTypeOK => ClientTypeOK
  BY DEF ClientTypeOK, ConfigTypeOK
<1> QED
  BY <1>1, <1>2, ClientInit, LockStep, ConfigStep, ImplementsStreamRPC, StreamInductive, PTL DEF Spec

-----------------------------------------------------------------------------

\* A controller that was not overtaken has one stream at most, the one it can close.
THEOREM OneStreamAtATime == Spec => []OneStream
<1>1. StreamIInv => OneStream
  BY DEF StreamIInv, Undisturbed, OneStream
<1> QED
  BY <1>1, StreamInductive, ImplementsStreamRPC, PTL

\* A controller that was stopped, and not overtaken, does not come back.
THEOREM StoppedStaysQuiet == Spec => []QuietWhenStopped
<1>1. StreamIInv => QuietWhenStopped
  BY DEF StreamIInv, Undisturbed, QuietWhenStopped
<1> QED
  BY <1>1, StreamInductive, ImplementsStreamRPC, PTL

\* A component that is told it is connected has a stream and its watchdog.
THEOREM ConnectedHasWatchdog == Spec => []ConnectedIsWatched
<1>1. StreamIInv => ConnectedIsWatched
  BY DEF StreamIInv, Undisturbed, ConnectedIsWatched, Open
<1> QED
  BY <1>1, StreamInductive, ImplementsStreamRPC, PTL
-----------------------------------------------------------------------------
(* Pages: what the child of a load is told                                 *)

NoneOvertaken == \A k \in Loads : ~pageOvertaken[k]

IdleStreams(k) == \A s \in PageStreams : PageOwner[s] = k => pageStream[s] = "idle"

PageStreamTypes ==
  /\ pagePhase \in [Loads -> {"new", "running", "stopped"}]
  /\ pageStream \in [PageStreams -> {"idle", "building", "open"}]
  /\ pageRequest \in [Loads -> PageStreams \cup {NoStream}]
  /\ pageConnected \in [Loads -> BOOLEAN]
  /\ pageKeepalive \in [Loads -> BOOLEAN]
  /\ pageReconnection \in [Loads -> BOOLEAN]
  /\ pageStray \in [Loads -> Nat]

\* A load has one stream at most while it runs, and then none, nor a timer.
OnePageStream ==
  /\ \A s, t \in PageStreams :
       PageOwner[s] = PageOwner[t] /\ pageStream[s] # "idle" /\ pageStream[t] # "idle" => s = t
  /\ \A s \in PageStreams : pageStream[s] = "open" => pageRequest[PageOwner[s]] = s
  /\ \A k \in Loads : pageRequest[k] # NoStream => PageOwner[pageRequest[k]] = k
  /\ \A k \in Loads : pageReconnection[k] => IdleStreams(k)
  /\ \A k \in Loads : pageStray[k] = 0
  /\ \A k \in Loads : pagePhase[k] # "running" => IdleStreams(k) /\ ~pageKeepalive[k] /\ ~pageReconnection[k]

\* Each load gets as far as its handler, and the child is that of one of them.
Loading ==
  /\ load \in Nat
  /\ handler \in [Loads -> {"none", "handshaking", "waiting", "consuming"}]
  /\ \A k \in Loads : k > load => handler[k] = "none"
  /\ {peer, connection, controller} \subseteq Loads \cup {0}
  /\ gone \in BOOLEAN /\ ready \in BOOLEAN /\ resolved \in BOOLEAN /\ had \in BOOLEAN
  /\ connection # 0 => handler[connection] \in {"waiting", "consuming"}
  /\ peer # 0 => connection = peer /\ ~gone
  /\ peer # 0 /\ handler[peer] = "waiting" => controller = 0
  /\ peer # 0 /\ handler[peer] = "consuming" => controller = peer
  /\ controller # 0 /\ ~gone => peer = controller /\ ready
  /\ ready => peer # 0
  /\ ~ready => ~resolved

\* Only the controller of the page has a stream, and had is whether it is there.
OnlyController ==
  /\ \A k \in Loads : pagePhase[k] = "running" => k = controller
  /\ had = (controller # 0 /\ pageConnected[controller])

\* What the child knows once it has got the first i messages.
Knows(i) == IF i \in DOMAIN posted /\ posted[i].to = peer THEN posted[i].up ELSE resolved

\* The messages to the child are the last ones, and each of them is news.
News ==
  /\ posted \in Seq([to : Loads \cup {0}, up : BOOLEAN])
  /\ \A i \in DOMAIN posted : posted[i].to # 0 => handler[posted[i].to] \in {"waiting", "consuming"}
  /\ peer # 0 =>
       /\ \A i, j \in DOMAIN posted : posted[i].to = peer /\ i < j => posted[j].to = peer
       /\ \A i \in DOMAIN posted : posted[i].to = peer => ready /\ posted[i].up # Knows(i - 1)
       /\ had = Knows(Len(posted))

CallWaits ==
  /\ pageCall \in {"none", "waiting"}
  /\ pageCall = "waiting" => ready /\ ~resolved

Telling == PageStreamTypes /\ OnePageStream /\ Loading /\ OnlyController /\ News /\ CallWaits

PageInv == pageOvertaken \in [Loads -> BOOLEAN] /\ (NoneOvertaken => Telling)

USE PageAssumption

LEMMA InSeq == ASSUME NEW S, NEW q \in Seq(S), NEW i \in DOMAIN q PROVE q[i] \in S
<1>1. i \in 1..Len(q)
  BY LenProperties
<1> QED
  BY <1>1, ElementOfSeq

\* The messages of the page are for the children of its loads, or for nobody.
LEMMA PostedTo ==
  ASSUME News
  PROVE  \A i \in DOMAIN posted : posted[i].to \in Loads \cup {0} /\ posted[i].up \in BOOLEAN
<1> SUFFICES ASSUME NEW i \in DOMAIN posted
             PROVE  posted[i].to \in Loads \cup {0} /\ posted[i].up \in BOOLEAN
  OBVIOUS
<1> DEFINE Messages == [to : Loads \cup {0}, up : BOOLEAN]
<1>1. posted \in Seq(Messages)
  BY DEF News
<1>2. \A m \in Messages : m.to \in Loads \cup {0} /\ m.up \in BOOLEAN
  OBVIOUS
<1> HIDE DEF Messages
<1>3. posted[i] \in Messages
  BY <1>1, InSeq
<1> QED
  BY <1>2, <1>3

\* What makeRequest leaves behind, when it overtook nothing.
LEMMA PageRequests ==
  ASSUME pageOvertaken \in [Loads -> BOOLEAN], PageStreamTypes, OnePageStream, NEW c \in Loads,
         P!MakeRequest(c), ~pageOvertaken'[c],
         pagePhase' = [pagePhase EXCEPT ![c] = "running"], pageStray' = pageStray
  PROVE  /\ PageStreamTypes' /\ OnePageStream'
         /\ pageConnected' = [pageConnected EXCEPT ![c] = FALSE]
<1>1. PICK s \in PageStreams : /\ PageOwner[s] = c /\ P!Closed(c)[s] = "idle"
                               /\ pageStream' = [P!Closed(c) EXCEPT ![s] = "building"]
  BY DEF P!MakeRequest
<1>2. /\ pageConnected' = [pageConnected EXCEPT ![c] = FALSE]
      /\ pageRequest' = [pageRequest EXCEPT ![c] = NoStream]
      /\ pageKeepalive' = [pageKeepalive EXCEPT ![c] = FALSE]
      /\ pageReconnection' = [pageReconnection EXCEPT ![c] = FALSE]
      /\ P!Building(c) = {}
  BY DEF P!MakeRequest, P!Disconnect, P!ClearTimeouts
<1>3. P!Closed(c) = [t \in PageStreams |-> IF t = pageRequest[c] THEN "idle" ELSE pageStream[t]]
  BY DEF P!Closed
<1>4. pageStream' \in [PageStreams -> {"idle", "building", "open"}]
  BY <1>1, <1>3 DEF PageStreamTypes
<1>5. PageStreamTypes'
  BY <1>2, <1>4 DEF PageStreamTypes
<1>6. \A t \in PageStreams : PageOwner[t] = c /\ t # s => pageStream'[t] = "idle"
  <2> SUFFICES ASSUME NEW t \in PageStreams, PageOwner[t] = c, t # s PROVE pageStream'[t] = "idle"
    OBVIOUS
  <2>1. pageStream[t] # "building"
    BY <1>2 DEF P!Building
  <2>2. pageStream[t] = "open" => pageRequest[c] = t
    BY DEF OnePageStream
  <2>3. pageStream[t] \in {"idle", "building", "open"}
    BY DEF PageStreamTypes
  <2> QED
    BY <1>1, <1>3, <2>1, <2>2, <2>3
<1>7. pageStream'[s] = "building"
  BY <1>1, <1>3
<1>8. \A t \in PageStreams : PageOwner[t] # c => pageStream'[t] = pageStream[t]
  <2> SUFFICES ASSUME NEW t \in PageStreams, PageOwner[t] # c PROVE pageStream'[t] = pageStream[t]
    OBVIOUS
  <2>1. CASE t = pageRequest[c]
    BY <2>1 DEF OnePageStream
  <2>2. CASE t # pageRequest[c]
    BY <1>1, <1>3, <2>2
  <2> QED
    BY <2>1, <2>2
<1>9. OnePageStream'
  <2>1. \A t, v \in PageStreams :
          PageOwner[t] = PageOwner[v] /\ pageStream'[t] # "idle" /\ pageStream'[v] # "idle" => t = v
    BY <1>6, <1>8 DEF OnePageStream
  <2>2. \A t \in PageStreams : pageStream'[t] = "open" => pageRequest'[PageOwner[t]] = t
    <3> SUFFICES ASSUME NEW t \in PageStreams, pageStream'[t] = "open" PROVE pageRequest'[PageOwner[t]] = t
      OBVIOUS
    <3>1. PageOwner[t] # c /\ PageOwner[t] \in Loads
      BY <1>6, <1>7
    <3>2. pageRequest[PageOwner[t]] = t
      BY <1>8, <3>1 DEF OnePageStream
    <3> QED
      BY <1>2, <3>1, <3>2 DEF PageStreamTypes
  <2>3. \A k \in Loads : pageRequest'[k] # NoStream => PageOwner[pageRequest'[k]] = k
    BY <1>2 DEF OnePageStream, PageStreamTypes
  <2>4. ASSUME NEW k \in Loads, k # c PROVE IdleStreams(k)' <=> IdleStreams(k)
    BY <1>8, <2>4 DEF IdleStreams
  <2>5. ASSUME NEW k \in Loads
        PROVE  /\ pageReconnection'[k] => IdleStreams(k)'
               /\ pageStray'[k] = 0
               /\ pagePhase'[k] # "running" => IdleStreams(k)' /\ ~pageKeepalive'[k] /\ ~pageReconnection'[k]
    <3>1. CASE k = c
      BY <1>2, <3>1 DEF PageStreamTypes, OnePageStream
    <3>2. CASE k # c
      <4>1. /\ pageReconnection'[k] = pageReconnection[k] /\ pageKeepalive'[k] = pageKeepalive[k]
            /\ pagePhase'[k] = pagePhase[k] /\ pageStray'[k] = pageStray[k]
        BY <1>2, <3>2 DEF PageStreamTypes
      <4> QED
        BY <2>4, <3>2, <4>1 DEF OnePageStream
    <3> QED
      BY <3>1, <3>2
  <2> QED
    BY <2>1, <2>2, <2>3, <2>5 DEF OnePageStream
<1> QED
  BY <1>2, <1>5, <1>9

\* A controller that is stopped, without a request that is awaited.
LEMMA PageStops ==
  ASSUME PageStreamTypes, OnePageStream, NEW c \in Loads,
         P!Stop(c), pageOvertaken \in [Loads -> BOOLEAN], ~pageOvertaken'[c]
  PROVE  /\ PageStreamTypes' /\ OnePageStream'
         /\ pageConnected' = [pageConnected EXCEPT ![c] = FALSE]
         /\ pagePhase' = [pagePhase EXCEPT ![c] = "stopped"]
<1>1. /\ pageConnected' = [pageConnected EXCEPT ![c] = FALSE]
      /\ pageRequest' = [pageRequest EXCEPT ![c] = NoStream]
      /\ pageKeepalive' = [pageKeepalive EXCEPT ![c] = FALSE]
      /\ pageReconnection' = [pageReconnection EXCEPT ![c] = FALSE]
      /\ pagePhase' = [pagePhase EXCEPT ![c] = "stopped"]
      /\ pageStray' = pageStray
      /\ P!Building(c) = {}
  BY DEF P!Stop, P!Disconnect, P!ClearTimeouts
<1>2. pageStream' = [t \in PageStreams |-> IF t = pageRequest[c] THEN "idle" ELSE pageStream[t]]
  BY DEF P!Stop, P!Closed
<1>3. PageStreamTypes'
  BY <1>1, <1>2 DEF PageStreamTypes
<1>4. \A t \in PageStreams : PageOwner[t] = c => pageStream'[t] = "idle"
  BY <1>1, <1>2 DEF P!Building, OnePageStream, PageStreamTypes
<1>5. \A t \in PageStreams : PageOwner[t] # c => pageStream'[t] = pageStream[t]
  BY <1>2 DEF OnePageStream
<1>6. OnePageStream'
  <2>1. \A t, v \in PageStreams :
          PageOwner[t] = PageOwner[v] /\ pageStream'[t] # "idle" /\ pageStream'[v] # "idle" => t = v
    BY <1>4, <1>5 DEF OnePageStream
  <2>2. \A t \in PageStreams : pageStream'[t] = "open" => pageRequest'[PageOwner[t]] = t
    <3> SUFFICES ASSUME NEW t \in PageStreams, pageStream'[t] = "open" PROVE pageRequest'[PageOwner[t]] = t
      OBVIOUS
    <3>1. PageOwner[t] # c /\ PageOwner[t] \in Loads
      BY <1>4
    <3>2. pageRequest[PageOwner[t]] = t
      BY <1>5, <3>1 DEF OnePageStream
    <3> QED
      BY <1>1, <3>1, <3>2 DEF PageStreamTypes
  <2>3. \A k \in Loads : pageRequest'[k] # NoStream => PageOwner[pageRequest'[k]] = k
    BY <1>1 DEF OnePageStream, PageStreamTypes
  <2>4. ASSUME NEW k \in Loads, k # c PROVE IdleStreams(k)' <=> IdleStreams(k)
    BY <1>5, <2>4 DEF IdleStreams
  <2>5. IdleStreams(c)'
    BY <1>4 DEF IdleStreams
  <2>6. ASSUME NEW k \in Loads
        PROVE  /\ pageReconnection'[k] => IdleStreams(k)'
               /\ pageStray'[k] = 0
               /\ pagePhase'[k] # "running" => IdleStreams(k)' /\ ~pageKeepalive'[k] /\ ~pageReconnection'[k]
    <3>1. CASE k = c
      BY <1>1, <2>5, <3>1 DEF PageStreamTypes, OnePageStream
    <3>2. CASE k # c
      <4>1. /\ pageReconnection'[k] = pageReconnection[k] /\ pageKeepalive'[k] = pageKeepalive[k]
            /\ pagePhase'[k] = pagePhase[k] /\ pageStray'[k] = pageStray[k]
        BY <1>1, <3>2 DEF PageStreamTypes
      <4> QED
        BY <2>4, <3>2, <4>1 DEF OnePageStream
    <3> QED
      BY <3>1, <3>2
  <2> QED
    BY <2>1, <2>2, <2>3, <2>6 DEF OnePageStream
<1> QED
  BY <1>1, <1>3, <1>6

LEMMA PageBuilds ==
  ASSUME PageStreamTypes, OnePageStream, NEW s \in PageStreams, P!Built(s)
  PROVE  PageStreamTypes' /\ OnePageStream' /\ UNCHANGED <<pageConnected, pagePhase, pageOvertaken>>
<1> DEFINE c == PageOwner[s]
<1>1. /\ c \in Loads /\ pageStream[s] = "building"
      /\ pageStream' = [pageStream EXCEPT ![s] = "open"]
      /\ pageRequest' = [pageRequest EXCEPT ![c] = s]
      /\ UNCHANGED <<pagePhase, pageConnected, pageKeepalive, pageReconnection, pageStray, pageOvertaken>>
  BY DEF P!Built, P!timers
<1>2. PageStreamTypes'
  BY <1>1 DEF PageStreamTypes
<1>3. \A t \in PageStreams : (pageStream'[t] = "idle" <=> pageStream[t] = "idle") /\ (t # s => pageStream'[t] = pageStream[t])
  BY <1>1 DEF PageStreamTypes
<1>4. \A k \in Loads : IdleStreams(k)' <=> IdleStreams(k)
  BY <1>3 DEF IdleStreams
<1>5. OnePageStream'
  <2>1. \A t, v \in PageStreams :
          PageOwner[t] = PageOwner[v] /\ pageStream'[t] # "idle" /\ pageStream'[v] # "idle" => t = v
    BY <1>3 DEF OnePageStream
  <2>2. \A t \in PageStreams : pageStream'[t] = "open" => pageRequest'[PageOwner[t]] = t
    <3> SUFFICES ASSUME NEW t \in PageStreams, pageStream'[t] = "open" PROVE pageRequest'[PageOwner[t]] = t
      OBVIOUS
    <3>1. CASE t = s
      BY <1>1, <3>1 DEF PageStreamTypes
    <3>2. CASE t # s
      <4>1. pageStream[t] = "open"
        BY <1>3, <3>2
      <4>2. PageOwner[t] # c /\ PageOwner[t] \in Loads
        BY <1>1, <3>2, <4>1 DEF OnePageStream
      <4>3. pageRequest[PageOwner[t]] = t
        BY <4>1 DEF OnePageStream
      <4> QED
        BY <1>1, <4>2, <4>3 DEF PageStreamTypes
    <3> QED
      BY <3>1, <3>2
  <2>3. \A k \in Loads : pageRequest'[k] # NoStream => PageOwner[pageRequest'[k]] = k
    BY <1>1 DEF OnePageStream, PageStreamTypes
  <2> QED
    BY <1>1, <1>4, <2>1, <2>2, <2>3 DEF OnePageStream
<1> QED
  BY <1>1, <1>2, <1>5

LEMMA PageUpdates ==
  ASSUME PageStreamTypes, OnePageStream, NEW s \in PageStreams, P!HandleUpdate(s)
  PROVE  /\ PageStreamTypes' /\ OnePageStream' /\ UNCHANGED <<pagePhase, pageOvertaken>>
         /\ pageConnected' = [pageConnected EXCEPT ![PageOwner[s]] = TRUE]
         /\ pagePhase[PageOwner[s]] = "running"
<1> DEFINE c == PageOwner[s]
<1>1. /\ c \in Loads /\ pageStream[s] = "open"
      /\ pageConnected' = [pageConnected EXCEPT ![c] = TRUE]
      /\ pageKeepalive' = [pageKeepalive EXCEPT ![c] = TRUE]
      /\ UNCHANGED <<pagePhase, pageStream, pageRequest, pageReconnection, pageStray, pageOvertaken>>
  BY DEF P!HandleUpdate
<1>2. pagePhase[c] = "running"
  BY <1>1 DEF OnePageStream, IdleStreams
<1>3. PageStreamTypes'
  BY <1>1 DEF PageStreamTypes
<1>4. \A k \in Loads : IdleStreams(k)' <=> IdleStreams(k)
  BY <1>1 DEF IdleStreams
<1>5. \A k \in Loads : k # c => pageKeepalive'[k] = pageKeepalive[k]
  BY <1>1 DEF PageStreamTypes
<1>6. OnePageStream'
  BY <1>1, <1>2, <1>4, <1>5 DEF OnePageStream
<1> QED
  BY <1>1, <1>2, <1>3, <1>6

LEMMA PageCloses ==
  ASSUME PageStreamTypes, OnePageStream, NEW s \in PageStreams, P!HandleClose(s)
  PROVE  /\ PageStreamTypes' /\ OnePageStream' /\ UNCHANGED <<pagePhase, pageOvertaken>>
         /\ pageConnected' = [pageConnected EXCEPT ![PageOwner[s]] = FALSE]
         /\ pagePhase[PageOwner[s]] = "running"
<1> DEFINE c == PageOwner[s]
<1>1. /\ c \in Loads /\ pageStream[s] = "open"
      /\ pageStream' = [pageStream EXCEPT ![s] = "idle"]
      /\ pageRequest' = [pageRequest EXCEPT ![c] = NoStream]
      /\ pageConnected' = [pageConnected EXCEPT ![c] = FALSE]
      /\ pageReconnection' = [pageReconnection EXCEPT ![c] = TRUE]
      /\ pageStray' = [pageStray EXCEPT ![c] = IF pageReconnection[c] THEN @ + 1 ELSE @]
      /\ UNCHANGED <<pagePhase, pageKeepalive, pageOvertaken>>
  BY DEF P!HandleClose
<1>2. pagePhase[c] = "running" /\ ~pageReconnection[c]
  BY <1>1 DEF OnePageStream, IdleStreams
<1>3. pageStray' = pageStray
  <2>1. pageStray' = [pageStray EXCEPT ![c] = @]
    BY <1>1, <1>2
  <2>2. pageStray \in [Loads -> Nat]
    BY DEF PageStreamTypes
  <2> HIDE DEF c
  <2> QED
    BY <2>1, <2>2
<1>4. PageStreamTypes'
  <2>1. /\ pageStream' \in [PageStreams -> {"idle", "building", "open"}]
        /\ pageRequest' \in [Loads -> PageStreams \cup {NoStream}]
    BY <1>1 DEF PageStreamTypes
  <2>2. pageConnected' \in [Loads -> BOOLEAN] /\ pageReconnection' \in [Loads -> BOOLEAN]
    BY <1>1 DEF PageStreamTypes
  <2>3. UNCHANGED <<pagePhase, pageKeepalive, pageStray>>
    BY <1>1, <1>3
  <2> QED
    BY <2>1, <2>2, <2>3 DEF PageStreamTypes
<1>5. \A t \in PageStreams : pageStream'[t] # "idle" => pageStream'[t] = pageStream[t] /\ PageOwner[t] # c
  <2> SUFFICES ASSUME NEW t \in PageStreams, pageStream'[t] # "idle"
               PROVE  pageStream'[t] = pageStream[t] /\ PageOwner[t] # c
    OBVIOUS
  <2>1. t # s /\ pageStream'[t] = pageStream[t]
    BY <1>1 DEF PageStreamTypes
  <2> QED
    BY <1>1, <2>1 DEF OnePageStream
<1>6. \A k \in Loads : (IdleStreams(k) => IdleStreams(k)') /\ IdleStreams(c)'
  BY <1>5 DEF IdleStreams
<1>7. OnePageStream'
  <2>1. \A t, v \in PageStreams :
          PageOwner[t] = PageOwner[v] /\ pageStream'[t] # "idle" /\ pageStream'[v] # "idle" => t = v
    BY <1>5 DEF OnePageStream
  <2>2. \A t \in PageStreams : pageStream'[t] = "open" => pageRequest'[PageOwner[t]] = t
    <3> SUFFICES ASSUME NEW t \in PageStreams, pageStream'[t] = "open" PROVE pageRequest'[PageOwner[t]] = t
      OBVIOUS
    <3>1. PageOwner[t] # c /\ PageOwner[t] \in Loads /\ pageStream[t] = "open"
      BY <1>5
    <3>2. pageRequest[PageOwner[t]] = t
      BY <3>1 DEF OnePageStream
    <3> QED
      BY <1>1, <3>1, <3>2 DEF PageStreamTypes
  <2>3. \A k \in Loads : pageRequest'[k] # NoStream => PageOwner[pageRequest'[k]] = k
    BY <1>1 DEF OnePageStream, PageStreamTypes
  <2>4. ASSUME NEW k \in Loads
        PROVE  /\ pageReconnection'[k] => IdleStreams(k)'
               /\ pageStray'[k] = 0
               /\ pagePhase'[k] # "running" => IdleStreams(k)' /\ ~pageKeepalive'[k] /\ ~pageReconnection'[k]
    <3>1. CASE k = c
      BY <1>1, <1>2, <1>3, <1>6, <3>1 DEF OnePageStream
    <3>2. CASE k # c
      <4>1. pageReconnection'[k] = pageReconnection[k] /\ pageKeepalive'[k] = pageKeepalive[k]
        BY <1>1, <3>2 DEF PageStreamTypes
      <4> QED
        BY <1>1, <1>3, <1>6, <4>1 DEF OnePageStream
    <3> QED
      BY <3>1, <3>2
  <2> QED
    BY <2>1, <2>2, <2>3, <2>4 DEF OnePageStream
<1> QED
  BY <1>1, <1>2, <1>4, <1>7

\* The news of whether the stream is there is the last message to the child.
LEMMA StatusIsNews ==
  ASSUME Loading, News, NEW up \in BOOLEAN, P!StatusChanged(up),
         UNCHANGED <<handler, peer, ready, resolved>>, peer # 0 => ready
  PROVE  News' /\ had' = up
<1>1. had' = up /\ posted' = IF up = had THEN posted ELSE Append(posted, [to |-> connection, up |-> up])
  BY DEF P!StatusChanged
<1>2. CASE up = had
  <2>1. posted' = posted /\ had' = had
    BY <1>1, <1>2
  <2> QED
    BY <1>1, <2>1 DEF News, Knows
<1>3. CASE up # had
  <2> DEFINE m == [to |-> connection, up |-> up]
             n == Len(posted)
  <2>1. posted \in Seq([to : Loads \cup {0}, up : BOOLEAN]) /\ m \in [to : Loads \cup {0}, up : BOOLEAN]
    BY DEF News, Loading
  <2>2. m.to = connection /\ m.up = up
    OBVIOUS
  <2> HIDE DEF m
  <2>3. /\ posted' = Append(posted, m) /\ posted' \in Seq([to : Loads \cup {0}, up : BOOLEAN])
        /\ n \in Nat /\ DOMAIN posted = 1..n /\ DOMAIN posted' = 1..(n + 1) /\ Len(posted') = n + 1
        /\ \A i \in 1..n : posted'[i] = posted[i]
        /\ posted'[n + 1] = m
    <3>1. posted' = Append(posted, m)
      BY <1>1, <1>3 DEF m
    <3> QED
      BY <2>1, <3>1, AppendProperties, LenProperties
  <2> HIDE DEF n
  <2>4. \A i \in DOMAIN posted' : posted'[i].to # 0 => handler'[posted'[i].to] \in {"waiting", "consuming"}
    <3> SUFFICES ASSUME NEW i \in 1..(n + 1), posted'[i].to # 0
                 PROVE  handler'[posted'[i].to] \in {"waiting", "consuming"}
      BY <2>3
    <3>1. CASE i = n + 1
      BY <2>2, <2>3, <3>1 DEF Loading
    <3>2. CASE i # n + 1
      <4>1. i \in 1..n
        BY <2>3, <3>2
      <4>2. i \in DOMAIN posted /\ posted'[i] = posted[i]
        BY <2>3, <4>1
      <4> QED
        BY <4>2 DEF News
    <3> QED
      BY <3>1, <3>2
  <2>5. ASSUME peer # 0
        PROVE  /\ \A i, j \in DOMAIN posted' : posted'[i].to = peer /\ i < j => posted'[j].to = peer
               /\ \A i \in DOMAIN posted' : posted'[i].to = peer => ready /\ posted'[i].up # Knows(i - 1)'
               /\ had' = Knows(Len(posted))'
    <3>1. m.to = peer
      BY <2>2, <2>5 DEF Loading
    <3>2. \A i \in 0..n : Knows(i)' = Knows(i)
      <4> SUFFICES ASSUME NEW i \in 0..n PROVE Knows(i)' = Knows(i)
        OBVIOUS
      <4>1. i \in 1..n <=> i \in 1..(n + 1)
        BY <2>3
      <4> QED
        BY <2>3, <4>1 DEF Knows
    <3>3. had = Knows(n)
      BY <2>5 DEF News, n
    <3>4. ASSUME NEW i \in 1..(n + 1), NEW j \in 1..(n + 1), posted'[i].to = peer, i < j
          PROVE  posted'[j].to = peer
      <4>1. i \in 1..n
        BY <2>3, <3>4
      <4>2. CASE j = n + 1
        BY <2>3, <3>1, <4>2
      <4>3. CASE j # n + 1
        <5>1. j \in 1..n
          BY <2>3, <4>3
        <5> QED
          BY <2>3, <2>5, <3>4, <4>1, <5>1 DEF News
      <4> QED
        BY <4>2, <4>3
    <3>5. ASSUME NEW i \in 1..(n + 1), posted'[i].to = peer
          PROVE  ready /\ posted'[i].up # Knows(i - 1)'
      <4>1. i - 1 \in 0..n
        BY <2>3
      <4>2. Knows(i - 1)' = Knows(i - 1)
        BY <3>2, <4>1
      <4>3. CASE i = n + 1
        <5>1. i - 1 = n
          BY <2>3, <4>3
        <5> QED
          BY <1>3, <2>2, <2>3, <2>5, <3>3, <4>2, <4>3, <5>1
      <4>4. CASE i # n + 1
        <5>1. i \in 1..n
          BY <2>3, <4>4
        <5> QED
          BY <2>3, <2>5, <3>5, <4>2, <5>1 DEF News
      <4> QED
        BY <4>3, <4>4
    <3>6. Knows(Len(posted))' = up
      <4>1. n + 1 \in DOMAIN posted'
        BY <2>3
      <4> QED
        BY <2>2, <2>3, <3>1, <4>1 DEF Knows
    <3> QED
      BY <1>1, <2>3, <3>4, <3>5, <3>6
  <2> QED
    BY <1>1, <2>3, <2>4, <2>5 DEF News
<1> QED
  BY <1>2, <1>3

\* The child that there is listens, if the page has a controller.
LEMMA ControllerListens == ASSUME Loading, controller # 0, peer # 0 PROVE ready /\ peer = controller
  BY DEF Loading

\* A message is delivered: what the child knows is what the first one said.
LEMMA DeliveredIsNews ==
  ASSUME Loading, News, CallWaits, P!Delivered
  PROVE  News' /\ CallWaits' /\ (~ready => ~resolved')
<1> DEFINE n == Len(posted)
<1>1. /\ posted \in Seq([to : Loads \cup {0}, up : BOOLEAN]) /\ posted # <<>>
      /\ posted' = Tail(posted)
      /\ UNCHANGED <<handler, peer, ready, had, connection>>
  BY DEF P!Delivered, News
<1>2. /\ n \in Nat /\ n > 0 /\ DOMAIN posted = 1..n
      /\ Len(posted') = n - 1 /\ DOMAIN posted' = 1..(n - 1)
      /\ posted' \in Seq([to : Loads \cup {0}, up : BOOLEAN])
      /\ \A i \in 1..(n - 1) : posted'[i] = posted[i + 1]
      /\ Head(posted) = posted[1]
  BY <1>1, HeadTailProperties, EmptySeq, LenProperties
<1> HIDE DEF n
<1>3. 1 \in DOMAIN posted /\ 0 \notin DOMAIN posted /\ 0 \notin DOMAIN posted'
  BY <1>2
<1>4. posted[1].up \in BOOLEAN
  BY <1>3, PostedTo
<1>5. posted[1].up \in BOOLEAN /\ resolved \in BOOLEAN
  BY <1>4 DEF Loading
<1>6. \A i \in DOMAIN posted' : posted'[i].to # 0 => handler'[posted'[i].to] \in {"waiting", "consuming"}
  <2> SUFFICES ASSUME NEW i \in 1..(n - 1), posted'[i].to # 0
               PROVE  handler'[posted'[i].to] \in {"waiting", "consuming"}
    BY <1>2
  <2>1. i + 1 \in DOMAIN posted /\ posted'[i] = posted[i + 1]
    BY <1>2
  <2> QED
    BY <1>1, <2>1 DEF News
<1>7. ASSUME peer # 0, \A i \in 0..(n - 1) : Knows(i)' = Knows(i + 1)
      PROVE  News'
  <2>1. ASSUME NEW i \in 1..(n - 1), NEW j \in 1..(n - 1), posted'[i].to = peer, i < j
        PROVE  posted'[j].to = peer
    <3>1. i + 1 \in DOMAIN posted /\ j + 1 \in DOMAIN posted /\ i + 1 < j + 1
      BY <1>2, <2>1
    <3>2. posted[i + 1].to = peer
      BY <1>2, <2>1
    <3>3. posted[j + 1].to = peer
      BY <1>7, <3>1, <3>2 DEF News
    <3> QED
      BY <1>2, <3>3
  <2>2. ASSUME NEW i \in 1..(n - 1), posted'[i].to = peer
        PROVE  ready /\ posted'[i].up # Knows(i - 1)'
    <3>1. i + 1 \in DOMAIN posted /\ i - 1 \in 0..(n - 1) /\ (i + 1) - 1 = i /\ (i - 1) + 1 = i
      BY <1>2
    <3>2. posted[i + 1].to = peer /\ posted'[i] = posted[i + 1]
      BY <1>2, <2>2
    <3>3. ready /\ posted[i + 1].up # Knows((i + 1) - 1)
      BY <1>7, <3>1, <3>2 DEF News
    <3>4. Knows(i - 1)' = Knows((i - 1) + 1)
      BY <1>7, <3>1
    <3> QED
      BY <3>1, <3>2, <3>3, <3>4
  <2>3. had' = Knows(Len(posted))'
    <3>1. had = Knows(n)
      BY <1>7 DEF News, n
    <3>2. PICK m \in 0..(n - 1) : m = n - 1 /\ m + 1 = n
      BY <1>2
    <3>3. Knows(m)' = Knows(m + 1)
      BY <1>7
    <3>4. Knows(Len(posted))' = Knows(m)'
      BY <1>2, <3>2 DEF Knows
    <3> QED
      BY <1>1, <3>1, <3>2, <3>3, <3>4
  <2> QED
    BY <1>1, <1>2, <1>6, <2>1, <2>2, <2>3 DEF News
<1>8. CASE posted[1].to = peer /\ ready
  <2>1. peer # 0
    BY <1>8 DEF Loading
  <2>2. posted[1].up # Knows(1 - 1)
    BY <1>3, <1>8, <2>1 DEF News
  <2>3. Knows(1 - 1) = resolved
    BY <1>3 DEF Knows
  <2>4. P!Hears(posted[1].up)
    BY <1>2, <1>8 DEF P!Delivered
  <2>5. resolved' = posted[1].up
    BY <2>4 DEF P!Hears
  <2>6. CallWaits'
    <3>1. CASE pageCall = "waiting"
      <4>1. posted[1].up = TRUE
        BY <1>5, <2>2, <2>3, <3>1 DEF CallWaits
      <4>2. pageCall' = "none"
        BY <2>4, <3>1, <4>1 DEF P!Hears
      <4> QED
        BY <4>2 DEF CallWaits
    <3>2. CASE pageCall = "none"
      <4>1. pageCall' = "none"
        BY <2>4, <3>2 DEF P!Hears
      <4> QED
        BY <4>1 DEF CallWaits
    <3> QED
      BY <3>1, <3>2 DEF CallWaits
  <2>7. ASSUME NEW i \in 0..(n - 1) PROVE Knows(i)' = Knows(i + 1)
    <3>1. i + 1 \in DOMAIN posted
      BY <1>2
    <3>2. posted[i + 1].to = peer
      <4>1. CASE i = 0
        BY <1>8, <4>1
      <4>2. CASE i # 0
        <5>1. 1 < i + 1
          BY <1>2, <4>2
        <5> QED
          BY <1>3, <1>8, <2>1, <3>1, <5>1 DEF News
      <4> QED
        BY <4>1, <4>2
    <3>3. Knows(i + 1) = posted[i + 1].up
      BY <3>1, <3>2 DEF Knows
    <3>4. CASE i = 0
      <4>1. Knows(i)' = resolved'
        BY <1>3, <3>4 DEF Knows
      <4> QED
        BY <2>5, <3>3, <3>4, <4>1
    <3>5. CASE i # 0
      <4>1. i \in 1..(n - 1)
        BY <1>2, <3>5
      <4>2. i \in DOMAIN posted' /\ posted'[i] = posted[i + 1]
        BY <1>2, <4>1
      <4> QED
        BY <1>1, <3>2, <3>3, <4>2 DEF Knows
    <3> QED
      BY <3>4, <3>5
  <2> QED
    BY <1>7, <1>8, <2>1, <2>6, <2>7
<1>9. CASE ~(posted[1].to = peer /\ ready)
  <2>1. UNCHANGED <<resolved, pageCall>>
    BY <1>2, <1>9 DEF P!Delivered
  <2>2. CallWaits' /\ (~ready => ~resolved')
    BY <1>1, <2>1 DEF CallWaits, Loading
  <2>3. CASE peer = 0
    BY <1>1, <1>2, <1>6, <2>2, <2>3 DEF News
  <2>4. CASE peer # 0
    <3>1. posted[1].to # peer
      BY <1>3, <1>9, <2>4 DEF News
    <3>2. ASSUME NEW i \in 0..(n - 1) PROVE Knows(i)' = Knows(i + 1)
      <4>1. CASE i = 0
        <5>1. Knows(i)' = resolved'
          BY <1>3, <4>1 DEF Knows
        <5>2. Knows(i + 1) = resolved
          BY <3>1, <4>1 DEF Knows
        <5> QED
          BY <2>1, <5>1, <5>2
      <4>2. CASE i # 0
        <5>1. i \in 1..(n - 1)
          BY <1>2, <4>2
        <5>2. i \in DOMAIN posted' /\ i + 1 \in DOMAIN posted /\ posted'[i] = posted[i + 1]
          BY <1>2, <5>1
        <5> QED
          BY <1>1, <2>1, <5>2 DEF Knows
      <4> QED
        BY <4>1, <4>2
    <3> QED
      BY <1>7, <2>2, <2>4, <3>2
  <2> QED
    BY <2>3, <2>4
<1> QED
  BY <1>8, <1>9

\* A child that is not there has nothing to be told.
LEMMA NoChildNews ==
  ASSUME Loading, News, NEW up \in BOOLEAN, peer' = 0,
         posted' \in {posted, Append(posted, [to |-> connection, up |-> up])},
         \A k \in Loads : handler[k] \in {"waiting", "consuming"} => handler'[k] = handler[k]
  PROVE  News'
<1> DEFINE m == [to |-> connection, up |-> up]
           n == Len(posted)
<1>1. posted \in Seq([to : Loads \cup {0}, up : BOOLEAN]) /\ m \in [to : Loads \cup {0}, up : BOOLEAN]
  BY DEF News, Loading
<1>2. m.to = connection
  OBVIOUS
<1>3. posted' = posted \/ posted' = Append(posted, m)
  OBVIOUS
<1> HIDE DEF m
<1>4. \A i \in DOMAIN posted : posted[i].to \in Loads \cup {0}
  BY PostedTo
<1>5. \A i \in DOMAIN posted : posted[i].to # 0 => handler'[posted[i].to] \in {"waiting", "consuming"}
  BY <1>4 DEF News
<1>6. connection # 0 => handler'[connection] \in {"waiting", "consuming"}
  BY DEF Loading
<1>7. CASE posted' = posted
  BY <1>1, <1>5, <1>7 DEF News
<1>8. CASE posted' = Append(posted, m)
  <2>1. /\ posted' \in Seq([to : Loads \cup {0}, up : BOOLEAN])
        /\ n \in Nat /\ DOMAIN posted = 1..n /\ DOMAIN posted' = 1..(n + 1)
        /\ \A i \in 1..n : posted'[i] = posted[i]
        /\ posted'[n + 1] = m
    BY <1>1, <1>8, AppendProperties, LenProperties
  <2> HIDE DEF n
  <2>2. \A i \in DOMAIN posted' : posted'[i].to # 0 => handler'[posted'[i].to] \in {"waiting", "consuming"}
    <3> SUFFICES ASSUME NEW i \in 1..(n + 1), posted'[i].to # 0
                 PROVE  handler'[posted'[i].to] \in {"waiting", "consuming"}
      BY <2>1
    <3>1. CASE i = n + 1
      BY <1>2, <1>6, <2>1, <3>1
    <3>2. CASE i # n + 1
      <4>1. i \in 1..n
        BY <2>1, <3>2
      <4> QED
        BY <1>5, <2>1, <4>1
    <3> QED
      BY <3>1, <3>2
  <2> QED
    BY <2>1, <2>2 DEF News
<1> QED
  BY <1>3, <1>7, <1>8

LEMMA IframeLoadedTells ==
  ASSUME pageOvertaken \in [Loads -> BOOLEAN], Telling, NoneOvertaken', P!IframeLoaded
  PROVE  Telling'
<1> USE DEF Telling
<1>1. /\ ~gone /\ load + 1 \in Loads
      /\ load' = load + 1 /\ handler' = [handler EXCEPT ![load + 1] = "handshaking"]
      /\ controller' = 0 /\ UNCHANGED <<connection, gone>>
      /\ peer' = 0 /\ ready' = FALSE /\ resolved' = FALSE /\ pageCall' = "none"
  BY DEF P!IframeLoaded, P!NewChild
<1>2. handler[load + 1] = "none"
  BY <1>1 DEF Loading
<1>3. \A k \in Loads : k # load + 1 => handler'[k] = handler[k]
  BY <1>1 DEF Loading
<1>4. /\ PageStreamTypes' /\ OnePageStream' /\ had' = FALSE
      /\ posted' \in {posted, Append(posted, [to |-> connection, up |-> FALSE])}
      /\ \A k \in Loads : pagePhase'[k] # "running"
  <2>1. CASE controller = 0
    <3>1. UNCHANGED <<P!streamVars, had, posted>>
      BY <2>1 DEF P!IframeLoaded
    <3>2. UNCHANGED <<pagePhase, pageStream, pageRequest, pageConnected, pageKeepalive,
                      pageReconnection, pageStray>>
      BY <3>1 DEF P!streamVars, P!timers
    <3>3. had = FALSE /\ \A k \in Loads : pagePhase[k] # "running"
      BY <2>1, PageAssumption DEF OnlyController
    <3>4. PageStreamTypes'
      BY <3>2 DEF PageStreamTypes
    <3>5. OnePageStream'
      BY <3>2 DEF OnePageStream, IdleStreams
    <3> QED
      BY <3>1, <3>2, <3>3, <3>4, <3>5
  <2>2. CASE controller # 0
    <3>1. controller \in Loads /\ P!Stop(controller) /\ P!Reset
      BY <2>2 DEF P!IframeLoaded, Loading
    <3>2. /\ PageStreamTypes' /\ OnePageStream'
          /\ pagePhase' = [pagePhase EXCEPT ![controller] = "stopped"]
      BY <3>1, PageStops DEF NoneOvertaken
    <3>3. \A k \in Loads : pagePhase'[k] # "running"
      BY <3>1, <3>2 DEF OnlyController, PageStreamTypes
    <3>4. had' = FALSE /\ posted' \in {posted, Append(posted, [to |-> connection, up |-> FALSE])}
      BY <3>1 DEF P!Reset
    <3> QED
      BY <3>2, <3>3, <3>4
  <2> QED
    BY <2>1, <2>2
<1>5. Loading'
  <2>1. handler' \in [Loads -> {"none", "handshaking", "waiting", "consuming"}]
    BY <1>1 DEF Loading
  <2>2. \A k \in Loads : k > load' => handler'[k] = "none"
    BY <1>1, <1>3 DEF Loading
  <2>3. connection' # 0 => handler'[connection'] \in {"waiting", "consuming"}
    BY <1>1, <1>2, <1>3 DEF Loading
  <2> QED
    BY <1>1, <1>4, <2>1, <2>2, <2>3 DEF Loading
<1>6. OnlyController'
  BY <1>1, <1>4 DEF OnlyController
<1>7. News'
  <2>1. \A k \in Loads : handler[k] \in {"waiting", "consuming"} => handler'[k] = handler[k]
    BY <1>2, <1>3
  <2> QED
    BY <1>1, <1>4, <2>1, NoChildNews
<1>8. CallWaits'
  BY <1>1 DEF CallWaits
<1> QED
  BY <1>4, <1>5, <1>6, <1>7, <1>8

LEMMA LeaveTells ==
  ASSUME pageOvertaken \in [Loads -> BOOLEAN], Telling, NoneOvertaken', P!Leave
  PROVE  Telling'
<1> USE DEF Telling
<1>1. /\ gone' = TRUE
      /\ UNCHANGED <<load, handler, connection, controller>>
      /\ peer' = 0 /\ ready' = FALSE /\ resolved' = FALSE /\ pageCall' = "none"
  BY DEF P!Leave, P!NewChild
<1>2. /\ PageStreamTypes' /\ OnePageStream' /\ had' = FALSE
      /\ posted' \in {posted, Append(posted, [to |-> connection, up |-> FALSE])}
      /\ \A k \in Loads : pagePhase'[k] # "running"
      /\ controller # 0 => ~pageConnected'[controller]
  <2>1. CASE controller = 0
    <3>1. UNCHANGED <<P!streamVars, had, posted>>
      BY <2>1 DEF P!Leave
    <3>2. UNCHANGED <<pagePhase, pageStream, pageRequest, pageConnected, pageKeepalive,
                      pageReconnection, pageStray>>
      BY <3>1 DEF P!streamVars, P!timers
    <3>3. had = FALSE /\ \A k \in Loads : pagePhase[k] # "running"
      BY <2>1, PageAssumption DEF OnlyController
    <3>4. PageStreamTypes'
      BY <3>2 DEF PageStreamTypes
    <3>5. OnePageStream'
      BY <3>2 DEF OnePageStream, IdleStreams
    <3> QED
      BY <2>1, <3>1, <3>2, <3>3, <3>4, <3>5
  <2>2. CASE controller # 0
    <3>1. controller \in Loads /\ P!Stop(controller) /\ P!StatusDropped(controller)
      BY <2>2 DEF P!Leave, Loading
    <3>2. /\ PageStreamTypes' /\ OnePageStream'
          /\ pagePhase' = [pagePhase EXCEPT ![controller] = "stopped"]
          /\ pageConnected' = [pageConnected EXCEPT ![controller] = FALSE]
      BY <3>1, PageStops DEF NoneOvertaken
    <3>3. \A k \in Loads : pagePhase'[k] # "running"
      BY <3>1, <3>2 DEF OnlyController, PageStreamTypes
    <3>4. ~pageConnected'[controller]
      BY <3>1, <3>2 DEF PageStreamTypes
    <3>5. had' = FALSE /\ posted' \in {posted, Append(posted, [to |-> connection, up |-> FALSE])}
      BY <2>2, <3>1 DEF P!StatusDropped, P!StatusChanged, OnlyController
    <3> QED
      BY <3>2, <3>3, <3>4, <3>5
  <2> QED
    BY <2>1, <2>2
<1>3. Loading'
  BY <1>1, <1>2 DEF Loading
<1>4. OnlyController'
  BY <1>1, <1>2 DEF OnlyController
<1>5. News'
  BY <1>1, <1>2, NoChildNews
<1>6. CallWaits'
  BY <1>1 DEF CallWaits
<1> QED
  BY <1>2, <1>3, <1>4, <1>5, <1>6

LEMMA HandshakeTells ==
  ASSUME Telling, NEW k \in Loads, P!Handshake(k)
  PROVE  Telling'
<1> USE DEF Telling
<1>1. /\ ~gone /\ handler[k] = "handshaking" /\ peer = 0
      /\ handler' = [handler EXCEPT ![k] = "waiting"] /\ connection' = k /\ peer' = k
      /\ UNCHANGED <<load, controller, had, posted, gone, ready, resolved, pageCall>>
      /\ UNCHANGED <<pagePhase, pageStream, pageRequest, pageConnected, pageKeepalive,
                     pageReconnection, pageStray>>
  BY DEF P!Handshake, P!streamVars, P!timers
<1>2. controller = 0 /\ ~ready /\ ~resolved /\ k # 0 /\ ~(k > load)
  BY <1>1, PageAssumption DEF Loading
<1>3. \A j \in Loads : j # k => handler'[j] = handler[j]
  BY <1>1 DEF Loading
<1>4. handler'[k] = "waiting"
  BY <1>1 DEF Loading
<1>5. PageStreamTypes'
  BY <1>1 DEF PageStreamTypes
<1>6. OnePageStream'
  BY <1>1 DEF OnePageStream, IdleStreams
<1>7. OnlyController'
  BY <1>1 DEF OnlyController
<1>8. CallWaits'
  BY <1>1 DEF CallWaits
<1>9. Loading'
  <2>1. handler' \in [Loads -> {"none", "handshaking", "waiting", "consuming"}]
    BY <1>1 DEF Loading
  <2>2. \A j \in Loads : j > load' => handler'[j] = "none"
    BY <1>1, <1>2, <1>3 DEF Loading
  <2> QED
    BY <1>1, <1>2, <1>4, <2>1, <2>2 DEF Loading
<1>10. News'
  <2>1. \A i \in DOMAIN posted : posted[i].to # k
    BY <1>1, <1>2 DEF News
  <2>2. \A i \in DOMAIN posted : posted[i].to # 0 => handler'[posted[i].to] \in {"waiting", "consuming"}
    <3> SUFFICES ASSUME NEW i \in DOMAIN posted, posted[i].to # 0
                 PROVE  handler'[posted[i].to] \in {"waiting", "consuming"}
      OBVIOUS
    <3>1. posted[i].to \in Loads /\ posted[i].to # k
      BY <2>1, PostedTo
    <3> QED
      BY <1>3, <3>1 DEF News
  <2>3. Knows(Len(posted))' = FALSE
    BY <1>1, <1>2, <2>1 DEF Knows, Loading
  <2>4. had' = FALSE
    BY <1>1, <1>2 DEF OnlyController
  <2> QED
    BY <1>1, <2>1, <2>2, <2>3, <2>4 DEF News
<1> QED
  BY <1>5, <1>6, <1>7, <1>8, <1>9, <1>10

LEMMA HandshookTells ==
  ASSUME pageOvertaken \in [Loads -> BOOLEAN], Telling, NoneOvertaken', NEW k \in Loads, P!Handshook(k)
  PROVE  Telling'
<1> USE DEF Telling
<1>1. /\ ~gone /\ handler[k] = "waiting" /\ peer = k /\ ready
      /\ handler' = [handler EXCEPT ![k] = "consuming"] /\ controller' = k
      /\ UNCHANGED <<load, connection, gone, peer, ready, resolved, pageCall>>
      /\ pagePhase' = [pagePhase EXCEPT ![k] = "running"]
      /\ P!MakeRequest(k) /\ pageStray' = pageStray
  BY DEF P!Handshook, P!childVars, P!Rebuild
<1>2. controller = 0 /\ k # 0 /\ ~(k > load)
  BY <1>1, PageAssumption DEF Loading
<1>3. \A j \in Loads : j # k => handler'[j] = handler[j]
  BY <1>1 DEF Loading
<1>4. handler'[k] = "consuming"
  BY <1>1 DEF Loading
<1>5. /\ PageStreamTypes' /\ OnePageStream'
      /\ pageConnected' = [pageConnected EXCEPT ![k] = FALSE]
  BY <1>1, PageRequests DEF NoneOvertaken
<1>6. had' = FALSE /\ posted' = posted
  <2>1. had = FALSE
    BY <1>2 DEF OnlyController
  <2> QED
    BY <2>1 DEF P!Handshook, P!StatusDropped, P!StatusChanged
<1>7. OnlyController'
  <2>1. \A j \in Loads : pagePhase[j] # "running"
    BY <1>2, PageAssumption DEF OnlyController
  <2>2. \A j \in Loads : pagePhase'[j] = "running" => j = k
    BY <1>1, <2>1 DEF PageStreamTypes
  <2>3. pageConnected'[k] = FALSE
    BY <1>5 DEF PageStreamTypes
  <2> QED
    BY <1>1, <1>6, <2>2, <2>3 DEF OnlyController
<1>8. CallWaits'
  BY <1>1 DEF CallWaits
<1>9. Loading'
  <2>1. handler' \in [Loads -> {"none", "handshaking", "waiting", "consuming"}]
    BY <1>1 DEF Loading
  <2>2. \A j \in Loads : j > load' => handler'[j] = "none"
    BY <1>1, <1>2, <1>3 DEF Loading
  <2>3. connection = k
    BY <1>1, <1>2 DEF Loading
  <2> QED
    BY <1>1, <1>2, <1>4, <1>6, <2>1, <2>2, <2>3 DEF Loading
<1>10. News'
  <2>1. had = FALSE
    BY <1>2 DEF OnlyController
  <2>2. \A j \in Loads : handler[j] \in {"waiting", "consuming"} => handler'[j] \in {"waiting", "consuming"}
    BY <1>3, <1>4
  <2>3. \A i \in DOMAIN posted : posted[i].to \in Loads \cup {0}
    BY PostedTo
  <2>4. \A i \in DOMAIN posted' : posted'[i].to # 0 => handler'[posted'[i].to] \in {"waiting", "consuming"}
    BY <1>6, <2>2, <2>3 DEF News
  <2> QED
    BY <1>1, <1>6, <2>1, <2>4 DEF News, Knows
<1> QED
  BY <1>5, <1>7, <1>8, <1>9, <1>10

\* What the page goes on to say when the stream of its controller comes or goes.
LEMMA StatusTells ==
  ASSUME Loading, OnlyController, News, CallWaits, PageStreamTypes, PageStreamTypes', OnePageStream',
         NEW k \in Loads, NEW up \in BOOLEAN,
         pagePhase[k] = "running", pagePhase' = pagePhase,
         pageConnected' = [pageConnected EXCEPT ![k] = up],
         P!StatusChanged(up) \/ (up = pageConnected[k] /\ UNCHANGED <<had, posted>>),
         UNCHANGED <<load, handler, connection, controller, gone, P!childVars>>
  PROVE  Telling'
<1>1. k = controller /\ controller # 0
  BY PageAssumption DEF OnlyController
<1>2. UNCHANGED <<load, handler, connection, controller, gone, peer, ready, resolved, pageCall>>
  BY DEF P!childVars
<1>3. peer # 0 => ready
  BY <1>1, ControllerListens
<1>4. News' /\ had' = up
  <2>1. CASE P!StatusChanged(up)
    BY <1>2, <1>3, <2>1, StatusIsNews
  <2>2. CASE up = pageConnected[k] /\ UNCHANGED <<had, posted>>
    <3>1. had = up
      BY <1>1, <2>2 DEF OnlyController
    <3> QED
      BY <1>2, <2>2, <3>1 DEF News, Knows
  <2> QED
    BY <2>1, <2>2
<1>5. OnlyController'
  <2>1. pageConnected'[controller'] = up
    BY <1>1, <1>2 DEF PageStreamTypes
  <2> QED
    BY <1>1, <1>2, <1>4, <2>1 DEF OnlyController
<1>6. Loading'
  BY <1>2, <1>4 DEF Loading
<1>7. CallWaits'
  BY <1>2 DEF CallWaits
<1> QED
  BY <1>4, <1>5, <1>6, <1>7 DEF Telling

LEMMA StreamRequestedTells ==
  ASSUME pageOvertaken \in [Loads -> BOOLEAN], Telling, NoneOvertaken',
         NEW k \in Loads, P!StreamRequested(k)
  PROVE  Telling'
<1> USE DEF Telling
<1>1. P!KeepaliveFires(k) \/ P!ReconnectionFires(k) \/ P!StrayFires(k)
  BY DEF P!StreamRequested
<1>2. pageStray[k] = 0
  BY DEF OnePageStream
<1>3. ~P!StrayFires(k)
  BY <1>2 DEF P!StrayFires
<1>4. /\ P!MakeRequest(k) /\ pagePhase' = pagePhase /\ pageStray' = pageStray
      /\ pageKeepalive[k] \/ pageReconnection[k]
  BY <1>1, <1>3 DEF P!KeepaliveFires, P!ReconnectionFires
<1>5. pagePhase[k] = "running"
  BY <1>4 DEF OnePageStream
<1>6. pagePhase' = [pagePhase EXCEPT ![k] = "running"]
  BY <1>4, <1>5 DEF PageStreamTypes
<1>7. /\ PageStreamTypes' /\ OnePageStream'
      /\ pageConnected' = [pageConnected EXCEPT ![k] = FALSE]
  BY <1>4, <1>6, PageRequests DEF NoneOvertaken
<1>8. P!StatusChanged(FALSE) \/ (FALSE = pageConnected[k] /\ UNCHANGED <<had, posted>>)
  <2>1. pageConnected[k] \in BOOLEAN
    BY DEF PageStreamTypes
  <2> QED
    BY <2>1 DEF P!StreamRequested, P!StatusDropped
<1>9. UNCHANGED <<load, handler, connection, controller, gone, P!childVars>>
  BY DEF P!StreamRequested
<1> QED
  BY <1>4, <1>5, <1>7, <1>8, <1>9, StatusTells

LEMMA StreamBuiltTells ==
  ASSUME Telling, NEW s \in PageStreams, P!StreamBuilt(s)
  PROVE  Telling'
<1> USE DEF Telling
<1>1. /\ PageStreamTypes' /\ OnePageStream' /\ UNCHANGED <<pageConnected, pagePhase, pageOvertaken>>
  BY PageBuilds DEF P!StreamBuilt
<1>2. UNCHANGED <<load, handler, connection, controller, had, posted, gone, peer, ready, resolved, pageCall>>
  BY DEF P!StreamBuilt, P!pageVars, P!childVars
<1>3. Loading' /\ CallWaits'
  BY <1>2 DEF Loading, CallWaits
<1>4. OnlyController'
  BY <1>1, <1>2 DEF OnlyController
<1>5. News'
  BY <1>2 DEF News, Knows
<1> QED
  BY <1>1, <1>3, <1>4, <1>5

LEMMA StreamUpdatedTells ==
  ASSUME Telling, NEW s \in PageStreams, P!StreamUpdated(s)
  PROVE  Telling'
<1> USE DEF Telling
<1>1. PageOwner[s] \in Loads
  BY PageAssumption
<1>2. /\ PageStreamTypes' /\ OnePageStream' /\ UNCHANGED <<pagePhase, pageOvertaken>>
      /\ pageConnected' = [pageConnected EXCEPT ![PageOwner[s]] = TRUE]
      /\ pagePhase[PageOwner[s]] = "running"
  BY PageUpdates DEF P!StreamUpdated
<1>3. P!StatusChanged(TRUE) \/ (TRUE = pageConnected[PageOwner[s]] /\ UNCHANGED <<had, posted>>)
  <2>1. pageConnected[PageOwner[s]] \in BOOLEAN
    BY <1>1 DEF PageStreamTypes
  <2> QED
    BY <2>1 DEF P!StreamUpdated
<1>4. UNCHANGED <<load, handler, connection, controller, gone, P!childVars>>
  BY DEF P!StreamUpdated
<1> QED
  BY <1>1, <1>2, <1>3, <1>4, StatusTells

LEMMA StreamClosedTells ==
  ASSUME Telling, NEW s \in PageStreams, P!StreamClosed(s)
  PROVE  Telling'
<1> USE DEF Telling
<1>1. PageOwner[s] \in Loads
  BY PageAssumption
<1>2. /\ PageStreamTypes' /\ OnePageStream' /\ UNCHANGED <<pagePhase, pageOvertaken>>
      /\ pageConnected' = [pageConnected EXCEPT ![PageOwner[s]] = FALSE]
      /\ pagePhase[PageOwner[s]] = "running"
  BY PageCloses DEF P!StreamClosed
<1>3. P!StatusChanged(FALSE)
  BY DEF P!StreamClosed
<1>4. UNCHANGED <<load, handler, connection, controller, gone, P!childVars>>
  BY DEF P!StreamClosed
<1> QED
  BY <1>1, <1>2, <1>3, <1>4, StatusTells

\* The child hears that it listens, hears a message, or calls the server.
LEMMA ChildTells ==
  ASSUME Telling, P!ChildReady \/ P!Delivered \/ P!Calls \/ UNCHANGED P!vars
  PROVE  Telling'
<1> USE DEF Telling
<1>1. UNCHANGED <<load, handler, connection, controller, had, gone, peer>>
  BY DEF P!ChildReady, P!Delivered, P!Calls, P!vars, P!pageVars, P!childVars
<1>2. UNCHANGED P!streamVars
  BY DEF P!ChildReady, P!Delivered, P!Calls, P!vars
<1>3. UNCHANGED <<pagePhase, pageStream, pageRequest, pageConnected, pageKeepalive,
                  pageReconnection, pageStray>>
  BY <1>2 DEF P!streamVars, P!timers
<1>4. PageStreamTypes'
  BY <1>3 DEF PageStreamTypes
<1>5. OnePageStream'
  BY <1>3 DEF OnePageStream, IdleStreams
<1>6. OnlyController'
  BY <1>1, <1>3 DEF OnlyController
<1>7. Loading' /\ News' /\ CallWaits'
  <2>1. CASE P!ChildReady
    <3>1. peer # 0 /\ ready' = TRUE /\ UNCHANGED <<posted, resolved, pageCall>>
      BY <2>1 DEF P!ChildReady, P!pageVars
    <3>2. Loading'
      BY <1>1, <3>1 DEF Loading
    <3>3. News'
      BY <1>1, <3>1 DEF News, Knows
    <3>4. CallWaits'
      BY <3>1 DEF CallWaits
    <3> QED
      BY <3>2, <3>3, <3>4
  <2>2. CASE P!Delivered
    <3>1. ready' = ready /\ resolved' \in BOOLEAN
      <4>1. posted \in Seq([to : Loads \cup {0}, up : BOOLEAN]) /\ posted # <<>>
        BY <2>2 DEF P!Delivered, News
      <4>2. Head(posted) \in [to : Loads \cup {0}, up : BOOLEAN]
        BY <4>1, HeadTailProperties
      <4>3. Head(posted).up \in BOOLEAN
        BY <4>2
      <4> QED
        BY <2>2, <4>3 DEF P!Delivered, P!Hears, Loading
    <3>2. News' /\ CallWaits' /\ (~ready => ~resolved')
      BY <2>2, DeliveredIsNews
    <3>3. Loading'
      BY <1>1, <3>1, <3>2 DEF Loading
    <3> QED
      BY <3>2, <3>3
  <2>3. CASE P!Calls
    <3>1. ready /\ ~resolved /\ pageCall' = "waiting" /\ UNCHANGED <<posted, ready, resolved>>
      BY <2>3 DEF P!Calls, P!pageVars
    <3>2. Loading'
      BY <1>1, <3>1 DEF Loading
    <3>3. News'
      BY <1>1, <3>1 DEF News, Knows
    <3>4. CallWaits'
      BY <3>1 DEF CallWaits
    <3> QED
      BY <3>2, <3>3, <3>4
  <2>4. CASE UNCHANGED P!vars
    <3>1. UNCHANGED <<posted, ready, resolved, pageCall>>
      BY <2>4 DEF P!vars, P!pageVars, P!childVars
    <3>2. Loading'
      BY <1>1, <3>1 DEF Loading
    <3>3. News'
      BY <1>1, <3>1 DEF News, Knows
    <3>4. CallWaits'
      BY <3>1 DEF CallWaits
    <3> QED
      BY <3>2, <3>3, <3>4
  <2> QED
    BY <2>1, <2>2, <2>3, <2>4
<1> QED
  BY <1>4, <1>5, <1>6, <1>7

\* Once a load overtook a request, it is known that it did.
LEMMA OvertakenStays ==
  ASSUME pageOvertaken \in [Loads -> BOOLEAN], [P!Next]_(P!vars)
  PROVE  pageOvertaken' \in [Loads -> BOOLEAN] /\ (NoneOvertaken' => NoneOvertaken)
<1>1. \/ UNCHANGED pageOvertaken
      \/ \E k \in Loads : pageOvertaken' = [pageOvertaken EXCEPT ![k] = @ \/ P!Building(k) # {}]
      \/ P!IframeLoaded /\ controller # 0 /\ P!Stop(controller)
      \/ P!Leave /\ controller # 0 /\ P!Stop(controller)
  <2>1. CASE P!IframeLoaded \/ P!Leave
    BY <2>1 DEF P!IframeLoaded, P!Leave, P!streamVars
  <2>2. ASSUME NEW k \in Loads, P!Handshook(k) \/ P!StreamRequested(k)
        PROVE  pageOvertaken' = [pageOvertaken EXCEPT ![k] = @ \/ P!Building(k) # {}]
    <3>1. P!MakeRequest(k)
      BY <2>2 DEF P!Handshook, P!StreamRequested, P!Rebuild, P!KeepaliveFires,
                  P!ReconnectionFires, P!StrayFires
    <3> QED
      BY <3>1 DEF P!MakeRequest, P!Disconnect
  <2>3. ASSUME NEW k \in Loads, P!Handshake(k) PROVE UNCHANGED pageOvertaken
    BY <2>3 DEF P!Handshake, P!streamVars
  <2>4. ASSUME NEW s \in PageStreams, P!StreamBuilt(s) \/ P!StreamUpdated(s) \/ P!StreamClosed(s)
        PROVE  UNCHANGED pageOvertaken
    BY <2>4 DEF P!StreamBuilt, P!StreamUpdated, P!StreamClosed, P!Built, P!HandleUpdate, P!HandleClose
  <2>5. CASE P!ChildReady \/ P!Delivered \/ P!Calls \/ UNCHANGED P!vars
    BY <2>5 DEF P!ChildReady, P!Delivered, P!Calls, P!vars, P!streamVars
  <2> QED
    BY <2>1, <2>2, <2>3, <2>4, <2>5 DEF P!Next
<1>2. ASSUME P!Stop(controller)
      PROVE  pageOvertaken' = [pageOvertaken EXCEPT ![controller] = @ \/ P!Building(controller) # {}]
  BY <1>2 DEF P!Stop, P!Disconnect
<1>3. PICK k : \/ UNCHANGED pageOvertaken
               \/ pageOvertaken' = [pageOvertaken EXCEPT ![k] = @ \/ P!Building(k) # {}]
  BY <1>1, <1>2
<1> QED
  BY <1>3 DEF NoneOvertaken

LEMMA PageInvInductive ==
  ASSUME PageInv, [P!Next]_(P!vars)
  PROVE  PageInv'
<1>1. pageOvertaken' \in [Loads -> BOOLEAN] /\ (NoneOvertaken' => NoneOvertaken)
  BY OvertakenStays DEF PageInv
<1> SUFFICES ASSUME NoneOvertaken' PROVE Telling'
  BY <1>1 DEF PageInv
<1>2. pageOvertaken \in [Loads -> BOOLEAN] /\ Telling
  BY <1>1 DEF PageInv
<1>3. CASE P!IframeLoaded
  BY <1>2, <1>3, IframeLoadedTells
<1>4. CASE P!Leave
  BY <1>2, <1>4, LeaveTells
<1>5. ASSUME NEW k \in Loads, P!Handshake(k) PROVE Telling'
  BY <1>2, <1>5, HandshakeTells
<1>6. ASSUME NEW k \in Loads, P!Handshook(k) PROVE Telling'
  BY <1>2, <1>6, HandshookTells
<1>7. ASSUME NEW k \in Loads, P!StreamRequested(k) PROVE Telling'
  BY <1>2, <1>7, StreamRequestedTells
<1>8. ASSUME NEW s \in PageStreams, P!StreamBuilt(s) PROVE Telling'
  BY <1>2, <1>8, StreamBuiltTells
<1>9. ASSUME NEW s \in PageStreams, P!StreamUpdated(s) PROVE Telling'
  BY <1>2, <1>9, StreamUpdatedTells
<1>10. ASSUME NEW s \in PageStreams, P!StreamClosed(s) PROVE Telling'
  BY <1>2, <1>10, StreamClosedTells
<1>11. CASE P!ChildReady \/ P!Delivered \/ P!Calls \/ UNCHANGED P!vars
  BY <1>2, <1>11, ChildTells
<1> QED
  BY <1>3, <1>4, <1>5, <1>6, <1>7, <1>8, <1>9, <1>10, <1>11 DEF P!Next

LEMMA PageInvInit == P!Init => PageInv
<1> SUFFICES ASSUME P!Init PROVE PageInv
  OBVIOUS
<1>1. /\ load = 0 /\ handler = [k \in Loads |-> "none"]
      /\ connection = 0 /\ controller = 0 /\ had = FALSE /\ posted = <<>>
      /\ peer = 0 /\ ready = FALSE /\ resolved = FALSE /\ pageCall = "none" /\ gone = FALSE
  BY DEF P!Init
<1>2. /\ pagePhase = [k \in Loads |-> "new"]
      /\ pageStream = [s \in PageStreams |-> "idle"]
      /\ pageRequest = [k \in Loads |-> NoStream]
      /\ pageConnected = [k \in Loads |-> TRUE]
      /\ pageKeepalive = [k \in Loads |-> FALSE]
      /\ pageReconnection = [k \in Loads |-> FALSE]
      /\ pageStray = [k \in Loads |-> 0]
      /\ pageOvertaken = [k \in Loads |-> FALSE]
  BY DEF P!Init, P!StreamInit
<1>3. PageStreamTypes
  BY <1>2 DEF PageStreamTypes
<1>4. OnePageStream
  BY <1>2 DEF OnePageStream, IdleStreams
<1>5. Loading
  BY <1>1 DEF Loading
<1>6. OnlyController
  BY <1>1, <1>2 DEF OnlyController
<1>7. News
  <2>1. posted \in Seq([to : Loads \cup {0}, up : BOOLEAN]) /\ DOMAIN posted = {}
    BY <1>1
  <2> QED
    BY <1>1, <2>1 DEF News
<1>8. CallWaits
  BY <1>1 DEF CallWaits
<1> QED
  BY <1>2, <1>3, <1>4, <1>5, <1>6, <1>7, <1>8 DEF PageInv, Telling

(* Unless a load overtook the request of an earlier one, the child of a     *)
(* load knows whether the stream of its controller is there, once it has   *)
(* what was posted to it, and no call of it waits for a promise that was   *)
(* replaced: whatever number of loads, of requests in flight and of        *)
(* messages under way (hadConnectedPreviously of ApplicationPage.svelte,   *)
(* serverConnectionPromise of main.ts).                                    *)
THEOREM ChildTold == P!Spec => []ChildIsTold
<1>1. PageInv => ChildIsTold
  <2> SUFFICES ASSUME PageInv, NoneOvertaken PROVE ChildIsTold
    BY DEF ChildIsTold, P!ChildIsTold, NoneOvertaken
  <2>1. Loading /\ OnlyController /\ News /\ CallWaits
    BY DEF PageInv, Telling
  <2>2. pageCall # "stranded"
    BY <2>1 DEF CallWaits
  <2>3. ASSUME NEW k \in Loads, peer = k, handler[k] = "consuming", posted = <<>>
        PROVE  resolved = pageConnected[k]
    <3>1. k # 0 /\ controller = k
      BY <2>1, <2>3, PageAssumption DEF Loading
    <3>2. had = pageConnected[k]
      <4>1. pageConnected[k] \in BOOLEAN
        BY DEF PageInv, Telling, PageStreamTypes
      <4> QED
        BY <2>1, <3>1, <4>1 DEF OnlyController
    <3>3. Knows(Len(posted)) = resolved
      BY <2>3 DEF Knows
    <3> QED
      BY <2>1, <2>3, <3>1, <3>2, <3>3 DEF News
  <2> QED
    BY <2>2, <2>3 DEF ChildIsTold, P!ChildIsTold
<1> QED
  BY <1>1, PageInvInit, PageInvInductive, PTL DEF P!Spec

-----------------------------------------------------------------------------
(* Types of the parts of the web client                                    *)

\* A request of a load, and what it changes, has the types.
LEMMA PageRequestTyped ==
  ASSUME P!StreamTypeOK, NEW c \in Loads, P!MakeRequest(c)
  PROVE  /\ pageStream' \in [PageStreams -> {"idle", "building", "open"}]
         /\ pageRequest' \in [Loads -> PageStreams \cup {NoStream}]
         /\ pageConnected' \in [Loads -> BOOLEAN]
         /\ pageKeepalive' \in [Loads -> BOOLEAN]
         /\ pageReconnection' \in [Loads -> BOOLEAN]
         /\ pageOvertaken' \in [Loads -> BOOLEAN]
<1>1. PICK s \in PageStreams : pageStream' = [P!Closed(c) EXCEPT ![s] = "building"]
  BY DEF P!MakeRequest
<1>2. P!Closed(c) \in [PageStreams -> {"idle", "building", "open"}]
  BY DEF P!Closed, P!StreamTypeOK
<1>3. P!Disconnect(c)
  BY DEF P!MakeRequest
<1>4. pageOvertaken' \in [Loads -> BOOLEAN]
  BY <1>3 DEF P!Disconnect, P!StreamTypeOK
<1> QED
  BY <1>1, <1>2, <1>3, <1>4 DEF P!Disconnect, P!ClearTimeouts, P!StreamTypeOK

LEMMA PageStopTyped ==
  ASSUME P!StreamTypeOK, NEW c \in Loads, P!Stop(c)
  PROVE  P!StreamTypeOK'
<1>1. P!Disconnect(c) /\ pageStream' = P!Closed(c) /\ pageStray' = pageStray
      /\ pagePhase' = [pagePhase EXCEPT ![c] = "stopped"]
  BY DEF P!Stop
<1>2. pageStream' \in [PageStreams -> {"idle", "building", "open"}]
  BY <1>1 DEF P!Closed, P!StreamTypeOK
<1>3. pageOvertaken' \in [Loads -> BOOLEAN]
  BY <1>1 DEF P!Disconnect, P!StreamTypeOK
<1>4. pagePhase' \in [Loads -> P!Phases]
  BY <1>1 DEF P!StreamTypeOK, P!Phases
<1> QED
  BY <1>1, <1>2, <1>3, <1>4 DEF P!Disconnect, P!ClearTimeouts, P!StreamTypeOK

LEMMA PageRebuildTyped ==
  ASSUME P!StreamTypeOK, NEW c \in Loads, P!Rebuild(c)
  PROVE  P!StreamTypeOK'
<1>1. P!MakeRequest(c) /\ pageStray' = pageStray /\ pagePhase' = [pagePhase EXCEPT ![c] = "running"]
  BY DEF P!Rebuild
<1>2. pagePhase' \in [Loads -> P!Phases]
  BY <1>1 DEF P!StreamTypeOK, P!Phases
<1> QED
  BY <1>1, <1>2, PageRequestTyped DEF P!StreamTypeOK

LEMMA PageFiresTyped ==
  ASSUME P!StreamTypeOK, NEW c \in Loads,
         P!KeepaliveFires(c) \/ P!ReconnectionFires(c) \/ P!StrayFires(c)
  PROVE  P!StreamTypeOK'
<1>1. P!MakeRequest(c) /\ pagePhase' = pagePhase
  BY DEF P!KeepaliveFires, P!ReconnectionFires, P!StrayFires
<1>2. pageStray' \in [Loads -> 0..MaxStray]
  BY StreamAssumption DEF P!KeepaliveFires, P!ReconnectionFires, P!StrayFires, P!StreamTypeOK
<1> QED
  BY <1>1, <1>2, PageRequestTyped DEF P!StreamTypeOK

LEMMA PageUpdatesTyped ==
  ASSUME P!StreamTypeOK, NEW s \in PageStreams, P!Built(s) \/ P!HandleUpdate(s) \/ P!HandleClose(s)
  PROVE  P!StreamTypeOK'
<1>0. PageOwner[s] \in Loads
  BY PageAssumption
<1>1. CASE P!Built(s)
  BY <1>0, <1>1 DEF P!Built, P!StreamTypeOK, P!timers
<1>2. CASE P!HandleUpdate(s)
  BY <1>0, <1>2 DEF P!HandleUpdate, P!StreamTypeOK
<1>3. CASE P!HandleClose(s)
  <2>1. pageStray' \in [Loads -> 0..MaxStray]
    <3> DEFINE o == PageOwner[s]
    <3>1. /\ pageReconnection[o] => pageStray[o] < MaxStray
          /\ pageStray' = [pageStray EXCEPT ![o] = IF pageReconnection[o] THEN @ + 1 ELSE @]
      BY <1>3 DEF P!HandleClose
    <3>2. pageStray \in [Loads -> 0..MaxStray] /\ pageStray[o] \in 0..MaxStray
      BY <1>0 DEF P!StreamTypeOK
    <3>3. (IF pageReconnection[o] THEN pageStray[o] + 1 ELSE pageStray[o]) \in 0..MaxStray
      BY <3>1, <3>2, StreamAssumption
    <3> HIDE DEF o
    <3> QED
      BY <3>1, <3>2, <3>3
  <2> QED
    BY <1>0, <1>3, <2>1 DEF P!HandleClose, P!StreamTypeOK
<1> QED
  BY <1>1, <1>2, <1>3

\* What the page and the child keep, apart from the streams.
PageDataTypes ==
  /\ {load, connection, controller, peer} \subseteq Loads \cup {0}
  /\ handler \in [Loads -> {"none", "handshaking", "waiting", "consuming"}]
  /\ had \in BOOLEAN /\ ready \in BOOLEAN /\ resolved \in BOOLEAN /\ gone \in BOOLEAN
  /\ posted \in Seq([to : Loads \cup {0}, up : BOOLEAN])
  /\ pageCall \in {"none", "waiting", "stranded"}

StatusTypes == had \in BOOLEAN /\ posted \in Seq([to : Loads \cup {0}, up : BOOLEAN])

LEMMA StatusTyped ==
  ASSUME PageDataTypes, NEW up \in BOOLEAN, P!StatusChanged(up)
  PROVE  StatusTypes'
<1>1. [to |-> connection, up |-> up] \in [to : Loads \cup {0}, up : BOOLEAN]
  BY DEF PageDataTypes
<1>2. Append(posted, [to |-> connection, up |-> up]) \in Seq([to : Loads \cup {0}, up : BOOLEAN])
  BY <1>1, AppendProperties DEF PageDataTypes
<1> QED
  BY <1>2 DEF P!StatusChanged, StatusTypes, PageDataTypes

LEMMA DroppedTyped ==
  ASSUME PageDataTypes, NEW k, P!StatusDropped(k)
  PROVE  StatusTypes'
<1>1. CASE pageConnected[k]
  BY <1>1, StatusTyped DEF P!StatusDropped
<1>2. CASE ~pageConnected[k]
  BY <1>2 DEF P!StatusDropped, StatusTypes, PageDataTypes
<1> QED
  BY <1>1, <1>2

LEMMA PageDataStep ==
  ASSUME PageDataTypes, [P!Next]_(P!vars)
  PROVE  PageDataTypes'
<1>1. CASE P!IframeLoaded
  <2>1. /\ load' \in Loads /\ handler' = [handler EXCEPT ![load + 1] = "handshaking"]
        /\ controller' = 0 /\ peer' = 0 /\ ready' = FALSE /\ resolved' = FALSE /\ pageCall' = "none"
        /\ connection' = connection /\ gone' = gone
    BY <1>1 DEF P!IframeLoaded, P!NewChild
  <2>2. StatusTypes'
    <3>1. CASE controller # 0
      <4>1. [to |-> connection, up |-> FALSE] \in [to : Loads \cup {0}, up : BOOLEAN]
        BY DEF PageDataTypes
      <4>2. Append(posted, [to |-> connection, up |-> FALSE]) \in Seq([to : Loads \cup {0}, up : BOOLEAN])
        BY <4>1, AppendProperties DEF PageDataTypes
      <4> QED
        BY <1>1, <3>1, <4>2 DEF P!IframeLoaded, P!Reset, StatusTypes, PageDataTypes
    <3>2. CASE controller = 0
      BY <1>1, <3>2 DEF P!IframeLoaded, StatusTypes, PageDataTypes
    <3> QED
      BY <3>1, <3>2
  <2> QED
    BY <2>1, <2>2 DEF PageDataTypes, StatusTypes
<1>2. CASE P!Leave
  <2>1. /\ gone' = TRUE /\ peer' = 0 /\ ready' = FALSE /\ resolved' = FALSE /\ pageCall' = "none"
        /\ UNCHANGED <<load, handler, connection, controller>>
    BY <1>2 DEF P!Leave, P!NewChild
  <2>2. StatusTypes'
    <3>1. CASE controller # 0
      BY <1>2, <3>1, DroppedTyped DEF P!Leave
    <3>2. CASE controller = 0
      BY <1>2, <3>2 DEF P!Leave, StatusTypes, PageDataTypes
    <3> QED
      BY <3>1, <3>2
  <2> QED
    BY <2>1, <2>2 DEF PageDataTypes, StatusTypes
<1>3. ASSUME NEW k \in Loads, P!Handshake(k) PROVE PageDataTypes'
  BY <1>3 DEF P!Handshake, PageDataTypes
<1>4. ASSUME NEW k \in Loads, P!Handshook(k) PROVE PageDataTypes'
  <2>1. StatusTypes'
    BY <1>4, DroppedTyped DEF P!Handshook
  <2> QED
    BY <1>4, <2>1 DEF P!Handshook, P!childVars, PageDataTypes, StatusTypes
<1>5. ASSUME NEW k \in Loads, P!StreamRequested(k) PROVE PageDataTypes'
  <2>1. StatusTypes'
    BY <1>5, DroppedTyped DEF P!StreamRequested
  <2> QED
    BY <1>5, <2>1 DEF P!StreamRequested, P!childVars, PageDataTypes, StatusTypes
<1>6. ASSUME NEW s \in PageStreams, P!StreamBuilt(s) PROVE PageDataTypes'
  BY <1>6 DEF P!StreamBuilt, P!pageVars, P!childVars, PageDataTypes
<1>7. ASSUME NEW s \in PageStreams, P!StreamUpdated(s) PROVE PageDataTypes'
  <2>1. StatusTypes'
    <3>1. CASE pageConnected[PageOwner[s]]
      BY <1>7, <3>1 DEF P!StreamUpdated, StatusTypes, PageDataTypes
    <3>2. CASE ~pageConnected[PageOwner[s]]
      BY <1>7, <3>2, StatusTyped DEF P!StreamUpdated
    <3> QED
      BY <3>1, <3>2
  <2> QED
    BY <1>7, <2>1 DEF P!StreamUpdated, P!childVars, PageDataTypes, StatusTypes
<1>8. ASSUME NEW s \in PageStreams, P!StreamClosed(s) PROVE PageDataTypes'
  <2>1. StatusTypes'
    BY <1>8, StatusTyped DEF P!StreamClosed
  <2> QED
    BY <1>8, <2>1 DEF P!StreamClosed, P!childVars, PageDataTypes, StatusTypes
<1>9. CASE P!ChildReady
  BY <1>9 DEF P!ChildReady, P!pageVars, PageDataTypes
<1>10. CASE P!Delivered
  <2>1. /\ UNCHANGED <<load, handler, connection, controller, had, gone, peer, ready>>
        /\ posted # <<>> /\ posted' = Tail(posted)
    BY <1>10 DEF P!Delivered
  <2>2. posted' \in Seq([to : Loads \cup {0}, up : BOOLEAN])
    BY <2>1, HeadTailProperties DEF PageDataTypes
  <2>3. Head(posted).up \in BOOLEAN
    <3>1. Head(posted) \in [to : Loads \cup {0}, up : BOOLEAN]
      BY <2>1, HeadTailProperties DEF PageDataTypes
    <3> QED
      BY <3>1
  <2>4. resolved' \in BOOLEAN /\ pageCall' \in {"none", "waiting", "stranded"}
    BY <1>10, <2>3 DEF P!Delivered, P!Hears, PageDataTypes
  <2> QED
    BY <2>1, <2>2, <2>4 DEF PageDataTypes
<1>11. CASE P!Calls
  BY <1>11 DEF P!Calls, P!pageVars, PageDataTypes
<1>12. CASE UNCHANGED P!vars
  BY <1>12 DEF P!vars, P!pageVars, P!childVars, PageDataTypes
<1> QED
  BY <1>1, <1>2, <1>3, <1>4, <1>5, <1>6, <1>7, <1>8, <1>9, <1>10, <1>11, <1>12 DEF P!Next

LEMMA PageStreamStep ==
  ASSUME P!StreamTypeOK, PageDataTypes, [P!Next]_(P!vars)
  PROVE  P!StreamTypeOK'
<1>0. ASSUME UNCHANGED P!streamVars PROVE P!StreamTypeOK'
  BY <1>0 DEF P!streamVars, P!timers, P!StreamTypeOK
<1>1. controller \in Loads \cup {0}
  BY DEF PageDataTypes
<1>2. CASE P!IframeLoaded \/ P!Leave
  <2>1. CASE controller # 0
    BY <1>1, <1>2, <2>1, PageStopTyped DEF P!IframeLoaded, P!Leave
  <2>2. CASE controller = 0
    BY <1>0, <1>2, <2>2 DEF P!IframeLoaded, P!Leave
  <2> QED
    BY <2>1, <2>2
<1>3. ASSUME NEW k \in Loads, P!Handshake(k) \/ P!Handshook(k) \/ P!StreamRequested(k)
      PROVE  P!StreamTypeOK'
  <2>1. CASE P!Handshake(k)
    BY <1>0, <2>1 DEF P!Handshake
  <2>2. CASE P!Handshook(k)
    BY <2>2, PageRebuildTyped DEF P!Handshook
  <2>3. CASE P!StreamRequested(k)
    BY <2>3, PageFiresTyped DEF P!StreamRequested
  <2> QED
    BY <1>3, <2>1, <2>2, <2>3
<1>4. ASSUME NEW s \in PageStreams, P!StreamBuilt(s) \/ P!StreamUpdated(s) \/ P!StreamClosed(s)
      PROVE  P!StreamTypeOK'
  BY <1>4, PageUpdatesTyped DEF P!StreamBuilt, P!StreamUpdated, P!StreamClosed
<1>5. CASE P!ChildReady \/ P!Delivered \/ P!Calls \/ UNCHANGED P!vars
  BY <1>0, <1>5 DEF P!ChildReady, P!Delivered, P!Calls, P!vars
<1> QED
  BY <1>2, <1>3, <1>4, <1>5 DEF P!Next

LEMMA PageTyped == P!PageTypeOK <=> P!StreamTypeOK /\ PageDataTypes
  BY DEF P!PageTypeOK, PageDataTypes

LEMMA PageTypesInit == P!Init => P!PageTypeOK
<1> SUFFICES ASSUME P!Init PROVE P!StreamTypeOK /\ PageDataTypes
  BY PageTyped
<1>1. P!StreamTypeOK
  BY StreamAssumption DEF P!Init, P!StreamInit, P!StreamTypeOK, P!Phases
<1>2. posted = <<>> => posted \in Seq([to : Loads \cup {0}, up : BOOLEAN])
  OBVIOUS
<1>3. PageDataTypes
  BY <1>2 DEF P!Init, PageDataTypes
<1> QED
  BY <1>1, <1>3

LEMMA PageTypesStep == P!PageTypeOK /\ [P!Next]_(P!vars) => P!PageTypeOK'
<1> SUFFICES ASSUME P!StreamTypeOK, PageDataTypes, [P!Next]_(P!vars)
             PROVE  P!StreamTypeOK' /\ PageDataTypes'
  BY DEF P!PageTypeOK, PageDataTypes
<1> QED
  BY PageDataStep, PageStreamStep

-----------------------------------------------------------------------------
\* A dialog that sees another one in its place has a result all the same.
LEMMA AbortedTyped ==
  ASSUME NEW rs \in [Dialogs -> {"none", "asked", "opened", "response", "abort"}], NEW m
  PROVE  D!Aborted(rs, m) \in [Dialogs -> {"none", "asked", "opened", "response", "abort"}]
  BY DEF D!Aborted

DialogData ==
  /\ deferredModalOpeningQueue \in Seq(Dialogs)
  /\ modalCurrentlyActuallyClosed \in BOOLEAN
  /\ timer \in BOOLEAN /\ (timer => deferredModalOpeningQueue # <<>>)
  /\ currentModal \in Dialogs \union {Nothing}
  /\ result \in [Dialogs -> {"none", "asked", "opened", "response", "abort"}]

\* Whoever processes the queue of dialogs; a timer that runs has one to open.
LEMMA ProcessTyped ==
  ASSUME DialogData, NEW queue \in Seq(Dialogs), timer => queue # <<>>, NEW closed \in BOOLEAN,
         NEW rs \in [Dialogs -> {"none", "asked", "opened", "response", "abort"}],
         D!ProcessModalQueue(queue, closed, rs)
  PROVE  DialogData'
<1>1. CASE closed /\ queue # <<>>
  BY <1>1 DEF D!ProcessModalQueue, DialogData
<1>2. CASE ~(closed /\ queue # <<>>)
  <2>1. D!Aborted(rs, Nothing) \in [Dialogs -> {"none", "asked", "opened", "response", "abort"}]
    BY AbortedTyped
  <2> QED
    BY <1>2, <2>1 DEF D!ProcessModalQueue, DialogData
<1> QED
  BY <1>1, <1>2

CloserTypes ==
  /\ window \in Dialogs \union {Nothing} /\ leaving \in Dialogs \union {Nothing}
  /\ closer \in [Closers -> {"idle", "waiting", "resumed", "forgotten"}]
  /\ resolver \in Closers \union {Nothing}

LEMMA CloseTyped ==
  ASSUME CloserTypes, NEW c \in Closers \union {Nothing}, D!Close(c)
  PROVE  CloserTypes'
<1>1. closer' \in [Closers -> {"idle", "waiting", "resumed", "forgotten"}]
  BY DEF D!Close, CloserTypes
<1> QED
  BY <1>1 DEF D!Close, D!CloseWindow, CloserTypes

LEMMA DialogsStep == DialogData /\ CloserTypes /\ [D!ModalsNext]_(D!modalVars) => DialogData' /\ CloserTypes'
<1> SUFFICES ASSUME DialogData, CloserTypes, [D!ModalsNext]_(D!modalVars) PROVE DialogData' /\ CloserTypes'
  OBVIOUS
<1>0. ASSUME UNCHANGED <<window, leaving, closer, resolver>> PROVE CloserTypes'
  BY <1>0 DEF CloserTypes
<1>1. ASSUME UNCHANGED <<deferredModalOpeningQueue, modalCurrentlyActuallyClosed, timer, currentModal>>,
             result' \in [Dialogs -> {"none", "asked", "opened", "response", "abort"}]
      PROVE  DialogData'
  BY <1>1 DEF DialogData
<1>2. ASSUME NEW m \in Dialogs, D!Ask(m) PROVE DialogData' /\ CloserTypes'
  <2> DEFINE rs == [result EXCEPT ![m] = "asked"]
             queue == Append(deferredModalOpeningQueue, m)
  <2>1. rs \in [Dialogs -> {"none", "asked", "opened", "response", "abort"}]
    BY DEF DialogData
  <2>2. queue \in Seq(Dialogs) /\ queue # <<>>
    BY AppendProperties DEF DialogData
  <2>3. D!ProcessModalQueue(queue, modalCurrentlyActuallyClosed, rs)
    BY <1>2 DEF D!Ask
  <2>4. modalCurrentlyActuallyClosed \in BOOLEAN
    BY DEF DialogData
  <2> HIDE DEF rs, queue
  <2>5. DialogData'
    BY <2>1, <2>2, <2>3, <2>4, ProcessTyped
  <2> QED
    BY <1>0, <1>2, <2>5 DEF D!Ask
<1>3. ASSUME NEW m \in Dialogs, D!Answer(m) PROVE DialogData' /\ CloserTypes'
  <2>1. DialogData'
    BY <1>1, <1>3 DEF D!Answer, D!dialogVars, DialogData
  <2> QED
    BY <1>3, <2>1, CloseTyped DEF D!Answer
<1>4. ASSUME NEW c \in Closers, D!CloseModal(c) PROVE DialogData' /\ CloserTypes'
  <2>1. DialogData'
    BY <1>1, <1>4 DEF D!CloseModal, D!dialogVars, DialogData
  <2> QED
    BY <1>4, <2>1, CloseTyped DEF D!CloseModal
<1>5. CASE D!OpenNext
  <2> DEFINE m == D!Last(deferredModalOpeningQueue)
  <2>1. deferredModalOpeningQueue \in Seq(Dialogs) /\ deferredModalOpeningQueue # <<>>
    BY <1>5 DEF D!OpenNext, DialogData
  <2>2. m \in Dialogs
    BY <2>1 DEF D!Last
  <2>3. deferredModalOpeningQueue' \in Seq(Dialogs)
    <3>1. deferredModalOpeningQueue' = SubSeq(deferredModalOpeningQueue, 1, Len(deferredModalOpeningQueue) - 1)
      BY <1>5 DEF D!OpenNext, D!Front
    <3> QED
      BY <2>1, <3>1
  <2>4. D!Aborted(result, m) \in [Dialogs -> {"none", "asked", "opened", "response", "abort"}]
    BY AbortedTyped DEF DialogData
  <2>5. window' = m /\ currentModal' = m /\ timer' = FALSE
        /\ result' = [D!Aborted(result, m) EXCEPT ![m] = "opened"]
        /\ UNCHANGED <<modalCurrentlyActuallyClosed, leaving, closer, resolver>>
    BY <1>5 DEF D!OpenNext
  <2> HIDE DEF m
  <2> QED
    BY <2>2, <2>3, <2>4, <2>5 DEF DialogData, CloserTypes
<1>6. CASE D!Navigate
  <2>1. DialogData'
    BY <1>1, <1>6 DEF D!Navigate, D!dialogVars, DialogData
  <2> QED
    BY <1>6, <2>1, CloseTyped DEF D!Navigate
<1>7. CASE D!Dismiss
  <2>1. DialogData'
    BY <1>1, <1>7 DEF D!Dismiss, D!dialogVars, DialogData
  <2> QED
    BY <1>7, <2>1 DEF D!Dismiss, D!CloseWindow, CloserTypes
<1>8. CASE D!Closed
  <2>1. CloserTypes'
    BY <1>8 DEF D!Closed, CloserTypes
  <2>2. D!ProcessModalQueue(deferredModalOpeningQueue, TRUE, result)
    BY <1>8 DEF D!Closed
  <2>3. DialogData'
    BY <2>2, ProcessTyped DEF DialogData
  <2> QED
    BY <2>1, <2>3
<1>9. CASE UNCHANGED D!modalVars
  BY <1>9 DEF D!modalVars, D!dialogVars, DialogData, CloserTypes
<1> QED
  BY <1>2, <1>3, <1>4, <1>5, <1>6, <1>7, <1>8, <1>9 DEF D!ModalsNext

LEMMA DialogsTyped == D!ModalsTypeOK <=> DialogData /\ CloserTypes
  BY DEF D!ModalsTypeOK, DialogData, CloserTypes

LEMMA DialogsInit == D!ModalsInit => DialogData /\ CloserTypes
<1>1. deferredModalOpeningQueue = <<>> => deferredModalOpeningQueue \in Seq(Dialogs)
  OBVIOUS
<1>2. D!ModalsInit => DialogData
  BY <1>1 DEF D!ModalsInit, DialogData
<1>3. D!ModalsInit => CloserTypes
  BY DEF D!ModalsInit, CloserTypes
<1> QED
  BY <1>2, <1>3

-----------------------------------------------------------------------------
\* The variables of the client, of the page and of the dialogs keep their types.
THEOREM WebClientTypes == MCFairSpec => []WebClientTypeOK
<1> DEFINE Inv == /\ StreamIInv /\ LockTypeOK /\ ConfigTypeOK
                  /\ P!PageTypeOK /\ DialogData /\ CloserTypes
<1>1. MCInit => Inv
  BY ClientInit, StreamInitIInv, PageTypesInit, DialogsInit DEF MCInit, Init
<1>2. Inv /\ [MCNext]_allVars => Inv'
  <2> SUFFICES ASSUME Inv, [MCNext]_allVars PROVE Inv'
    OBVIOUS
  <2>1. [Next]_vars /\ [P!Next]_(P!vars) /\ [D!ModalsNext]_(D!modalVars)
    <3>1. UNCHANGED pageVars => UNCHANGED P!vars
      BY DEF pageVars, P!vars, P!streamVars, P!timers, P!pageVars, P!childVars
    <3>2. UNCHANGED dialogVars => UNCHANGED D!modalVars
      BY DEF dialogVars, D!modalVars, D!dialogVars
    <3> QED
      BY <3>1, <3>2 DEF MCNext, allVars
  <2>2. StreamIInv'
    BY <2>1, ApiStep, StreamNextIInv
  <2>3. LockTypeOK' /\ ConfigTypeOK'
    BY <2>1, LockStep, ConfigStep
  <2>4. P!PageTypeOK'
    BY <2>1, PageTypesStep
  <2>5. DialogData' /\ CloserTypes'
    BY <2>1, DialogsStep
  <2> QED
    BY <2>2, <2>3, <2>4, <2>5
<1>3. Inv => WebClientTypeOK
  <2>1. StreamIInv => StreamTypeOK
    BY DEF StreamIInv
  <2>2. StreamTypeOK /\ LockTypeOK /\ ConfigTypeOK => ClientTypeOK
    BY DEF ClientTypeOK, ConfigTypeOK
  <2> QED
    BY <2>1, <2>2, DialogsTyped DEF WebClientTypeOK
<1> QED
  BY <1>1, <1>2, <1>3, PTL DEF MCFairSpec
=============================================================================
