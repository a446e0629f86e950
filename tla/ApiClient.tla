------------------------------ MODULE ApiClient ------------------------------
(***************************************************************************)
(* The client of the API (app/src/api_client.ts) with the controllers of   *)
(* StreamRPC above it.  Before any call it makes sure, under a mutex, that *)
(* it has a configuration (where to send calls) that has not expired; the  *)
(* call that asks the server for one is the only one that takes no lock.   *)
(* A connection that fails reverts to the original host.                   *)
(*                                                                         *)
(* JavaScript runs every continuation of a settled promise before the next *)
(* event: an event (an answer, an end, a timer, the user) waits until the  *)
(* queue of the mutex is blocked by a call to the server (Settled).        *)
(***************************************************************************)
EXTENDS StreamRPC, Sequences

VARIABLES
  lock,     \* rpcConfigMutex: who has it, then who waits for it
  fetch,    \* the RPCConfiguration call of who has it: none, sent or done
  host,     \* host: the original one, or the edge a configuration named
  obtained, \* rpcConfigObtained
  fresh,    \* the clock is before rpcConfigExpiration
  call      \* a unary call of a component: none, waiting or sent

configVars == <<lock, fetch, host, obtained, fresh, call>>
vars == <<streamVars, configVars>>

\* Who waits for the mutex and is neither a request nor the unary call.
Refresh == "refresh"
Unary == "unary"
Waiters == Streams \cup {Refresh, Unary}

Settled == lock = <<>> \/ fetch = "sent"

-----------------------------------------------------------------------------
(* maybeUpdateRPCConfig                                                    *)

Awaits(who) == lock' = Append(lock, who)

\* Mutant: the call for a configuration is subject to the mutex as well.
AskForConfig_Locked ==
  /\ lock # <<>> /\ ~fresh /\ fetch = "none"
  /\ fetch' = "sent"
  /\ Awaits("configuration")
  /\ UNCHANGED <<streamVars, host, obtained, fresh, call>>

\* The holder finds the configuration expired and asks for another.
AskForConfig ==
  /\ lock # <<>> /\ ~fresh /\ fetch = "none"
  /\ fetch' = "sent"
  /\ UNCHANGED <<streamVars, lock, host, obtained, fresh, call>>

\* The answer, whose expiration may have passed already.
ConfigAnswered ==
  /\ fetch = "sent"
  /\ fetch' = "done"
  /\ host' \in {"original", "edge"}
  /\ obtained' = TRUE
  /\ fresh' \in BOOLEAN
  /\ UNCHANGED <<streamVars, lock, call>>

\* Connections that fail leave the configuration that was obtained.  The
\* expiration is in the future whether it is set here or after a failed fetch.
FallBack ==
  /\ host' = IF obtained THEN "original" ELSE host
  /\ fresh' = (fresh \/ obtained)
  /\ obtained' = FALSE

\* The call for a configuration fails, as a connection or otherwise.
ConfigFails ==
  /\ fetch = "sent"
  /\ fetch' = "done"
  /\ host' = "original" /\ obtained' = FALSE /\ fresh' = TRUE
  /\ \/ Awaits(Refresh)
     \/ UNCHANGED lock
  /\ UNCHANGED <<streamVars, call>>

\* Mutant: the mutex is not released.
Release_Keeps == UNCHANGED lock /\ fetch' = "none"

\* The end of runExclusive.
Release == lock' = Tail(lock) /\ fetch' = "none"

\* The holder is done: the configuration is fresh, or it was asked for.
Passes(who) ==
  /\ lock # <<>> /\ Head(lock) = who
  /\ fetch = "done" \/ (fetch = "none" /\ fresh)
  /\ Release
  /\ UNCHANGED <<host, obtained, fresh>>

\* serverStreamingRPC goes on to open the stream.
StreamPasses(s) == Passes(s) /\ Built(s) /\ UNCHANGED call

\* unaryRPCWithCancel goes on to send the call.
UnaryPasses == Passes(Unary) /\ call' = "sent" /\ UNCHANGED streamVars

\* handleConnectionFailure was only refreshing the configuration.
RefreshPasses == Passes(Refresh) /\ UNCHANGED <<streamVars, call>>

Expires ==
  /\ Settled /\ fresh
  /\ fresh' = FALSE
  /\ UNCHANGED <<streamVars, lock, fetch, host, obtained, call>>

-----------------------------------------------------------------------------
(* Events                                                                  *)

\* A request that starts awaits the configuration.
AwaitsConfig ==
  /\ \E s \in Streams : stream'[s] = "building" /\ stream[s] # "building" /\ Awaits(s)
  /\ UNCHANGED <<fetch, host, obtained, fresh, call>>

RebuildEvent(c) == Settled /\ Rebuild(c) /\ AwaitsConfig

KeepaliveEvent(c) == Settled /\ KeepaliveFires(c) /\ AwaitsConfig

ReconnectionEvent(c) == Settled /\ ReconnectionFires(c) /\ AwaitsConfig

StrayEvent(c) == Settled /\ StrayFires(c) /\ AwaitsConfig

StopEvent(c) == Settled /\ Stop(c) /\ UNCHANGED configVars

UpdateEvent(s) == Settled /\ HandleUpdate(s) /\ UNCHANGED configVars

\* onEnd of a stream: "Response closed without headers", or any other.
EndEvent(s) ==
  /\ Settled
  /\ HandleClose(s)
  /\ \/ FallBack /\ Awaits(Refresh)
     \/ UNCHANGED <<lock, host, obtained, fresh>>
  /\ UNCHANGED <<fetch, call>>

UnaryCall ==
  /\ Settled /\ call = "none"
  /\ call' = "waiting"
  /\ Awaits(Unary)
  /\ UNCHANGED <<streamVars, fetch, host, obtained, fresh>>

\* The unary call is answered or fails.
UnaryEnds ==
  /\ Settled /\ call = "sent"
  /\ call' = "none"
  /\ \/ FallBack /\ Awaits(Refresh)
     \/ UNCHANGED <<lock, host, obtained, fresh>>
  /\ UNCHANGED <<streamVars, fetch>>

-----------------------------------------------------------------------------

Init ==
  /\ StreamInit
  /\ lock = <<>> /\ fetch = "none" /\ call = "none"
  /\ host = "original" /\ obtained = FALSE /\ fresh = FALSE

Next ==
  \/ \E c \in Controllers :
       \/ RebuildEvent(c) \/ KeepaliveEvent(c) \/ ReconnectionEvent(c) \/ StrayEvent(c)
       \/ StopEvent(c)
  \/ \E s \in Streams : UpdateEvent(s) \/ EndEvent(s) \/ StreamPasses(s)
  \/ AskForConfig \/ ConfigAnswered \/ ConfigFails
  \/ UnaryPasses \/ RefreshPasses \/ Expires
  \/ UnaryCall \/ UnaryEnds

\* Whoever has the mutex goes on.
Continues ==
  AskForConfig \/ UnaryPasses \/ RefreshPasses \/ \E s \in Streams : StreamPasses(s)

\* Continuations run and the call for a configuration ends; the event loop does
\* not serve some events for ever and leave out the end of a call or an armed
\* timer; a stream that is opened again and again does not end every time
\* before its first update.
Fairness ==
  /\ WF_vars(Continues) /\ WF_vars(ConfigAnswered \/ ConfigFails)
  /\ SF_vars(UnaryEnds)
  /\ \A c \in Controllers :
       /\ SF_vars(\E s \in Streams : Owner[s] = c /\ UpdateEvent(s))
       /\ SF_vars(ReconnectionEvent(c))

Spec == Init /\ [][Next]_vars
FairSpec == Spec /\ Fairness
-----------------------------------------------------------------------------
\* Who is in the queue of the mutex.
LockTypeOK == lock \in Seq(Waiters)

\* The type invariant of the client.
ClientTypeOK ==
  /\ StreamTypeOK
  /\ LockTypeOK
  /\ fetch \in {"none", "sent", "done"}
  /\ host \in {"original", "edge"}
  /\ obtained \in BOOLEAN /\ fresh \in BOOLEAN
  /\ call \in {"none", "waiting", "sent"}

\* A component that keeps asking for its stream is told that it is connected
\* again and again, whatever ends, expires, fails or overtakes: a failure never
\* leaves a controller with neither request nor timer (rpcUtils.ts), nor the
\* mutex taken (api_client.ts).
Reconnects == \A c \in Controllers :
  []<>(connected[c] \/ phase[c] # "running")

\* A unary call is sent and ends, whatever its turn at the mutex.
CallsEnd == [](call # "none" => <>(call = "none"))
=============================================================================
