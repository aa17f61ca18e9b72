-------------------------- MODULE BridgeConnection --------------------------
(***************************************************************************)
(* One connection of the integration to the bridge: WebSocketClient's      *)
(* receive task, close callback and disconnect() with ApiClient's          *)
(* correlated requests (api_client.py:655-791), composed with the event    *)
(* queue.  Everything runs on one asyncio loop: a step is what runs        *)
(* between two awaits.                                                     *)
(*                                                                         *)
(* A behaviour starts when connect() has opened the socket and created the *)
(* receive task and the event worker (web_socket_client.py:44-61).         *)
(***************************************************************************)
EXTENDS EventQueue

CONSTANT Request      \* the calls made, each with its own uuid (outgoing_message.py:296)

VARIABLES
    transport,        \* "open", "lost" (gone, aiohttp has not noticed), "closed"
    socket,           \* WebSocketClient.socket is not None
    receiver,         \* "running", "returned" (done callback scheduled), "closed" (it ran)
    disconnecting,    \* "no", "gathering" (awaits the worker), "done"
    onError,          \* ApiClient._on_error_callback is not None
    reported,         \* the coordinator's _on_error was called
    caller,           \* where each call is
    future,           \* its future: "none", "pending", or what it was given
    registered,       \* the keys of _result_futures
    timedOut,         \* wait_for's 30 second timer has fired
    outcome,          \* what the call returned or raised
    inbox,            \* requests on their way to the bridge
    wire,             \* results on their way back
    reply             \* history: the bridge's answer to each request

requestVars == <<caller, future, registered, timedOut, outcome, inbox, wire, reply>>
socketVars == <<transport, socket, receiver, disconnecting, onError, reported>>
connectionVars == <<queueVars, requestVars, socketVars>>

(* What RequestReply calls the state of a call.                            *)
Standing(c, o) == IF c = "idle" THEN "idle"
                  ELSE IF c # "done" THEN "open"
                  ELSE IF o \in {"ok", "refused"} THEN o ELSE "failed"

CallOf == [r \in Request |-> Standing(caller[r], outcome[r])]

RR == INSTANCE RequestReply WITH call <- CallOf

ConnectionInit ==
    /\ EventQueueInit
    /\ transport = "open" /\ socket = TRUE /\ receiver = "running"
    /\ disconnecting = "no" /\ onError = TRUE /\ reported = FALSE
    /\ caller = [r \in Request |-> "idle"]
    /\ future = [r \in Request |-> "none"]
    /\ registered = {}
    /\ timedOut = [r \in Request |-> FALSE]
    /\ outcome = [r \in Request |-> "none"]
    /\ inbox = {} /\ wire = {}
    /\ reply = [r \in Request |-> "none"]

-----------------------------------------------------------------------------
(* _send_message_get_response, up to its awaits.                           *)

(* send_message raises unless the client, its socket and aiohttp agree     *)
(* that the connection is usable.                                          *)
Sendable == disconnecting # "done" /\ socket /\ transport # "closed"

(* The future is registered before the send; the bytes are handed over and *)
(* the caller may be held in send_str by backpressure.                     *)
Issue(r) ==
    /\ caller[r] = "idle"
    /\ Sendable
    /\ caller' = [caller EXCEPT ![r] = "sending"]
    /\ future' = [future EXCEPT ![r] = "pending"]
    /\ registered' = registered \union {r}
    /\ inbox' = IF transport = "open" THEN inbox \union {r} ELSE inbox
    /\ UNCHANGED <<timedOut, outcome, wire, reply, socketVars, queueVars>>

(* The send raises outside the try block: the entry stays registered.      *)
IssueRaises(r) ==
    /\ caller[r] = "idle"
    /\ ~Sendable \/ transport = "lost"
    /\ caller' = [caller EXCEPT ![r] = "done"]
    /\ future' = [future EXCEPT ![r] = "pending"]
    /\ registered' = registered \union {r}
    /\ outcome' = [outcome EXCEPT ![r] = "unsent"]
    /\ UNCHANGED <<timedOut, inbox, wire, reply, socketVars, queueVars>>

SendReturns(r) ==
    /\ caller[r] = "sending"
    /\ caller' = [caller EXCEPT ![r] = "waiting"]
    /\ UNCHANGED <<future, registered, timedOut, outcome, inbox, wire, reply,
                   socketVars, queueVars>>

(* A drain that outlives the transport raises, again outside the try.      *)
SendRaises(r) ==
    /\ caller[r] = "sending"
    /\ transport # "open"
    /\ caller' = [caller EXCEPT ![r] = "done"]
    /\ outcome' = [outcome EXCEPT ![r] = "unsent"]
    /\ UNCHANGED <<future, registered, timedOut, inbox, wire, reply, socketVars, queueVars>>

(* Defect: the timer does not cancel the future.                           *)
TimerFiresOnly(r) ==
    /\ caller[r] = "waiting" /\ ~timedOut[r]
    /\ timedOut' = [timedOut EXCEPT ![r] = TRUE]
    /\ UNCHANGED <<caller, future, registered, outcome, inbox, wire, reply, socketVars, queueVars>>

(* wait_for's timer cancels the waiting task and through it a pending      *)
(* future; a future already done keeps its result but the call times out.  *)
TimerFires(r) ==
    /\ caller[r] = "waiting"
    /\ ~timedOut[r]
    /\ timedOut' = [timedOut EXCEPT ![r] = TRUE]
    /\ future' = [future EXCEPT ![r] = IF @ = "pending" THEN "cancelled" ELSE @]
    /\ UNCHANGED <<caller, registered, outcome, inbox, wire, reply, socketVars, queueVars>>

(* Defect: the call stays registered.                                      *)
CallerResumesRegistered(r) ==
    /\ caller[r] = "waiting" /\ future[r] # "pending"
    /\ caller' = [caller EXCEPT ![r] = "done"]
    /\ outcome' = [outcome EXCEPT ![r] = IF timedOut[r] THEN "timeout" ELSE future[r]]
    /\ UNCHANGED <<registered, future, timedOut, inbox, wire, reply, socketVars, queueVars>>

CallerResumes(r) ==
    /\ caller[r] = "waiting"
    /\ future[r] # "pending"
    /\ caller' = [caller EXCEPT ![r] = "done"]
    /\ outcome' = [outcome EXCEPT ![r] = IF timedOut[r] THEN "timeout" ELSE future[r]]
    /\ registered' = registered \ {r}
    /\ UNCHANGED <<future, timedOut, inbox, wire, reply, socketVars, queueVars>>

-----------------------------------------------------------------------------
(* The bridge answers the requests it got, in any order, each once.        *)
BridgeAnswers(r, v) ==
    /\ r \in inbox
    /\ transport = "open"
    /\ inbox' = inbox \ {r}
    /\ wire' = wire \union {[id |-> r, answer |-> v]}
    /\ reply' = [reply EXCEPT ![r] = v]
    /\ UNCHANGED <<caller, future, registered, timedOut, outcome, socketVars, queueVars>>

(* Defect: every result settles its call as a success.                     *)
ReceiveResultAsOk(m) ==
    /\ receiver = "running" /\ m \in wire
    /\ wire' = wire \ {m}
    /\ future' = IF m.id \in registered /\ future[m.id] = "pending"
                 THEN [future EXCEPT ![m.id] = "ok"] ELSE future
    /\ UNCHANGED <<caller, registered, timedOut, outcome, inbox, reply, socketVars, queueVars>>

(* _on_message for a result: unknown ids and settled futures are ignored.  *)
ReceiveResult(m) ==
    /\ receiver = "running"
    /\ m \in wire
    /\ wire' = wire \ {m}
    /\ future' = IF m.id \in registered /\ future[m.id] = "pending"
                 THEN [future EXCEPT ![m.id] = m.answer]
                 ELSE future
    /\ UNCHANGED <<caller, registered, timedOut, outcome, inbox, reply, socketVars, queueVars>>

ReceiveEvent(k) ==
    /\ receiver = "running"
    /\ transport = "open"
    /\ QueueEvent(k)
    /\ UNCHANGED <<requestVars, socketVars>>

WorkerHandles(k) == HandleEvent(k) /\ UNCHANGED <<requestVars, socketVars>>

WorkerPauses == WorkerIdles /\ UNCHANGED <<requestVars, socketVars>>

-----------------------------------------------------------------------------
(* Losing the connection, and leaving it.                                  *)

TransportLost ==
    /\ transport = "open"
    /\ transport' = "lost"
    /\ UNCHANGED <<socket, receiver, disconnecting, onError, reported, requestVars, queueVars>>

(* CLOSE, CLOSED or ERROR ends the receive loop; aiohttp marks the socket  *)
(* closed and what it had not delivered is gone.                           *)
ReceiverReturns ==
    /\ receiver = "running"
    /\ transport = "lost"
    /\ receiver' = "returned"
    /\ transport' = "closed"
    /\ UNCHANGED <<socket, disconnecting, onError, reported, requestVars, queueVars>>

EndedNone(with) == future              \* defect: pending futures are left as they are

(* fut -> what set_exception / cancel leave of the registered futures.     *)
Ended(with) ==
    [r \in Request |-> IF r \in registered /\ future[r] = "pending" THEN with ELSE future[r]]

(* Defect: the callback does not tell ApiClient.                           *)
OnCloseSilent ==
    /\ receiver = "returned"
    /\ receiver' = "closed"
    /\ socket' = FALSE
    /\ future' = Ended("closed")
    /\ registered' = {}
    /\ UNCHANGED <<reported, transport, disconnecting, onError, caller, timedOut, outcome, inbox,
                   wire, reply, queueVars>>

(* The receive task's done callback: WebSocketClient._on_close, which      *)
(* drops the socket, and ApiClient._on_close.                              *)
OnClose ==
    /\ receiver = "returned"
    /\ receiver' = "closed"
    /\ socket' = FALSE
    /\ future' = Ended("closed")
    /\ registered' = {}
    /\ reported' = (reported \/ onError)
    /\ UNCHANGED <<transport, disconnecting, onError, caller, timedOut, outcome, inbox, wire,
                   reply, queueVars>>

(* Defect: the error callback is not removed first.                        *)
DisconnectStartsLoud ==
    /\ disconnecting = "no"
    /\ disconnecting' = "gathering"
    /\ future' = Ended("cancelled")
    /\ registered' = {}
    /\ receiver' = IF receiver = "running" THEN "returned" ELSE receiver
    /\ worker' = "ended"
    /\ UNCHANGED <<onError, transport, socket, reported, caller, timedOut, outcome, inbox, wire,
                   reply, pending, ready, clock, received, dropped, applied>>

(* ApiClient.disconnect and WebSocketClient.disconnect up to the gather: a *)
(* cancelled task takes no further message, and the receive task's done    *)
(* callback is scheduled.                                                  *)
DisconnectStarts ==
    /\ disconnecting = "no"
    /\ disconnecting' = "gathering"
    /\ onError' = FALSE
    /\ future' = Ended("cancelled")
    /\ registered' = {}
    /\ receiver' = IF receiver = "running" THEN "returned" ELSE receiver
    /\ worker' = "ended"
    /\ UNCHANGED <<transport, socket, reported, caller, timedOut, outcome, inbox, wire, reply,
                   pending, ready, clock, received, dropped, applied>>

(* After the gather.  The loop's ready queue is first in, first out: the   *)
(* receive task was cancelled before the worker, so its done callback has  *)
(* run by the time the gather wakes this coroutine.                        *)
DisconnectEnds ==
    /\ disconnecting = "gathering"
    /\ receiver = "closed"
    /\ pending' = [k \in EventKey |-> Absent]
    /\ ready' = FALSE
    /\ transport' = IF socket THEN "closed" ELSE transport
    /\ socket' = FALSE
    /\ disconnecting' = "done"
    /\ UNCHANGED <<receiver, onError, reported, requestVars, worker, clock, received, dropped,
                   applied>>

-----------------------------------------------------------------------------

CallStep(r) ==
    \/ Issue(r) \/ IssueRaises(r) \/ SendReturns(r) \/ SendRaises(r)
    \/ TimerFires(r) \/ CallerResumes(r)

ConnectionNext ==
    \/ \E r \in Request : CallStep(r)
    \/ \E r \in Request, v \in RR!Answer : BridgeAnswers(r, v)
    \/ \E m \in wire : ReceiveResult(m)
    \/ \E k \in EventKey : ReceiveEvent(k) \/ WorkerHandles(k)
    \/ WorkerPauses
    \/ TransportLost \/ ReceiverReturns \/ OnClose
    \/ DisconnectStarts \/ DisconnectEnds

ConnectionSafety == ConnectionInit /\ [][ConnectionNext]_connectionVars

(* The loop runs ready tasks and callbacks and its timers fire; a send     *)
(* held by backpressure returns or raises, since the 60 second heartbeat   *)
(* ends a dead transport.  Nothing is assumed of the bridge, of callers    *)
(* starting a call or of anyone disconnecting.                             *)
ConnectionFairness ==
    /\ \A r \in Request :
        /\ WF_connectionVars(SendReturns(r) \/ SendRaises(r))
        /\ WF_connectionVars(TimerFires(r))
        /\ WF_connectionVars(CallerResumes(r))
    /\ WF_connectionVars((\E k \in EventKey : WorkerHandles(k)) \/ WorkerPauses)
    /\ WF_connectionVars(ReceiverReturns)
    /\ WF_connectionVars(OnClose)
    /\ WF_connectionVars(DisconnectEnds)

ConnectionSpec == ConnectionSafety /\ ConnectionFairness

-----------------------------------------------------------------------------
(* Properties.                                                             *)

Settled == {"ok", "refused", "closed", "cancelled"}

(* The types of the variables this module adds, and of the worker; and    *)
(* _result_futures holds only calls in progress, and those whose send      *)
(* raised, which lines 767-777 leave behind.                               *)
ConnectionTypeOK ==
    /\ transport \in {"open", "lost", "closed"}
    /\ socket \in BOOLEAN
    /\ receiver \in {"running", "returned", "closed"}
    /\ disconnecting \in {"no", "gathering", "done"}
    /\ onError \in BOOLEAN
    /\ reported \in BOOLEAN
    /\ caller \in [Request -> {"idle", "sending", "waiting", "done"}]
    /\ future \in [Request -> {"none", "pending"} \union Settled]
    /\ registered \in SUBSET Request
    /\ \A r \in registered : caller[r] \in {"sending", "waiting"} \/ outcome[r] = "unsent"
    /\ timedOut \in [Request -> BOOLEAN]
    /\ outcome \in [Request -> {"none", "unsent", "timeout"} \union Settled]
    /\ inbox \in SUBSET Request
    /\ wire \in SUBSET [id : Request, answer : RR!Answer]
    /\ reply \in [Request -> {"none"} \union RR!Answer]
    /\ worker \in {"waiting", "yielding", "ended"}

(* Once the close callback has run, no call is left waiting on the dead    *)
(* connection for its 30 second timer: neither those it found pending nor  *)
(* those issued while disconnect() was waiting (api_client.py:753-758).    *)
NoCallerOnDeadConnection ==
    receiver = "closed" =>
        \A r \in Request : caller[r] \in {"sending", "waiting"} => future[r] # "pending"

(* Calls are settled as RequestReply promises: once, with the bridge's own *)
(* answer to them or a failure, whatever is late, lost or closing.         *)
CallsKeepRequestReply == RR!RequestReplySpec

(* A client that is disconnecting is silent: its cancelled receive task    *)
(* still runs the close callback, but that neither schedules a reload of   *)
(* the entry nor does any queued event reach a product any more.           *)
RetiredClientIsSilent ==
    [][disconnecting # "no" => UNCHANGED <<applied, reported>>]_connectionVars

(* A connection lost under a client in use is reported, so the entry is    *)
(* reloaded; only disconnect() excuses it.                                 *)
LossIsReported == transport = "lost" ~> reported \/ disconnecting # "no"

(* Every call ends, even when the bridge never answers or the connection   *)
(* dies under a send.                                                      *)
EveryCallSettles == \A r \in Request : caller[r] = "sending" ~> caller[r] = "done"

=============================================================================
