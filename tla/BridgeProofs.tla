---------------------------- MODULE BridgeProofs ----------------------------
(***************************************************************************)
(* Theorems about the two modules that use the event queue of              *)
(* EventQueueProofs: BridgeConnection, for every set of calls, and         *)
(* BridgeBootstrap, for every inventory.                                   *)
(*                                                                         *)
(* Calls: ConnectionInv ties a call, its future, its entry in              *)
(* _result_futures and its messages together, and says how far the         *)
(* teardown of a connection has come.  The connection's queue: until       *)
(* disconnect() every step of the connection is one of the queue's own or  *)
(* leaves it alone, and from then on nothing reaches or leaves the queue   *)
(* until it is cleared.                                                    *)
(*                                                                         *)
(* Loading: BootstrapInv follows the newest report of a station from the   *)
(* queue through the deferral list to the station.                         *)
(*                                                                         *)
(* No theorem cites an assumption on the other's constants.                *)
(***************************************************************************)
EXTENDS BridgeConnection, BridgeBootstrap, EventQueueProofs, SequenceTheorems,
        WellFoundedInduction

-----------------------------------------------------------------------------
(* The calls of a connection.                                              *)

(* A call still under way whose future is pending can be found by whoever  *)
(* settles futures: it is in _result_futures.                              *)
OpenCallsAreRegistered ==
    \A r \in Request :
        caller[r] \in {"sending", "waiting"} /\ future[r] = "pending" => r \in registered

(* The bridge answers each request once, results in flight carry that      *)
(* answer, and no future holds a reply but its own.                        *)
RepliesAreTheCallsOwn ==
    /\ \A r \in Request : caller[r] = "idle" => r \notin inbox
    /\ \A r \in Request : r \in inbox \/ caller[r] = "idle" => reply[r] = "none"
    /\ \A m \in wire : reply[m.id] = m.answer
    /\ \A r \in Request : future[r] \in RR!Answer => future[r] = reply[r]

(* The close callback drops the socket, after which nothing can be sent;   *)
(* disconnect() removes the error callback and cancels both tasks before   *)
(* its first await.                                                        *)
TeardownOrder ==
    /\ receiver = "closed" => ~socket
    /\ disconnecting # "no" => ~onError /\ worker = "ended" /\ receiver # "running"

ConnectionInv ==
    /\ ConnectionTypeOK
    /\ OpenCallsAreRegistered
    /\ RepliesAreTheCallsOwn
    /\ NoCallerOnDeadConnection
    /\ TeardownOrder

LEMMA InitEstablishesConnectionInv == ConnectionInit => ConnectionInv
<1> SUFFICES ASSUME ConnectionInit PROVE ConnectionInv
  OBVIOUS
<1> USE DEF ConnectionInit, EventQueueInit
<1>1. ConnectionTypeOK
  BY DEF ConnectionTypeOK, RR!Answer
<1>2. OpenCallsAreRegistered
  BY DEF OpenCallsAreRegistered
<1>3. RepliesAreTheCallsOwn
  BY DEF RepliesAreTheCallsOwn, RR!Answer
<1>4. NoCallerOnDeadConnection
  BY DEF NoCallerOnDeadConnection
<1>5. TeardownOrder
  BY DEF TeardownOrder
<1> QED  BY <1>1, <1>2, <1>3, <1>4, <1>5 DEF ConnectionInv

LEMMA IssueKeepsConnectionInv ==
  ASSUME ConnectionInv, NEW r \in Request, Issue(r)
  PROVE  ConnectionInv'
<1> USE DEF ConnectionInv, ConnectionTypeOK, Issue, socketVars, queueVars, RR!Answer
<1>1. ConnectionTypeOK'
  BY DEF Settled
<1>2. OpenCallsAreRegistered'
  BY DEF OpenCallsAreRegistered
<1>3. RepliesAreTheCallsOwn'
  BY DEF RepliesAreTheCallsOwn
<1>4. NoCallerOnDeadConnection'
  BY DEF NoCallerOnDeadConnection, TeardownOrder, Sendable
<1>5. TeardownOrder'
  BY DEF TeardownOrder
<1> QED  BY <1>1, <1>2, <1>3, <1>4, <1>5

LEMMA CallStepKeepsConnectionInv ==
  ASSUME ConnectionInv, NEW r \in Request,
         \/ IssueRaises(r) \/ SendReturns(r) \/ SendRaises(r)
         \/ TimerFires(r) \/ CallerResumes(r)
  PROVE  ConnectionInv'
<1> USE DEF ConnectionInv, ConnectionTypeOK, socketVars, queueVars, RR!Answer
<1>1. ConnectionTypeOK'
  <2>1. CASE IssueRaises(r)
    BY <2>1 DEF IssueRaises, Settled
  <2>2. CASE SendReturns(r)
    BY <2>2 DEF SendReturns, Settled
  <2>3. CASE SendRaises(r)
    BY <2>3 DEF SendRaises, Settled
  <2>4. CASE TimerFires(r)
    BY <2>4 DEF TimerFires, Settled
  <2>5. CASE CallerResumes(r)
    BY <2>5 DEF CallerResumes, Settled
  <2> QED  BY <2>1, <2>2, <2>3, <2>4, <2>5
<1> USE DEF IssueRaises, SendReturns, SendRaises, TimerFires, CallerResumes
<1>2. OpenCallsAreRegistered'
  BY DEF OpenCallsAreRegistered
<1>3. RepliesAreTheCallsOwn'
  BY DEF RepliesAreTheCallsOwn
<1>4. NoCallerOnDeadConnection'
  BY DEF NoCallerOnDeadConnection
<1>5. TeardownOrder'
  BY DEF TeardownOrder
<1> QED  BY <1>1, <1>2, <1>3, <1>4, <1>5

LEMMA MessageKeepsConnectionInv ==
  ASSUME ConnectionInv,
         \/ \E r \in Request, v \in RR!Answer : BridgeAnswers(r, v)
         \/ \E m \in wire : ReceiveResult(m)
  PROVE  ConnectionInv'
<1> USE DEF ConnectionInv, ConnectionTypeOK, socketVars, queueVars, RR!Answer
<1>1. ASSUME NEW r \in Request, NEW v \in RR!Answer, BridgeAnswers(r, v)
      PROVE  ConnectionInv'
  <2> USE <1>1 DEF BridgeAnswers
  <2>1. ConnectionTypeOK'
    BY DEF Settled
  <2>2. RepliesAreTheCallsOwn'
    BY DEF RepliesAreTheCallsOwn
  <2>3. OpenCallsAreRegistered' /\ NoCallerOnDeadConnection' /\ TeardownOrder'
    BY DEF OpenCallsAreRegistered, NoCallerOnDeadConnection, TeardownOrder
  <2> QED  BY <2>1, <2>2, <2>3
<1>2. ASSUME NEW m \in wire, ReceiveResult(m)
      PROVE  ConnectionInv'
  <2> USE <1>2 DEF ReceiveResult
  <2>1. ConnectionTypeOK'
    BY DEF Settled
  <2>2. RepliesAreTheCallsOwn'
    BY DEF RepliesAreTheCallsOwn
  <2>3. OpenCallsAreRegistered' /\ NoCallerOnDeadConnection' /\ TeardownOrder'
    BY DEF OpenCallsAreRegistered, NoCallerOnDeadConnection, TeardownOrder
  <2> QED  BY <2>1, <2>2, <2>3
<1> QED  BY <1>1, <1>2

(* The queue's own steps disturb no call; the worker's they take only      *)
(* while it has not been cancelled.                                        *)
LEMMA QueueStepKeepsConnectionInv ==
  ASSUME ConnectionInv,
         \/ \E k \in EventKey : ReceiveEvent(k) \/ WorkerHandles(k)
         \/ WorkerPauses
  PROVE  ConnectionInv'
<1>1. /\ UNCHANGED <<requestVars, socketVars>>
      /\ worker' \in {"waiting", "yielding", "ended"}
      /\ worker = "ended" => worker' = "ended"
  BY DEF ReceiveEvent, QueueEvent, WorkerHandles, HandleEvent, TakeOldest, WorkerPauses,
         WorkerIdles, WorkerRuns, ConnectionInv, ConnectionTypeOK
<1> QED
  BY <1>1 DEF ConnectionInv, ConnectionTypeOK, OpenCallsAreRegistered, RepliesAreTheCallsOwn,
              NoCallerOnDeadConnection, TeardownOrder, requestVars, socketVars

(* Losing the connection and leaving it.                                   *)
LEMMA TeardownKeepsConnectionInv ==
  ASSUME ConnectionInv,
         \/ TransportLost \/ ReceiverReturns \/ OnClose
         \/ DisconnectStarts \/ DisconnectEnds
  PROVE  ConnectionInv'
<1> USE DEF ConnectionInv, ConnectionTypeOK, requestVars, queueVars, RR!Answer
<1>1. CASE TransportLost \/ ReceiverReturns
  BY <1>1 DEF TransportLost, ReceiverReturns, OpenCallsAreRegistered, RepliesAreTheCallsOwn,
              NoCallerOnDeadConnection, TeardownOrder
<1>2. CASE DisconnectEnds
  BY <1>2 DEF DisconnectEnds, OpenCallsAreRegistered, RepliesAreTheCallsOwn,
              NoCallerOnDeadConnection, TeardownOrder
<1>3. CASE OnClose \/ DisconnectStarts
  <2>1. /\ future' \in {Ended("closed"), Ended("cancelled")}
        /\ registered' = {}
        /\ UNCHANGED <<caller, timedOut, outcome, inbox, wire, reply>>
    BY <1>3 DEF OnClose, DisconnectStarts
  <2>2. \A r \in Request :
            future'[r] = future[r] \/ (future'[r] \in {"closed", "cancelled"})
    BY <2>1 DEF Ended
  <2>3. \A r \in Request : caller[r] \in {"sending", "waiting"} => future'[r] # "pending"
    BY <2>1 DEF Ended, OpenCallsAreRegistered
  <2>4. ConnectionTypeOK'
    <3>1. future' \in [Request -> {"none", "pending"} \union Settled]
      BY <2>1 DEF Ended, Settled
    <3> QED  BY <1>3, <2>1, <3>1 DEF OnClose, DisconnectStarts
  <2>5. OpenCallsAreRegistered' /\ NoCallerOnDeadConnection'
    BY <2>1, <2>3 DEF OpenCallsAreRegistered, NoCallerOnDeadConnection
  <2>6. RepliesAreTheCallsOwn'
    BY <2>1, <2>2 DEF RepliesAreTheCallsOwn
  <2>7. TeardownOrder'
    BY <1>3 DEF OnClose, DisconnectStarts, TeardownOrder
  <2> QED  BY <2>4, <2>5, <2>6, <2>7
<1> QED  BY <1>1, <1>2, <1>3

LEMMA ConnectionStepKeepsConnectionInv ==
  ConnectionInv /\ [ConnectionNext]_connectionVars => ConnectionInv'
<1> SUFFICES ASSUME ConnectionInv, [ConnectionNext]_connectionVars
             PROVE  ConnectionInv'
  OBVIOUS
<1>1. CASE UNCHANGED connectionVars
  BY <1>1 DEF connectionVars, requestVars, socketVars, queueVars, ConnectionInv,
              ConnectionTypeOK, OpenCallsAreRegistered, RepliesAreTheCallsOwn,
              NoCallerOnDeadConnection, TeardownOrder
<1>2. CASE ConnectionNext
  BY <1>2, IssueKeepsConnectionInv, CallStepKeepsConnectionInv, MessageKeepsConnectionInv,
     QueueStepKeepsConnectionInv, TeardownKeepsConnectionInv DEF ConnectionNext, CallStep
<1> QED  BY <1>1, <1>2

(* The inductive invariant holds of every behaviour of a connection.       *)
THEOREM ConnectionInvariant == ConnectionSafety => []ConnectionInv
  BY InitEstablishesConnectionInv, ConnectionStepKeepsConnectionInv, PTL DEF ConnectionSafety

(* The variables keep their types, and _result_futures holds only calls in *)
(* progress and those whose send raised (api_client.py:767-777).           *)
THEOREM ConnectionTypesHold == ConnectionSafety => []ConnectionTypeOK
<1>1. ConnectionInv => ConnectionTypeOK
  BY DEF ConnectionInv
<1> QED  BY <1>1, ConnectionInvariant, PTL

(* No call is left waiting for its timer on a connection whose close       *)
(* callback has run, however many calls there are and whenever they were   *)
(* issued (api_client.py:753-758).                                         *)
THEOREM NoCallerIsStranded == ConnectionSafety => []NoCallerOnDeadConnection
<1>1. ConnectionInv => NoCallerOnDeadConnection
  BY DEF ConnectionInv
<1> QED  BY <1>1, ConnectionInvariant, PTL

(* From its first step disconnect() keeps the client silent: no event      *)
(* reaches a product and no loss is reported.                              *)
THEOREM DisconnectSilences == ConnectionSafety => RetiredClientIsSilent
<1>1. ConnectionInv /\ [ConnectionNext]_connectionVars
        => [disconnecting # "no" => UNCHANGED <<applied, reported>>]_connectionVars
  <2> SUFFICES ASSUME ConnectionInv, ConnectionNext, disconnecting # "no"
               PROVE  UNCHANGED <<applied, reported>>
    OBVIOUS
  <2>1. ~onError /\ worker = "ended" /\ reported \in BOOLEAN
    BY DEF ConnectionInv, ConnectionTypeOK, TeardownOrder
  <2>2. \A k \in EventKey : ~WorkerHandles(k)
    BY <2>1 DEF WorkerHandles, HandleEvent, TakeOldest, WorkerRuns
  <2>3. UNCHANGED applied
    BY <2>2 DEF ConnectionNext, CallStep, Issue, IssueRaises, SendReturns, SendRaises,
                TimerFires, CallerResumes, BridgeAnswers, ReceiveResult, ReceiveEvent,
                QueueEvent, WorkerPauses, WorkerIdles, TransportLost, ReceiverReturns, OnClose,
                DisconnectStarts, DisconnectEnds, queueVars
  <2>4. UNCHANGED reported
    BY <2>1, <2>2 DEF ConnectionNext, CallStep, Issue, IssueRaises, SendReturns, SendRaises,
                TimerFires, CallerResumes, BridgeAnswers, ReceiveResult, ReceiveEvent,
                WorkerPauses, TransportLost, ReceiverReturns, OnClose,
                DisconnectStarts, DisconnectEnds, socketVars
  <2> QED  BY <2>3, <2>4
<1> QED  BY <1>1, ConnectionInvariant, PTL DEF ConnectionSafety, RetiredClientIsSilent

-----------------------------------------------------------------------------
(* The refinement of RequestReply.                                         *)

(* A step that changes one call changes CallOf there only.                 *)
LEMMA CallOfOneCall ==
  ASSUME ConnectionTypeOK, NEW r \in Request, NEW STATE c, NEW STATE o,
         caller' = [caller EXCEPT ![r] = c], outcome' = [outcome EXCEPT ![r] = o]
  PROVE  CallOf' = [CallOf EXCEPT ![r] = Standing(c, o)]
<1>1. /\ caller'[r] = c /\ outcome'[r] = o
      /\ \A q \in Request \ {r} : caller'[q] = caller[q] /\ outcome'[q] = outcome[q]
  BY DEF ConnectionTypeOK
<1>2. /\ CallOf'[r] = Standing(c, o)
      /\ \A q \in Request \ {r} : CallOf'[q] = CallOf[q]
  BY <1>1 DEF CallOf
<1> QED  BY <1>2 DEF CallOf

(* The same for a step that leaves the outcome alone.                      *)
LEMMA CallOfOneCaller ==
  ASSUME ConnectionTypeOK, NEW r \in Request, NEW STATE c,
         caller' = [caller EXCEPT ![r] = c], outcome' = outcome
  PROVE  CallOf' = [CallOf EXCEPT ![r] = Standing(c, outcome[r])]
<1>1. outcome' = [outcome EXCEPT ![r] = outcome[r]]
  BY DEF ConnectionTypeOK
<1> QED  BY <1>1, CallOfOneCall

(* The connection implements RequestReply: every call is settled once,     *)
(* with the bridge's own answer to it or with a failure, whatever is late, *)
(* lost or closing (api_client.py:655-791).                                *)
THEOREM ConnectionImplementsRequestReply == ConnectionSafety => CallsKeepRequestReply
<1>1. ConnectionInit => RR!RequestReplyInit
  BY DEF Standing, ConnectionInit, RR!RequestReplyInit, CallOf
<1>2. ConnectionInv /\ [ConnectionNext]_connectionVars
        => [RR!RequestReplyNext]_(RR!requestReplyVars)
  <2> SUFFICES ASSUME ConnectionInv, [ConnectionNext]_connectionVars
               PROVE  [RR!RequestReplyNext]_(RR!requestReplyVars)
    OBVIOUS
  <2> USE DEF ConnectionInv
  <2>1. ASSUME NEW r \in Request, CallStep(r)
        PROVE  RR!RequestReplyNext \/ UNCHANGED <<caller, outcome, reply>>
               \/ (CallOf' = CallOf /\ reply' = reply)
    <3>1. CASE Issue(r)
      <4>1. /\ CallOf[r] = "idle" /\ reply' = reply
            /\ caller' = [caller EXCEPT ![r] = "sending"] /\ outcome' = outcome
        BY <3>1 DEF Issue, CallOf, Standing
      <4>2. CallOf' = [CallOf EXCEPT ![r] = Standing("sending", outcome[r])]
        BY <4>1, CallOfOneCaller
      <4> QED  BY <4>1, <4>2 DEF Standing, RR!Open, RR!RequestReplyNext
    <3>2. CASE IssueRaises(r) \/ SendRaises(r)
      <4>1. /\ CallOf[r] \in {"idle", "open"}
            /\ caller' = [caller EXCEPT ![r] = "done"]
            /\ outcome' = [outcome EXCEPT ![r] = "unsent"]
            /\ reply' = reply
        BY <3>2 DEF Standing, IssueRaises, SendRaises, CallOf
      <4>2. CallOf' = [CallOf EXCEPT ![r] = "failed"]
        BY <4>1, CallOfOneCall DEF Standing
      <4> QED  BY <4>1, <4>2 DEF RR!Fail, RR!RequestReplyNext
    <3>3. CASE SendReturns(r)
      <4>1. /\ CallOf[r] = "open" /\ reply' = reply
            /\ caller' = [caller EXCEPT ![r] = "waiting"] /\ outcome' = outcome
        BY <3>3 DEF SendReturns, CallOf, Standing
      <4>2. CallOf' = [CallOf EXCEPT ![r] = Standing("waiting", outcome[r])]
        BY <4>1, CallOfOneCaller
      <4> QED  BY <4>1, <4>2 DEF Standing, CallOf
    <3>4. CASE TimerFires(r)
      BY <3>4 DEF TimerFires
    <3>5. CASE CallerResumes(r)
      <4> DEFINE o == IF timedOut[r] THEN "timeout" ELSE future[r]
      <4>1. /\ CallOf[r] = "open" /\ reply' = reply
            /\ caller' = [caller EXCEPT ![r] = "done"]
            /\ outcome' = [outcome EXCEPT ![r] = o]
        BY <3>5 DEF Standing, CallerResumes, CallOf
      <4>2. CallOf' = [CallOf EXCEPT ![r] = Standing("done", o)]
        <5> HIDE DEF o
        <5> QED  BY <4>1, CallOfOneCall
      <4>3. CASE o \in {"ok", "refused"}
        <5>1. o = reply[r] /\ reply[r] # "none"
          BY <4>3 DEF RepliesAreTheCallsOwn, RR!Answer
        <5>2. Standing("done", o) = reply[r]
          BY <4>3, <5>1 DEF Standing
        <5> QED  BY <4>1, <4>2, <5>1, <5>2 DEF RR!SettleWithReply, RR!RequestReplyNext
      <4>4. CASE o \notin {"ok", "refused"}
        <5>1. Standing("done", o) = "failed"
          BY <4>4 DEF Standing
        <5> QED  BY <4>1, <4>2, <5>1 DEF RR!Fail, RR!RequestReplyNext
      <4> QED  BY <4>3, <4>4
    <3> QED  BY <2>1, <3>1, <3>2, <3>3, <3>4, <3>5 DEF CallStep
  <2>2. ASSUME NEW r \in Request, NEW v \in RR!Answer, BridgeAnswers(r, v)
        PROVE  RR!Reply(r, v)
    <3>1. caller[r] # "idle" /\ reply[r] = "none" /\ UNCHANGED <<caller, outcome>>
      BY <2>2 DEF BridgeAnswers, RepliesAreTheCallsOwn
    <3>2. CallOf[r] # "idle" /\ CallOf' = CallOf
      BY <3>1 DEF Standing, CallOf, ConnectionTypeOK
    <3> QED  BY <2>2, <3>1, <3>2 DEF BridgeAnswers, RR!Reply
  <2>3. \/ \E m \in wire : ReceiveResult(m)
        \/ \E k \in EventKey : ReceiveEvent(k) \/ WorkerHandles(k)
        \/ WorkerPauses \/ TransportLost \/ ReceiverReturns \/ OnClose
        \/ DisconnectStarts \/ DisconnectEnds
        \/ UNCHANGED connectionVars
        => UNCHANGED <<caller, outcome, reply>>
    BY DEF ReceiveResult, ReceiveEvent, WorkerHandles, WorkerPauses, TransportLost,
           ReceiverReturns, OnClose, DisconnectStarts, DisconnectEnds, connectionVars,
           requestVars
  <2>4. UNCHANGED <<caller, outcome, reply>> => CallOf' = CallOf /\ reply' = reply
    BY DEF CallOf
  <2>5. CallOf' = CallOf /\ reply' = reply => UNCHANGED RR!requestReplyVars
    BY DEF CallOf, RR!requestReplyVars
  <2> QED  BY <2>1, <2>2, <2>3, <2>4, <2>5 DEF ConnectionNext, RR!RequestReplyNext
<1> QED
  BY <1>1, <1>2, ConnectionInvariant, PTL
     DEF ConnectionSafety, CallsKeepRequestReply, RR!RequestReplySpec

-----------------------------------------------------------------------------
(* The connection's queue.                                                 *)

(* A step of the connection is a step of its queue or leaves it alone,     *)
(* except for the two of disconnect(); after the first of them no frame    *)
(* arrives and the worker is gone.                                         *)
LEMMA QueueStepsOfConnection ==
  ASSUME ConnectionInv, [ConnectionNext]_connectionVars,
         ~DisconnectStarts, ~DisconnectEnds
  PROVE  /\ UNCHANGED disconnecting
         /\ IF disconnecting = "no" THEN [EventQueueNext]_queueVars ELSE UNCHANGED queueVars
<1>1. CASE UNCHANGED connectionVars
  BY <1>1 DEF connectionVars, socketVars
<1>2. CASE \/ \E r \in Request : CallStep(r)
           \/ \E r \in Request, v \in RR!Answer : BridgeAnswers(r, v)
           \/ \E m \in wire : ReceiveResult(m)
           \/ TransportLost \/ ReceiverReturns \/ OnClose
  BY <1>2 DEF CallStep, Issue, IssueRaises, SendReturns, SendRaises, TimerFires, CallerResumes,
              BridgeAnswers, ReceiveResult, TransportLost, ReceiverReturns, OnClose, queueVars,
              socketVars
<1>3. ASSUME NEW k \in EventKey, ReceiveEvent(k)
      PROVE  disconnecting = "no" /\ UNCHANGED disconnecting /\ EventQueueNext
  BY <1>3 DEF ReceiveEvent, ConnectionInv, TeardownOrder, EventQueueNext, socketVars
<1>4. ASSUME NEW k \in EventKey, WorkerHandles(k)
      PROVE  disconnecting = "no" /\ UNCHANGED disconnecting /\ EventQueueNext
  BY <1>4 DEF WorkerHandles, HandleEvent, TakeOldest, WorkerRuns, ConnectionInv, TeardownOrder,
              EventQueueNext, socketVars
<1>5. CASE WorkerPauses
  BY <1>5 DEF WorkerPauses, WorkerIdles, WorkerRuns, ConnectionInv, TeardownOrder,
              EventQueueNext, socketVars
<1> QED  BY <1>1, <1>2, <1>3, <1>4, <1>5 DEF ConnectionNext

(* Until it is cleared the queue keeps the newest reports, in a client in  *)
(* use because QueueInv holds, in a retired one because nothing moves.     *)
ConnectionQueueInv ==
    /\ disconnecting = "no" => QueueInv
    /\ disconnecting # "done" => NewestStateKept
    /\ QueueBounded
    /\ NoLostWakeup

LEMMA InitEstablishesConnectionQueueInv == ConnectionInit => ConnectionQueueInv
<1> SUFFICES ASSUME ConnectionInit PROVE ConnectionQueueInv
  OBVIOUS
<1>1. EventQueueInit
  BY DEF ConnectionInit
<1>2. QueueInv /\ QueueBounded /\ NoLostWakeup
  BY <1>1, InitEstablishesQueueInv, InitIsBounded
<1> QED  BY <1>2 DEF ConnectionQueueInv, QueueInv

LEMMA StepKeepsConnectionQueueInv ==
  ConnectionInv /\ ConnectionQueueInv /\ [ConnectionNext]_connectionVars => ConnectionQueueInv'
<1> SUFFICES ASSUME ConnectionInv, ConnectionQueueInv, [ConnectionNext]_connectionVars
             PROVE  ConnectionQueueInv'
  OBVIOUS
<1>1. CASE DisconnectStarts
  <2>1. /\ disconnecting = "no" /\ disconnecting' = "gathering" /\ worker' = "ended"
        /\ UNCHANGED <<pending, ready, clock, received, dropped, applied>>
    BY <1>1 DEF DisconnectStarts
  <2>2. NewestStateKept /\ QueueBounded
    BY <2>1 DEF ConnectionQueueInv
  <2>3. NewestStateKept' /\ QueueBounded' /\ NoLostWakeup'
    BY <2>1, <2>2 DEF NewestStateKept, QueueBounded, NoLostWakeup, Queued
  <2> QED  BY <2>1, <2>3 DEF ConnectionQueueInv
<1>2. CASE DisconnectEnds
  <2>1. disconnecting' = "done" /\ pending' = [k \in EventKey |-> Absent]
    BY <1>2 DEF DisconnectEnds
  <2>2. Queued' = {}
    BY <2>1 DEF Queued, Absent
  <2>3. QueueBounded' /\ NoLostWakeup'
    BY <2>2, FS_EmptySet, EventQueueAssumption
       DEF EventQueueAssumption, QueueBounded, NoLostWakeup
  <2> QED  BY <2>1, <2>3 DEF ConnectionQueueInv
<1>3. CASE ~DisconnectStarts /\ ~DisconnectEnds
  <2>1. /\ disconnecting' = disconnecting
        /\ IF disconnecting = "no" THEN [EventQueueNext]_queueVars ELSE UNCHANGED queueVars
    BY <1>3, QueueStepsOfConnection
  <2>2. CASE disconnecting = "no"
    <3>1. QueueInv /\ QueueBounded /\ NoLostWakeup /\ [EventQueueNext]_queueVars
      BY <2>1, <2>2 DEF ConnectionQueueInv
    <3>2. QueueInv' /\ QueueBounded' /\ NoLostWakeup'
      BY <3>1, QueueStepKeepsQueueInv, QueueStepKeepsBound, QueueStepKeepsWakeup
    <3> QED  BY <3>2 DEF ConnectionQueueInv, QueueInv
  <2>3. CASE disconnecting # "no"
    BY <2>1, <2>3 DEF ConnectionQueueInv, queueVars, NewestStateKept, QueueBounded,
                      NoLostWakeup, Queued
  <2> QED  BY <2>2, <2>3
<1> QED  BY <1>1, <1>2, <1>3

(* The queue of a connection keeps its invariant until disconnect().       *)
THEOREM ConnectionQueueInvariant == ConnectionSafety => []ConnectionQueueInv
  BY InitEstablishesConnectionQueueInv, StepKeepsConnectionQueueInv, ConnectionInvariant, PTL
     DEF ConnectionSafety

(* Whatever calls, losses and closings do around it, the queue of a        *)
(* connection never holds more than its limit of entries.                  *)
THEOREM ConnectionQueueIsBounded == ConnectionSafety => []QueueBounded
<1>1. ConnectionQueueInv => QueueBounded
  BY DEF ConnectionQueueInv
<1> QED  BY <1>1, ConnectionQueueInvariant, PTL

(* The worker of a connection never sleeps on work.                        *)
THEOREM ConnectionLosesNoWakeup == ConnectionSafety => []NoLostWakeup
<1>1. ConnectionQueueInv => NoLostWakeup
  BY DEF ConnectionQueueInv
<1> QED  BY <1>1, ConnectionQueueInvariant, PTL

(* Until disconnect() clears the queue (web_socket_client.py:72) the       *)
(* newest report of every slot is shown, queued or was discarded by the    *)
(* full queue, also after the connection was lost.                         *)
THEOREM ConnectionKeepsNewestState ==
  ConnectionSafety => [](disconnecting # "done" => NewestStateKept)
<1>1. ConnectionQueueInv => (disconnecting # "done" => NewestStateKept)
  BY DEF ConnectionQueueInv
<1> QED  BY <1>1, ConnectionQueueInvariant, PTL

(* No product goes back to an older report while the connection is used,   *)
(* lost or closed.                                                         *)
THEOREM ConnectionMirrorsNewestState == ConnectionSafety => MirrorsNewestState
<1>1. ConnectionInit => Mirror!MirrorInit
  BY DEF ConnectionInit, EventQueueInit, Mirror!MirrorInit
<1>2. ConnectionInv /\ ConnectionQueueInv /\ [ConnectionNext]_connectionVars
        => [Mirror!MirrorNext]_(Mirror!mirrorVars)
  <2> SUFFICES ASSUME ConnectionInv, ConnectionQueueInv, [ConnectionNext]_connectionVars
               PROVE  [Mirror!MirrorNext]_(Mirror!mirrorVars)
    OBVIOUS
  <2>1. CASE DisconnectStarts \/ DisconnectEnds
    BY <2>1 DEF DisconnectStarts, DisconnectEnds, Mirror!mirrorVars
  <2>2. CASE ~DisconnectStarts /\ ~DisconnectEnds
    <3>1. IF disconnecting = "no" THEN [EventQueueNext]_queueVars ELSE UNCHANGED queueVars
      BY <2>2, QueueStepsOfConnection
    <3>2. CASE disconnecting = "no"
      BY <3>1, <3>2, QueueStepMirrors DEF ConnectionQueueInv
    <3>3. CASE disconnecting # "no"
      BY <3>1, <3>3 DEF queueVars, Mirror!mirrorVars
    <3> QED  BY <3>2, <3>3
  <2> QED  BY <2>1, <2>2
<1> QED
  BY <1>1, <1>2, ConnectionInvariant, ConnectionQueueInvariant, PTL
     DEF ConnectionSafety, MirrorsNewestState, Mirror!MirrorSpec

-----------------------------------------------------------------------------
(* Loading the inventory while events arrive.  Either the newest report of *)
(* a station is still queued, or nothing of the station is queued behind   *)
(* it and it is discarded, the last of the station's deferred events, or   *)
(* shown.                                                                  *)

(* The queue's variables; the worker may be dead, unlike EventQueue's.     *)
QueueTypes ==
    /\ pending \in [EventKey -> [place : EventStamp, stamp : EventStamp]]
    /\ clock \in EventStamp
    /\ received \in [Slot -> EventStamp]
    /\ dropped \in [Slot -> EventStamp]
    /\ applied \in [Slot -> EventStamp]

(* Nothing is newer than the newest report of its slot.                    *)
NothingNewer ==
    /\ \A s \in Slot : dropped[s] <= received[s] /\ received[s] <= clock
    /\ \A i \in DOMAIN deferred : deferred[i].stamp <= received[SlotOf[deferred[i].key]]

(* A station nobody reported has no state but the one of its first read.   *)
Unreported ==
    \A s \in Station : received[s] = 0 => applied[s] = 0 /\ read[s] = 0 /\ DeferredAt(s) = {}

LoadedByPhase ==
    /\ phase \in Loading => "station" \notin loaded
    /\ phase = "ready" => "station" \in loaded

OnItsWay(s) == \E k \in Queued : SlotOf[k] = s /\ pending[k].stamp = received[s]

NoneQueued(s) == \A k \in Queued : SlotOf[k] # s

LastDeferred(s) ==
    \E i \in DeferredAt(s) : /\ \A j \in DeferredAt(s) : j <= i
                             /\ deferred[i].stamp = received[s]

Arrived(s) ==
    \/ received[s] \in {0, dropped[s]}
    \/ "station" \notin loaded /\ LastDeferred(s)
    \/ "station" \in loaded /\ (s \in inventory => applied[s] = received[s])

NewestIsFollowed == \A s \in Station : OnItsWay(s) \/ (NoneQueued(s) /\ Arrived(s))

BootstrapInv ==
    /\ BootstrapTypeOK
    /\ QueueTypes
    /\ PlacesFollowStamps
    /\ NothingNewer
    /\ Unreported
    /\ LoadedByPhase
    /\ NewestIsFollowed

LEMMA InitEstablishesBootstrapInv == BootstrapInit => BootstrapInv
<1> SUFFICES ASSUME BootstrapInit PROVE BootstrapInv
  OBVIOUS
<1> USE EventQueueAssumption, BootstrapAssumption DEF EventQueueAssumption, BootstrapAssumption
<1>1. EventQueueInit /\ deferred = <<>>
  BY DEF BootstrapInit
<1>2. EventQueueTypeOK /\ PlacesFollowStamps
  BY <1>1, InitEstablishesQueueInv DEF QueueInv
<1>3. QueueTypes
  BY <1>2 DEF EventQueueTypeOK, QueueTypes
<1>4. 0 \in EventStamp /\ DOMAIN deferred = {}
  BY <1>1 DEF EventStamp
<1>5. BootstrapTypeOK
  BY <1>1, <1>4 DEF BootstrapInit, EventQueueInit, BootstrapTypeOK, Loading
<1>6. NothingNewer
  BY <1>1, <1>4 DEF EventQueueInit, NothingNewer
<1>7. Unreported
  BY <1>1, <1>4 DEF BootstrapInit, EventQueueInit, Unreported, DeferredAt, Product
<1>8. LoadedByPhase
  BY DEF BootstrapInit, LoadedByPhase
<1>9. NewestIsFollowed
  <2>1. Queued = {}
    BY <1>1 DEF EventQueueInit, Queued, Absent
  <2> QED  BY <1>1, <2>1 DEF NewestIsFollowed, NoneQueued, Arrived, EventQueueInit
<1> QED  BY <1>2, <1>3, <1>5, <1>6, <1>7, <1>8, <1>9 DEF BootstrapInv

(* What holds of every queued entry.                                       *)
LEMMA EntryFacts ==
  ASSUME QueueTypes, PlacesFollowStamps, NothingNewer, NEW k \in Queued
  PROVE  /\ k \in EventKey /\ SlotOf[k] \in Slot
         /\ pending[k].stamp \in Nat /\ pending[k].stamp > 0
         /\ pending[k].stamp <= received[SlotOf[k]]
         /\ pending[k].place = pending[k].stamp
         /\ received[SlotOf[k]] \in Nat /\ clock \in Nat /\ pending[k].stamp <= clock
<1> USE EventQueueAssumption DEF EventQueueAssumption
<1>1. k \in EventKey /\ SlotOf[k] \in Slot /\ pending[k].place > 0
  BY DEF Queued
<1>2. pending[k].stamp \in Nat /\ pending[k].place = pending[k].stamp
      /\ pending[k].stamp <= received[SlotOf[k]]
  BY <1>1 DEF QueueTypes, PlacesFollowStamps, EventStamp
<1>3. received[SlotOf[k]] \in Nat /\ clock \in Nat /\ received[SlotOf[k]] <= clock
  BY <1>1 DEF QueueTypes, NothingNewer, EventStamp
<1> QED  BY <1>1, <1>2, <1>3

(* The oldest entry is the newest report of its slot only when nothing of  *)
(* the slot is queued behind it.                                           *)
LEMMA OldestIsNewest ==
  ASSUME QueueTypes, PlacesFollowStamps, NothingNewer, NEW k, IsOldest(k),
         pending[k].stamp = received[SlotOf[k]],
         NEW j \in Queued, SlotOf[j] = SlotOf[k]
  PROVE  j = k
<1>1. k \in Queued /\ pending[k].place <= pending[j].place
  BY DEF IsOldest
<1>2. pending[j].stamp <= pending[k].stamp
  BY EntryFacts
<1>3. pending[j].place = pending[k].place
  BY <1>1, <1>2, EntryFacts
<1> QED  BY <1>1, <1>3 DEF PlacesFollowStamps

(* A frame arrives: its slot's newest report is queued; another slot's     *)
(* stays where it was, or was the oldest entry and is discarded.           *)
LEMMA QueueEventFollows ==
  ASSUME QueueTypes, PlacesFollowStamps, NothingNewer, NEW k \in EventKey, QueueEvent(k)
  PROVE  /\ QueueTypes' /\ PlacesFollowStamps'
         /\ \A s \in Slot : dropped'[s] <= received'[s] /\ received'[s] <= clock'
         /\ \A s \in Slot : received[s] <= received'[s]
         /\ OnItsWay(SlotOf[k])' /\ received'[SlotOf[k]] # 0
         /\ \A s \in Slot \ {SlotOf[k]} :
               /\ received'[s] = received[s]
               /\ NoneQueued(s) => NoneQueued(s)' /\ dropped'[s] = dropped[s]
               /\ OnItsWay(s) => \/ OnItsWay(s)'
                                 \/ NoneQueued(s)' /\ dropped'[s] = received'[s]
<1> USE EventQueueAssumption DEF EventQueueAssumption
<1>1. /\ clock \in Nat /\ clock + 1 \in EventStamp /\ clock' = clock + 1
      /\ received' = [received EXCEPT ![SlotOf[k]] = clock + 1] /\ applied' = applied
  BY DEF QueueEvent, QueueTypes, EventStamp
<1>2. \E gone \in SUBSET (Queued \ {k}) :
         /\ \A j \in gone : IsOldest(j) /\ dropped'[SlotOf[j]] = pending[j].stamp
         /\ \A s \in Slot : (\A j \in gone : SlotOf[j] # s) => dropped'[s] = dropped[s]
         /\ \A j \in EventKey :
               pending'[j] = IF j = k THEN [place |-> clock + 1, stamp |-> clock + 1]
                             ELSE IF j \in gone THEN Absent ELSE pending[j]
         /\ pending' = [j \in EventKey |-> pending'[j]]
         /\ dropped' = [s \in Slot |-> dropped'[s]]
  <2>1. CASE ~MustDrop(k)
    <3>1. pending' = Requeued(k) /\ dropped' = dropped
      BY <2>1 DEF QueueEvent
    <3>2. {} \in SUBSET (Queued \ {k})
      OBVIOUS
    <3> QED  BY <3>1, <3>2 DEF Requeued, QueueTypes
  <2>2. CASE MustDrop(k)
    <3>1. PICK old \in EventKey : /\ IsOldest(old)
                                  /\ pending' = [Requeued(k) EXCEPT ![old] = Absent]
                                  /\ dropped' = [dropped EXCEPT ![SlotOf[old]] = pending[old].stamp]
      BY <2>2 DEF QueueEvent
    <3>2. old \in Queued \ {k} /\ SlotOf[old] \in Slot
      BY <2>2, <3>1 DEF MustDrop, IsOldest
    <3>3. /\ dropped'[SlotOf[old]] = pending[old].stamp
          /\ \A s \in Slot : SlotOf[old] # s => dropped'[s] = dropped[s]
          /\ dropped' = [s \in Slot |-> dropped'[s]]
      BY <3>1, <3>2 DEF QueueTypes
    <3>4. /\ \A j \in EventKey :
                pending'[j] = IF j = k THEN [place |-> clock + 1, stamp |-> clock + 1]
                              ELSE IF j \in {old} THEN Absent ELSE pending[j]
          /\ pending' = [j \in EventKey |-> pending'[j]]
      BY <3>1, <3>2 DEF Requeued, QueueTypes
    <3>5. {old} \in SUBSET (Queued \ {k})
      BY <3>2
    <3>6. \A j \in {old} : IsOldest(j) /\ dropped'[SlotOf[j]] = pending[j].stamp
      BY <3>1, <3>3
    <3>7. \A s \in Slot : (\A j \in {old} : SlotOf[j] # s) => dropped'[s] = dropped[s]
      BY <3>3
    <3> QED
      <4> WITNESS {old} \in SUBSET (Queued \ {k})
      <4> QED  BY <3>3, <3>4, <3>6, <3>7, Zenon
  <2> QED  BY <2>1, <2>2
<1>3. PICK gone \in SUBSET (Queued \ {k}) :
         /\ \A j \in gone : IsOldest(j) /\ dropped'[SlotOf[j]] = pending[j].stamp
         /\ \A s \in Slot : (\A j \in gone : SlotOf[j] # s) => dropped'[s] = dropped[s]
         /\ \A j \in EventKey :
               pending'[j] = IF j = k THEN [place |-> clock + 1, stamp |-> clock + 1]
                             ELSE IF j \in gone THEN Absent ELSE pending[j]
         /\ pending' = [j \in EventKey |-> pending'[j]]
         /\ dropped' = [s \in Slot |-> dropped'[s]]
  BY <1>2
<1>4. Queued' = (Queued \ gone) \union {k}
  BY <1>1, <1>3 DEF Queued, Absent
<1>5. /\ \A j \in Queued : j # k /\ j \notin gone => pending'[j] = pending[j]
      /\ pending'[k].stamp = clock + 1 /\ pending'[k].place = clock + 1
  BY <1>3 DEF Queued
<1>6. \A s \in Slot : /\ received[s] \in Nat /\ dropped[s] \in Nat
                      /\ dropped[s] <= received[s] /\ received[s] <= clock
                      /\ received'[s] = IF s = SlotOf[k] THEN clock + 1 ELSE received[s]
  BY <1>1 DEF QueueTypes, NothingNewer, EventStamp
<1>7. \A s \in Slot : \/ dropped'[s] = dropped[s]
                      \/ \E j \in gone : SlotOf[j] = s /\ dropped'[s] = pending[j].stamp
  BY <1>3
<1>8. \A s \in Slot : /\ dropped'[s] <= received'[s] /\ received'[s] <= clock'
                      /\ received[s] <= received'[s] /\ dropped'[s] \in EventStamp
  <2> SUFFICES ASSUME NEW s \in Slot
               PROVE  /\ dropped'[s] <= received'[s] /\ received'[s] <= clock'
                      /\ received[s] <= received'[s] /\ dropped'[s] \in EventStamp
    OBVIOUS
  <2>1. dropped'[s] \in Nat /\ dropped'[s] <= received[s]
    BY <1>6, <1>7, EntryFacts
  <2>2. received[s] <= received'[s] /\ received'[s] <= clock' /\ received'[s] \in Nat
    BY <1>1, <1>6
  <2> QED  BY <1>1, <1>6, <2>1, <2>2 DEF EventStamp, QueueTypes
<1>9. QueueTypes'
  <2>1. \A j \in EventKey : pending'[j] \in [place : EventStamp, stamp : EventStamp]
    BY <1>1, <1>3 DEF QueueTypes, Absent, EventStamp
  <2> QED  BY <1>1, <1>3, <1>8, <2>1 DEF QueueTypes
<1>10. PlacesFollowStamps'
  <2>1. \A j \in EventKey : pending'[j].place = pending'[j].stamp
    BY <1>3 DEF PlacesFollowStamps, Absent
  <2>2. \A j \in EventKey : pending'[j].stamp <= received'[SlotOf[j]]
    <3> SUFFICES ASSUME NEW j \in EventKey PROVE pending'[j].stamp <= received'[SlotOf[j]]
      OBVIOUS
    <3>1. /\ pending[j].stamp <= received[SlotOf[j]] /\ pending[j].stamp \in Nat
          /\ received[SlotOf[j]] <= received'[SlotOf[j]]
          /\ received[SlotOf[j]] \in Nat /\ received'[SlotOf[j]] \in Nat
          /\ received'[SlotOf[k]] = clock + 1
      BY <1>1, <1>6, <1>8 DEF PlacesFollowStamps, QueueTypes, EventStamp
    <3>2. pending'[j] = Absent => pending'[j].stamp = 0
      BY DEF Absent
    <3> QED  BY <1>1, <1>3, <1>5, <3>1, <3>2
  <2>3. \A j \in Queued : pending[j].place <= clock /\ pending[j].place \in Nat
    BY EntryFacts
  <2>4. \A i, j \in Queued' : pending'[i].place = pending'[j].place => i = j
    BY <1>1, <1>4, <1>5, <2>3 DEF PlacesFollowStamps
  <2> QED  BY <2>1, <2>2, <2>4 DEF PlacesFollowStamps
<1>11. OnItsWay(SlotOf[k])' /\ received'[SlotOf[k]] # 0
  BY <1>1, <1>4, <1>5, <1>6 DEF OnItsWay
<1>12. ASSUME NEW s \in Slot, s # SlotOf[k], NoneQueued(s)
       PROVE  NoneQueued(s)' /\ dropped'[s] = dropped[s]
  BY <1>3, <1>4, <1>12 DEF NoneQueued
<1>13. ASSUME NEW s \in Slot, s # SlotOf[k], OnItsWay(s)
       PROVE  OnItsWay(s)' \/ (NoneQueued(s)' /\ dropped'[s] = received'[s])
  <2>1. PICK j \in Queued : SlotOf[j] = s /\ pending[j].stamp = received[s]
    BY <1>13 DEF OnItsWay
  <2>2. CASE j \notin gone
    BY <1>4, <1>5, <1>6, <1>13, <2>1, <2>2 DEF OnItsWay
  <2>3. CASE j \in gone
    <3>1. \A i \in Queued : SlotOf[i] = s => i = j
      BY <1>3, <2>1, <2>3, OldestIsNewest
    <3>2. NoneQueued(s)'
      BY <1>4, <1>13, <2>3, <3>1 DEF NoneQueued
    <3> QED  BY <1>3, <1>6, <1>13, <2>1, <2>3, <3>2
  <2> QED  BY <2>2, <2>3
<1> QED  BY <1>6, <1>8, <1>9, <1>10, <1>11, <1>12, <1>13

(* The worker takes the oldest entry: nothing of its slot stays queued     *)
(* when it is the newest report, and a newer one stays queued otherwise.   *)
LEMMA TakeOldestFollows ==
  ASSUME QueueTypes, PlacesFollowStamps, NothingNewer, NEW k \in EventKey, IsOldest(k),
         pending' = [pending EXCEPT ![k] = Absent], received' = received
  PROVE  /\ k \in Queued
         /\ pending' \in [EventKey -> [place : EventStamp, stamp : EventStamp]]
         /\ PlacesFollowStamps'
         /\ \A s \in Slot :
               /\ NoneQueued(s) => s # SlotOf[k] /\ NoneQueued(s)'
               /\ OnItsWay(s) =>
                     \/ OnItsWay(s)'
                     \/ s = SlotOf[k] /\ pending[k].stamp = received[s] /\ NoneQueued(s)'
<1> USE EventQueueAssumption DEF EventQueueAssumption
<1>1. /\ k \in Queued /\ IsOldest(k) /\ received' = received
      /\ pending' = [pending EXCEPT ![k] = Absent]
  BY DEF IsOldest
<1>2. \A j \in EventKey : pending'[j] = IF j = k THEN Absent ELSE pending[j]
  BY <1>1 DEF QueueTypes
<1>3. Queued' = Queued \ {k}
  BY <1>2 DEF Queued, Absent
<1>4. pending' \in [EventKey -> [place : EventStamp, stamp : EventStamp]]
  <2>1. Absent \in [place : EventStamp, stamp : EventStamp]
    BY DEF Absent, EventStamp, QueueTypes
  <2> QED  BY <1>1, <2>1 DEF QueueTypes
<1>5. PlacesFollowStamps'
  <2>1. \A j \in EventKey : received[SlotOf[j]] \in Nat
    <3>1. \A s \in Slot : received[s] \in Nat
      BY DEF QueueTypes, EventStamp
    <3> QED  BY <3>1
  <2>2. Absent.place = 0 /\ Absent.stamp = 0
    BY DEF Absent
  <2>3. \A j \in EventKey : /\ pending'[j].place = pending'[j].stamp
                            /\ pending'[j].stamp <= received'[SlotOf[j]]
    BY <1>1, <1>2, <2>1, <2>2 DEF PlacesFollowStamps
  <2>4. \A i, j \in Queued' : pending'[i].place = pending'[j].place => i = j
    BY <1>2, <1>3 DEF PlacesFollowStamps, Queued
  <2> QED  BY <2>3, <2>4 DEF PlacesFollowStamps
<1>6. ASSUME NEW s \in Slot, NoneQueued(s) PROVE s # SlotOf[k] /\ NoneQueued(s)'
  BY <1>1, <1>3, <1>6 DEF NoneQueued
<1>7. ASSUME NEW s \in Slot, OnItsWay(s)
      PROVE  \/ OnItsWay(s)'
             \/ s = SlotOf[k] /\ pending[k].stamp = received[s] /\ NoneQueued(s)'
  <2>1. PICK j \in Queued : SlotOf[j] = s /\ pending[j].stamp = received[s]
    BY <1>7 DEF OnItsWay
  <2>2. CASE j # k
    BY <1>1, <1>2, <1>3, <2>1, <2>2 DEF OnItsWay, Queued
  <2>3. CASE j = k
    <3>1. \A i \in Queued : SlotOf[i] = s => i = k
      BY <1>1, <2>1, <2>3, OldestIsNewest
    <3> QED  BY <1>3, <2>1, <2>3, <3>1 DEF NoneQueued
  <2> QED  BY <2>2, <2>3
<1> QED  BY <1>1, <1>4, <1>5, <1>6, <1>7

(* A set of places that is not empty has a last one, which Max chooses.    *)
LEMMA LastExists ==
  ASSUME NEW n \in Nat, NEW S \in SUBSET (1..n), S # {}
  PROVE  /\ Max(S) \in S /\ \A j \in S : j <= Max(S)
<1> DEFINE T == {m \in Nat : m <= n /\ (n - m) \in S}
<1>1. T \subseteq Nat /\ T # {}
  <2>1. PICK i \in S : TRUE
    OBVIOUS
  <2>2. i \in 1..n /\ n - i \in Nat /\ n - i <= n /\ n - (n - i) = i
    BY <2>1
  <2> QED  BY <2>1, <2>2
<1>2. \E m \in T : \A l \in T : ~ (<<l, m>> \in OpToRel(<, Nat))
  <2> HIDE DEF T
  <2> QED  BY <1>1, NatLessThanWellFounded, WFMin, Zenon
<1>3. PICK m \in T : \A l \in T : ~ (<<l, m>> \in OpToRel(<, Nat))
  BY <1>2
<1>4. \A l \in T : ~ (l < m)
  <2>1. OpToRel(<, Nat) = {ss \in Nat \X Nat : ss[1] < ss[2]}
    BY Zenon DEF OpToRel
  <2> HIDE DEF T
  <2>2. \A l \in T : <<l, m>> \notin {ss \in Nat \X Nat : ss[1] < ss[2]}
    BY <1>3, <2>1, Zenon
  <2> QED  BY <1>1, <2>2
<1>5. \A j \in S : j <= n - m
  <2> SUFFICES ASSUME NEW j \in S PROVE j <= n - m
    OBVIOUS
  <2>1. j \in 1..n /\ n - j \in Nat /\ n - (n - j) = j
    OBVIOUS
  <2>2. n - j \in T
    BY <2>1
  <2>3. m \in Nat /\ m <= n
    OBVIOUS
  <2>4. ~(n - j < m)
    BY <1>4, <2>2
  <2> HIDE DEF T
  <2> QED  BY <2>1, <2>3, <2>4
<1>6. n - m \in S /\ \A j \in S : n - m >= j /\ j \in Nat /\ n - m \in Nat
  BY <1>5
<1>7. Max(S) \in S /\ \A j \in S : Max(S) >= j
  BY <1>6 DEF Max
<1> QED  BY <1>7

LEMMA DeferredFacts ==
  ASSUME BootstrapInv, NEW i \in DOMAIN deferred
  PROVE  /\ deferred[i] \in [key : EventKey, stamp : EventStamp]
         /\ deferred[i].stamp \in Nat /\ SlotOf[deferred[i].key] \in Slot
<1> USE EventQueueAssumption DEF EventQueueAssumption
<1>1. deferred \in Seq([key : EventKey, stamp : EventStamp])
  BY DEF BootstrapInv, BootstrapTypeOK
<1>2. i \in 1..Len(deferred)
  BY <1>1
<1>3. deferred[i] \in [key : EventKey, stamp : EventStamp]
  BY <1>1, <1>2, ElementOfSeq
<1> QED  BY <1>3 DEF EventStamp

LEMMA LastOfDeferred ==
  ASSUME BootstrapInv, NEW s, DeferredAt(s) # {}
  PROVE  /\ Max(DeferredAt(s)) \in DeferredAt(s)
         /\ \A j \in DeferredAt(s) : j <= Max(DeferredAt(s)) /\ j \in Nat
         /\ ReplayedLast(s) \in EventStamp
<1>1. deferred \in Seq([key : EventKey, stamp : EventStamp])
  BY DEF BootstrapInv, BootstrapTypeOK
<1>2. DeferredAt(s) \in SUBSET (1..Len(deferred)) /\ Len(deferred) \in Nat
  BY <1>1 DEF DeferredAt
<1>3. Max(DeferredAt(s)) \in DeferredAt(s) /\ \A j \in DeferredAt(s) : j <= Max(DeferredAt(s))
  <2> HIDE DEF DeferredAt
  <2> QED  BY <1>2, LastExists
<1>4. ReplayedLast(s) \in EventStamp
  <2> DEFINE last == Max(DeferredAt(s))
  <2>1. last \in 1..Len(deferred) /\ ReplayedLast(s) = deferred[last].stamp
    BY <1>2, <1>3 DEF ReplayedLast
  <2> HIDE DEF last
  <2>2. deferred[last] \in [key : EventKey, stamp : EventStamp]
    BY <1>1, <2>1, ElementOfSeq
  <2> QED  BY <2>1, <2>2
<1> QED  BY <1>2, <1>3, <1>4

(* What loading alone does: the queue and the list are left as they are,   *)
(* no inventory appears.                                                   *)
LEMMA QuietStepKeepsBootstrapInv ==
  ASSUME BootstrapInv, UNCHANGED <<pending, clock, received, dropped, applied>>,
         UNCHANGED <<loaded, read, inventory, deferred>>, BootstrapTypeOK',
         phase' = phase \/ (phase \in Loading /\ phase' # "ready")
  PROVE  BootstrapInv'
<1>1. QueueTypes' /\ PlacesFollowStamps'
  BY DEF BootstrapInv, QueueTypes, PlacesFollowStamps, Queued
<1>2. NothingNewer' /\ Unreported'
  BY DEF BootstrapInv, NothingNewer, Unreported, DeferredAt
<1>3. LoadedByPhase'
  BY DEF BootstrapInv, LoadedByPhase
<1>4. \A s \in Station : /\ OnItsWay(s)' = OnItsWay(s) /\ NoneQueued(s)' = NoneQueued(s)
                         /\ Arrived(s)' = Arrived(s)
  BY DEF OnItsWay, NoneQueued, Arrived, LastDeferred, DeferredAt, Queued
<1>5. NewestIsFollowed'
  BY <1>4 DEF BootstrapInv, NewestIsFollowed
<1> QED  BY <1>1, <1>2, <1>3, <1>5 DEF BootstrapInv

LEMMA LoadingKeepsBootstrapInv ==
  ASSUME BootstrapInv,
         \/ StartListening \/ ConnectFails \/ InteractiveStep
         \/ \E s \in Product : StartBuild(s) \/ EndBuild(s)
  PROVE  BootstrapInv'
<1>1. UNCHANGED <<queueVars, loaded, read, inventory, deferred>>
  BY DEF StartListening, ConnectFails, InteractiveStep, CaptchaWanted, CaptchaTimesOut,
         MfaCheckEnds, StartBuild, EndBuild
<1>2. phase' = phase \/ (phase \in Loading /\ phase' # "ready")
  BY DEF StartListening, ConnectFails, InteractiveStep, CaptchaWanted, CaptchaTimesOut,
         MfaCheckEnds, StartBuild, EndBuild, Loading
<1>3. BootstrapTypeOK
  BY DEF BootstrapInv
<1>4. phase' \in Loading \union {"ready", "failed"}
  BY <1>3 DEF StartListening, ConnectFails, InteractiveStep, CaptchaWanted, CaptchaTimesOut,
         MfaCheckEnds, StartBuild, EndBuild, Loading, BootstrapTypeOK
<1>5. build' \in [Product -> {"queued", "building", "read", "built", "omitted"}]
  BY <1>3 DEF StartListening, ConnectFails, InteractiveStep, CaptchaWanted, CaptchaTimesOut,
         MfaCheckEnds, StartBuild, EndBuild, BootstrapTypeOK
<1>6. captcha' \in {"pending", "done", "cancelled"} /\ mfa' \in {"pending", "done", "cancelled"}
  BY <1>3 DEF StartListening, ConnectFails, InteractiveStep, CaptchaWanted, CaptchaTimesOut,
         MfaCheckEnds, StartBuild, EndBuild, BootstrapTypeOK
<1>7. BootstrapTypeOK'
  BY <1>1, <1>3, <1>4, <1>5, <1>6 DEF BootstrapTypeOK, queueVars
<1> QED  BY <1>1, <1>2, <1>7, QuietStepKeepsBootstrapInv DEF queueVars

(* A property read shows a report already received.                        *)
LEMMA ReadPropertiesKeepsBootstrapInv ==
  ASSUME BootstrapInv, NEW p \in Product, ReadProperties(p)
  PROVE  BootstrapInv'
<1> USE BootstrapAssumption DEF BootstrapAssumption, Product
<1>1. /\ UNCHANGED <<pending, ready, worker, clock, received, dropped, applied>>
      /\ UNCHANGED <<phase, loaded, inventory, deferred, captcha, mfa>>
      /\ build' = [build EXCEPT ![p] = "read"] /\ read' = [read EXCEPT ![p] = received[p]]
  BY DEF ReadProperties, queueVars
<1>2. BootstrapTypeOK'
  <2>1. received[p] \in EventStamp
    BY DEF BootstrapInv, QueueTypes
  <2> QED  BY <1>1, <2>1 DEF BootstrapInv, BootstrapTypeOK
<1>3. QueueTypes' /\ PlacesFollowStamps' /\ NothingNewer' /\ LoadedByPhase'
  BY <1>1 DEF BootstrapInv, QueueTypes, PlacesFollowStamps, Queued, NothingNewer, LoadedByPhase
<1>4. Unreported'
  <2>1. \A s \in Station : read'[s] = IF s = p THEN received[s] ELSE read[s]
    BY <1>1 DEF BootstrapInv, BootstrapTypeOK
  <2>2. \A s \in Station : DeferredAt(s)' = DeferredAt(s)
    BY <1>1 DEF DeferredAt
  <2> QED  BY <1>1, <2>1, <2>2 DEF BootstrapInv, Unreported
<1>5. \A s \in Station : /\ OnItsWay(s)' = OnItsWay(s) /\ NoneQueued(s)' = NoneQueued(s)
                         /\ Arrived(s)' = Arrived(s)
  BY <1>1 DEF OnItsWay, NoneQueued, Arrived, LastDeferred, DeferredAt, Queued
<1>6. NewestIsFollowed'
  BY <1>5 DEF BootstrapInv, NewestIsFollowed
<1> QED  BY <1>2, <1>3, <1>4, <1>6 DEF BootstrapInv

LEMMA PublishDevicesKeepsBootstrapInv ==
  ASSUME BootstrapInv, PublishDevices
  PROVE  BootstrapInv'
<1> USE BootstrapAssumption DEF BootstrapAssumption
<1>1. /\ UNCHANGED <<pending, ready, worker, clock, received, dropped>>
      /\ UNCHANGED <<build, read, deferred, captcha, mfa>>
      /\ phase = "devices" /\ phase' = "stations" /\ loaded' = loaded \union {"device"}
      /\ inventory' = inventory \union Published /\ applied' = AfterPublish
  BY DEF PublishDevices
<1>2. Published \subseteq Device
  BY <1>1 DEF Published, Listed
<1>3. /\ \A s \in Station : applied'[s] = applied[s]
      /\ applied' \in [Slot -> EventStamp]
  BY <1>1, <1>2 DEF AfterPublish, BootstrapInv, QueueTypes, BootstrapTypeOK, Product
<1>4. BootstrapTypeOK'
  BY <1>1, <1>2 DEF BootstrapInv, BootstrapTypeOK, Product, Loading
<1>5. QueueTypes' /\ PlacesFollowStamps' /\ NothingNewer'
  BY <1>1, <1>3 DEF BootstrapInv, QueueTypes, PlacesFollowStamps, Queued, NothingNewer
<1>6. LoadedByPhase'
  BY <1>1 DEF BootstrapInv, LoadedByPhase, Loading
<1>7. Unreported'
  <2>1. \A s \in Station : DeferredAt(s)' = DeferredAt(s)
    BY <1>1 DEF DeferredAt
  <2> QED  BY <1>1, <1>3, <2>1 DEF BootstrapInv, Unreported
<1>8. \A s \in Station : /\ OnItsWay(s)' = OnItsWay(s) /\ NoneQueued(s)' = NoneQueued(s)
                         /\ Arrived(s)' = Arrived(s)
  BY <1>1, <1>2, <1>3 DEF OnItsWay, NoneQueued, Arrived, LastDeferred, DeferredAt, Queued
<1>9. NewestIsFollowed'
  BY <1>8 DEF BootstrapInv, NewestIsFollowed
<1> QED  BY <1>4, <1>5, <1>6, <1>7, <1>9 DEF BootstrapInv

(* The replay ends with the newest deferred report, which is the newest of *)
(* all when it is neither queued nor discarded.                            *)
LEMMA PublishStationsKeepsBootstrapInv ==
  ASSUME BootstrapInv, PublishStationsAndReplay
  PROVE  BootstrapInv'
<1> USE BootstrapAssumption DEF BootstrapAssumption
<1>1. /\ UNCHANGED <<pending, ready, worker, clock, received, dropped>>
      /\ UNCHANGED <<build, read, captcha, mfa>> /\ deferred' = <<>>
      /\ phase = "stations" /\ phase' = "ready" /\ loaded' = loaded \union {"station"}
      /\ inventory' = inventory \union Published
      /\ applied' = [s \in Slot |-> IF s \in inventory' /\ DeferredAt(s) # {}
                                    THEN ReplayedLast(s) ELSE AfterPublish[s]]
  BY DEF PublishStationsAndReplay
<1>2. Published \subseteq Station /\ "station" \notin loaded /\ DOMAIN deferred' = {}
  BY <1>1 DEF Published, Listed, BootstrapInv, LoadedByPhase, Loading
<1>3. AfterPublish \in [Slot -> EventStamp]
  BY <1>2 DEF AfterPublish, BootstrapInv, QueueTypes, BootstrapTypeOK, Product
<1>4. /\ applied' \in [Slot -> EventStamp]
      /\ \A s \in Slot : applied'[s] = IF s \in inventory' /\ DeferredAt(s) # {}
                                       THEN ReplayedLast(s) ELSE AfterPublish[s]
  <2>1. \A s \in Slot : DeferredAt(s) # {} => ReplayedLast(s) \in EventStamp
    BY LastOfDeferred
  <2> QED  BY <1>1, <1>3, <2>1
<1>5. BootstrapTypeOK'
  BY <1>1, <1>2 DEF BootstrapInv, BootstrapTypeOK, Product
<1>6. QueueTypes' /\ PlacesFollowStamps' /\ NothingNewer'
  BY <1>1, <1>2, <1>4 DEF BootstrapInv, QueueTypes, PlacesFollowStamps, Queued, NothingNewer
<1>7. LoadedByPhase'
  BY <1>1 DEF LoadedByPhase, Loading
<1>8. \A s \in Station : received[s] = 0 => applied'[s] = 0 /\ read[s] = 0
  BY <1>4 DEF BootstrapInv, Unreported, AfterPublish
<1>9. Unreported'
  BY <1>1, <1>2, <1>8 DEF Unreported, DeferredAt
<1>10. ASSUME NEW s \in Station, LastDeferred(s), s \in inventory'
       PROVE  applied'[s] = received[s]
  <2>1. PICK i \in DeferredAt(s) : /\ \A j \in DeferredAt(s) : j <= i
                                   /\ deferred[i].stamp = received[s]
    BY <1>10 DEF LastDeferred
  <2>2. Max(DeferredAt(s)) = i
    BY <2>1, LastOfDeferred
  <2> QED  BY <1>4, <1>10, <2>1, <2>2 DEF ReplayedLast
<1>11. NewestIsFollowed'
  <2> SUFFICES ASSUME NEW s \in Station PROVE OnItsWay(s)' \/ (NoneQueued(s)' /\ Arrived(s)')
    BY DEF NewestIsFollowed
  <2>1. OnItsWay(s)' = OnItsWay(s) /\ NoneQueued(s)' = NoneQueued(s)
    BY <1>1 DEF OnItsWay, NoneQueued, Queued
  <2>2. Arrived(s) => Arrived(s)'
    BY <1>1, <1>2, <1>10 DEF Arrived
  <2> QED  BY <2>1, <2>2 DEF BootstrapInv, NewestIsFollowed
<1> QED  BY <1>5, <1>6, <1>7, <1>9, <1>11 DEF BootstrapInv

LEMMA EventArrivesKeepsBootstrapInv ==
  ASSUME BootstrapInv, NEW k \in EventKey, EventArrives(k)
  PROVE  BootstrapInv'
<1> USE EventQueueAssumption, BootstrapAssumption DEF EventQueueAssumption, BootstrapAssumption
<1>1. /\ QueueEvent(k) /\ UNCHANGED <<worker, applied>> /\ SlotOf[k] \in Slot
      /\ UNCHANGED <<phase, loaded, build, read, inventory, deferred, captcha, mfa>>
  BY DEF EventArrives, QueueEvent, bootVars
<1>2. /\ QueueTypes' /\ PlacesFollowStamps'
      /\ \A s \in Slot : dropped'[s] <= received'[s] /\ received'[s] <= clock'
      /\ \A s \in Slot : received[s] <= received'[s]
      /\ OnItsWay(SlotOf[k])' /\ received'[SlotOf[k]] # 0
      /\ \A s \in Slot \ {SlotOf[k]} :
            /\ received'[s] = received[s]
            /\ NoneQueued(s) => NoneQueued(s)' /\ dropped'[s] = dropped[s]
            /\ OnItsWay(s) => \/ OnItsWay(s)'
                              \/ NoneQueued(s)' /\ dropped'[s] = received'[s]
  BY <1>1, QueueEventFollows DEF BootstrapInv
<1>3. BootstrapTypeOK' /\ LoadedByPhase'
  BY <1>1 DEF BootstrapInv, BootstrapTypeOK, LoadedByPhase
<1>4. NothingNewer'
  <2>1. \A i \in DOMAIN deferred : /\ deferred[i].stamp \in Nat
                                   /\ SlotOf[deferred[i].key] \in Slot
    BY DeferredFacts
  <2>2. \A s \in Slot : received[s] \in Nat /\ received'[s] \in Nat
    BY <1>2 DEF BootstrapInv, QueueTypes, EventStamp
  <2> QED  BY <1>1, <1>2, <2>1, <2>2 DEF BootstrapInv, NothingNewer
<1>5. \A s \in Station : DeferredAt(s)' = DeferredAt(s)
  BY <1>1 DEF DeferredAt
<1>6. Unreported'
  BY <1>1, <1>2, <1>5 DEF BootstrapInv, Unreported
<1>7. NewestIsFollowed'
  <2> SUFFICES ASSUME NEW s \in Station, s # SlotOf[k]
               PROVE  OnItsWay(s)' \/ (NoneQueued(s)' /\ Arrived(s)')
    BY <1>2 DEF NewestIsFollowed
  <2>1. CASE OnItsWay(s)
    BY <1>2, <2>1 DEF Arrived
  <2>2. CASE NoneQueued(s) /\ Arrived(s)
    BY <1>1, <1>2, <1>5, <2>2 DEF Arrived, LastDeferred
  <2> QED  BY <2>1, <2>2 DEF BootstrapInv, NewestIsFollowed
<1> QED  BY <1>2, <1>3, <1>4, <1>6, <1>7 DEF BootstrapInv

(* The list once an event of k is put aside: cut at its head when full.    *)
LEMMA DeferredAfter ==
  ASSUME BootstrapInv, NEW k \in EventKey,
         deferred' = Append(IF DeferralFull THEN Tail(deferred) ELSE deferred, DeferredEvent(k))
  PROVE  LET n == Len(deferred)
             cut == IF DeferralFull THEN 1 ELSE 0
         IN  /\ n \in Nat /\ cut \in {0, 1} /\ (cut = 1 => n >= 1)
             /\ deferred' \in Seq([key : EventKey, stamp : EventStamp])
             /\ Len(deferred') = n - cut + 1 /\ Len(deferred') <= DeferCap
             /\ \A i \in 1..(n - cut) : deferred'[i] = deferred[i + cut]
             /\ deferred'[n - cut + 1] = DeferredEvent(k)
             /\ DeferralFull => Head(deferred) = deferred[1]
<1> USE BootstrapAssumption DEF BootstrapAssumption
<1>1. deferred \in Seq([key : EventKey, stamp : EventStamp]) /\ Len(deferred) <= DeferCap
  BY DEF BootstrapInv, BootstrapTypeOK
<1>2. DeferredEvent(k) \in [key : EventKey, stamp : EventStamp]
  BY DEF BootstrapInv, QueueTypes, DeferredEvent
<1> HIDE DEF DeferredEvent
<1>3. CASE DeferralFull
  <2>1. Len(deferred) >= 1 /\ Len(deferred) \in Nat /\ deferred # <<>>
    BY <1>1, <1>3 DEF DeferralFull
  <2>2. /\ Tail(deferred) \in Seq([key : EventKey, stamp : EventStamp])
        /\ Len(Tail(deferred)) = Len(deferred) - 1
        /\ \A i \in 1..(Len(deferred) - 1) : Tail(deferred)[i] = deferred[i + 1]
    BY <1>1, <2>1
  <2>3. deferred' = Append(Tail(deferred), DeferredEvent(k))
    BY <1>3
  <2> QED  BY <1>1, <1>2, <1>3, <2>1, <2>2, <2>3
<1>4. CASE ~DeferralFull
  <2>1. Len(deferred) \in Nat /\ Len(deferred) < DeferCap
    BY <1>1, <1>4 DEF DeferralFull
  <2> QED  BY <1>1, <1>2, <1>4, <2>1
<1> QED  BY <1>3, <1>4

(* A deferred event is the last of its slot; the head a full list loses is *)
(* counted as discarded.                                                   *)
LEMMA DeferEventKeepsBootstrapInv ==
  ASSUME BootstrapInv, NEW k \in EventKey, DeferEvent(k)
  PROVE  BootstrapInv'
<1> USE EventQueueAssumption, BootstrapAssumption DEF EventQueueAssumption, BootstrapAssumption
<1> DEFINE n == Len(deferred)
           cut == IF DeferralFull THEN 1 ELSE 0
<1>1. /\ IsOldest(k) /\ SlotOf[k] \in Slot \ {Driver} /\ KindOf(SlotOf[k]) \notin loaded
      /\ pending' = [pending EXCEPT ![k] = Absent] /\ worker' = "yielding"
      /\ deferred' = Append(IF DeferralFull THEN Tail(deferred) ELSE deferred, DeferredEvent(k))
      /\ dropped' = IF DeferralFull THEN Discarded(Head(deferred)) ELSE dropped
      /\ UNCHANGED <<phase, loaded, build, read, inventory, captcha, mfa>>
      /\ UNCHANGED <<clock, received, applied>>
  BY DEF DeferEvent
<1>2. /\ k \in Queued
      /\ pending' \in [EventKey -> [place : EventStamp, stamp : EventStamp]]
      /\ PlacesFollowStamps'
      /\ \A s \in Slot :
            /\ NoneQueued(s) => s # SlotOf[k] /\ NoneQueued(s)'
            /\ OnItsWay(s) =>
                  \/ OnItsWay(s)'
                  \/ s = SlotOf[k] /\ pending[k].stamp = received[s] /\ NoneQueued(s)'
  BY <1>1, TakeOldestFollows DEF BootstrapInv
<1>3. /\ n \in Nat /\ cut \in {0, 1} /\ (cut = 1 => n >= 1)
      /\ deferred' \in Seq([key : EventKey, stamp : EventStamp])
      /\ Len(deferred') = n - cut + 1 /\ Len(deferred') <= DeferCap
      /\ \A i \in 1..(n - cut) : deferred'[i] = deferred[i + cut]
      /\ deferred'[n - cut + 1] = DeferredEvent(k)
      /\ DeferralFull => Head(deferred) = deferred[1]
  BY <1>1, DeferredAfter
<1>4. DOMAIN deferred = 1..n /\ DOMAIN deferred' = 1..(n - cut + 1)
  BY <1>3 DEF BootstrapInv, BootstrapTypeOK
<1>5. /\ pending[k].stamp \in Nat /\ pending[k].stamp > 0
      /\ pending[k].stamp <= received[SlotOf[k]]
  BY <1>2, EntryFacts DEF BootstrapInv
<1>6. \A s \in Slot : /\ received[s] \in Nat /\ dropped[s] \in Nat
                      /\ dropped[s] <= received[s] /\ received[s] <= clock
  BY DEF BootstrapInv, QueueTypes, NothingNewer, EventStamp
<1>7. /\ dropped' \in [Slot -> EventStamp]
      /\ \A s \in Slot : dropped[s] <= dropped'[s] /\ dropped'[s] <= received[s]
      /\ cut = 1 => deferred[1].stamp <= dropped'[SlotOf[deferred[1].key]]
  <2>1. CASE DeferralFull
    <3>1. /\ 1 \in DOMAIN deferred /\ Head(deferred) = deferred[1]
          /\ deferred[1].stamp <= received[SlotOf[deferred[1].key]]
      BY <1>3, <1>4, <2>1 DEF BootstrapInv, NothingNewer
    <3>2. /\ deferred[1] \in [key : EventKey, stamp : EventStamp]
          /\ deferred[1].stamp \in Nat /\ SlotOf[deferred[1].key] \in Slot
      BY <3>1, DeferredFacts
    <3>3. /\ dropped' = [s \in Slot |-> dropped'[s]]
          /\ \A s \in Slot :
                dropped'[s] = IF s = SlotOf[deferred[1].key] /\ deferred[1].stamp > dropped[s]
                              THEN deferred[1].stamp ELSE dropped[s]
      BY <1>1, <2>1, <3>1, <3>2 DEF Discarded, BootstrapInv, QueueTypes
    <3>4. \A s \in Slot : dropped'[s] \in EventStamp
      BY <3>2, <3>3 DEF BootstrapInv, QueueTypes
    <3>5. dropped' \in [Slot -> EventStamp]
      BY <3>3, <3>4
    <3> QED  BY <1>6, <3>1, <3>2, <3>3, <3>5
  <2>2. CASE ~DeferralFull
    BY <1>1, <1>6, <2>2 DEF BootstrapInv, QueueTypes
  <2> QED  BY <2>1, <2>2
<1> HIDE DEF n, cut
<1>8. ASSUME NEW s \in Slot, s # SlotOf[k]
      PROVE  /\ \A i \in DeferredAt(s)' : i \in 1..(n - cut) /\ i + cut \in DeferredAt(s)
             /\ \A i \in 1..(n - cut) : i + cut \in DeferredAt(s) => i \in DeferredAt(s)'
  <2>1. DeferredEvent(k).key = k
    BY DEF DeferredEvent
  <2>2. ASSUME NEW i \in DeferredAt(s)' PROVE i \in 1..(n - cut) /\ i + cut \in DeferredAt(s)
    <3>1. i \in 1..(n - cut + 1) /\ SlotOf[deferred'[i].key] = s
      BY <1>4 DEF DeferredAt
    <3>2. i \in 1..(n - cut) /\ i + cut \in 1..n
      BY <1>3, <1>8, <2>1, <3>1
    <3> QED  BY <1>3, <1>4, <3>1, <3>2 DEF DeferredAt
  <2>3. ASSUME NEW i \in 1..(n - cut), i + cut \in DeferredAt(s) PROVE i \in DeferredAt(s)'
    <3>1. i \in 1..(n - cut + 1) /\ deferred'[i] = deferred[i + cut]
      BY <1>3
    <3> QED  BY <1>4, <2>3, <3>1 DEF DeferredAt
  <2> QED  BY <2>2, <2>3
<1>9. BootstrapTypeOK'
  BY <1>1, <1>3 DEF BootstrapInv, BootstrapTypeOK
<1>10. QueueTypes' /\ LoadedByPhase'
  BY <1>1, <1>2, <1>7 DEF BootstrapInv, QueueTypes, LoadedByPhase
<1>11. NothingNewer'
  <2>1. \A i \in DOMAIN deferred' : deferred'[i].stamp <= received'[SlotOf[deferred'[i].key]]
    <3> SUFFICES ASSUME NEW i \in DOMAIN deferred'
                 PROVE  deferred'[i].stamp <= received[SlotOf[deferred'[i].key]]
      BY <1>1
    <3>1. CASE i = n - cut + 1
      BY <1>3, <1>5, <3>1 DEF DeferredEvent
    <3>2. CASE i # n - cut + 1
      <4>1. i \in 1..(n - cut) /\ i + cut \in DOMAIN deferred
        BY <1>3, <1>4, <3>2
      <4> QED  BY <1>3, <4>1 DEF BootstrapInv, NothingNewer
    <3> QED  BY <3>1, <3>2
  <2> QED  BY <1>1, <1>6, <1>7, <2>1 DEF NothingNewer
<1>12. Unreported'
  BY <1>1, <1>5, <1>8 DEF BootstrapInv, Unreported
<1>13. ASSUME NEW s \in Station, OnItsWay(s)
       PROVE  OnItsWay(s)' \/ (NoneQueued(s)' /\ Arrived(s)')
  <2>1. CASE s = SlotOf[k] /\ pending[k].stamp = received[s] /\ NoneQueued(s)'
    <3>1. "station" \notin loaded'
      BY <1>1, <2>1 DEF KindOf
    <3>2. DeferredEvent(k).key = k /\ DeferredEvent(k).stamp = received[s]
      BY <2>1 DEF DeferredEvent
    <3>3. /\ n - cut + 1 \in DeferredAt(s)' /\ \A j \in DeferredAt(s)' : j <= n - cut + 1
          /\ deferred'[n - cut + 1].stamp = received'[s]
      BY <1>1, <1>3, <1>4, <2>1, <3>2 DEF DeferredAt
    <3> QED  BY <2>1, <3>1, <3>3 DEF Arrived, LastDeferred
  <2> QED  BY <1>2, <1>13, <2>1
<1>14. ASSUME NEW s \in Station, NoneQueued(s), Arrived(s)
       PROVE  NoneQueued(s)' /\ Arrived(s)'
  <2>1. s # SlotOf[k] /\ NoneQueued(s)'
    BY <1>2, <1>14
  <2>2. ASSUME LastDeferred(s) PROVE LastDeferred(s)' \/ dropped'[s] = received'[s]
    <3>1. PICK i \in DeferredAt(s) : /\ \A j \in DeferredAt(s) : j <= i
                                     /\ deferred[i].stamp = received[s]
      BY <2>2 DEF LastDeferred
    <3>2. i \in 1..n /\ \A j \in DeferredAt(s) : j \in Nat
      BY <1>3, <1>4, <3>1 DEF DeferredAt
    <3>3. CASE i - cut \in 1..(n - cut)
      <4>1. i - cut \in DeferredAt(s)' /\ deferred'[i - cut].stamp = received'[s]
        <5>1. (i - cut) + cut = i
          BY <1>3, <3>2
        <5> QED  BY <1>1, <1>3, <1>8, <2>1, <3>1, <3>3, <5>1
      <4>2. \A j \in DeferredAt(s)' : j <= i - cut
        BY <1>3, <1>8, <2>1, <3>1, <3>2
      <4> QED  BY <4>1, <4>2 DEF LastDeferred
    <3>4. CASE i - cut \notin 1..(n - cut)
      <4>1. i = 1 /\ cut = 1
        BY <1>3, <3>2, <3>4
      <4>2. SlotOf[deferred[1].key] = s /\ deferred[1].stamp = received[s]
        BY <3>1, <4>1 DEF DeferredAt
      <4>3. dropped'[s] \in Nat
        BY <1>7 DEF EventStamp
      <4> QED  BY <1>1, <1>6, <1>7, <4>1, <4>2, <4>3
    <3> QED  BY <3>3, <3>4
  <2>3. received[s] = dropped[s] => received'[s] = dropped'[s]
    BY <1>1, <1>6, <1>7 DEF EventStamp
  <2> QED  BY <1>1, <1>14, <2>1, <2>2, <2>3 DEF Arrived
<1>15. NewestIsFollowed'
  BY <1>13, <1>14 DEF BootstrapInv, NewestIsFollowed
<1> QED  BY <1>2, <1>9, <1>10, <1>11, <1>12, <1>15 DEF BootstrapInv

LEMMA DispatchEventKeepsBootstrapInv ==
  ASSUME BootstrapInv, NEW k \in EventKey, DispatchEvent(k)
  PROVE  BootstrapInv'
<1> USE EventQueueAssumption, BootstrapAssumption DEF EventQueueAssumption, BootstrapAssumption
<1>1. /\ IsOldest(k) /\ SlotOf[k] \in Slot \ {Driver} /\ KindOf(SlotOf[k]) \in loaded
      /\ pending' = [pending EXCEPT ![k] = Absent] /\ worker' = "yielding"
      /\ applied' = IF SlotOf[k] \in inventory
                    THEN [applied EXCEPT ![SlotOf[k]] = pending[k].stamp] ELSE applied
      /\ UNCHANGED <<phase, loaded, build, read, inventory, deferred, captcha, mfa>>
      /\ UNCHANGED <<clock, received, dropped>>
  BY DEF DispatchEvent, TakeOldest, Apply, bootVars
<1>2. /\ k \in Queued
      /\ pending' \in [EventKey -> [place : EventStamp, stamp : EventStamp]]
      /\ PlacesFollowStamps'
      /\ \A s \in Slot :
            /\ NoneQueued(s) => s # SlotOf[k] /\ NoneQueued(s)'
            /\ OnItsWay(s) =>
                  \/ OnItsWay(s)'
                  \/ s = SlotOf[k] /\ pending[k].stamp = received[s] /\ NoneQueued(s)'
  BY <1>1, TakeOldestFollows DEF BootstrapInv
<1>3. /\ pending[k].stamp \in Nat /\ pending[k].stamp > 0
      /\ pending[k].stamp <= received[SlotOf[k]]
  BY <1>2, EntryFacts DEF BootstrapInv
<1>4. /\ applied' \in [Slot -> EventStamp]
      /\ \A s \in Slot : applied'[s] = IF s = SlotOf[k] /\ s \in inventory
                                       THEN pending[k].stamp ELSE applied[s]
  <2>1. pending[k].stamp \in EventStamp
    BY DEF BootstrapInv, QueueTypes
  <2> QED  BY <1>1, <2>1 DEF BootstrapInv, QueueTypes
<1>5. BootstrapTypeOK' /\ LoadedByPhase' /\ NothingNewer'
  BY <1>1 DEF BootstrapInv, BootstrapTypeOK, LoadedByPhase, NothingNewer
<1>6. QueueTypes'
  BY <1>1, <1>2, <1>4 DEF BootstrapInv, QueueTypes
<1>7. \A s : DeferredAt(s)' = DeferredAt(s)
  BY <1>1 DEF DeferredAt
<1>8. Unreported'
  BY <1>1, <1>3, <1>4, <1>7 DEF BootstrapInv, Unreported
<1>9. ASSUME NEW s \in Station, OnItsWay(s)
      PROVE  OnItsWay(s)' \/ (NoneQueued(s)' /\ Arrived(s)')
  <2>1. CASE s = SlotOf[k] /\ pending[k].stamp = received[s] /\ NoneQueued(s)'
    <3>1. "station" \in loaded'
      BY <1>1, <2>1 DEF KindOf
    <3> QED  BY <1>1, <1>4, <2>1, <3>1 DEF Arrived
  <2> QED  BY <1>2, <1>9, <2>1
<1>10. ASSUME NEW s \in Station, NoneQueued(s), Arrived(s)
       PROVE  NoneQueued(s)' /\ Arrived(s)'
  <2>1. s # SlotOf[k] /\ NoneQueued(s)'
    BY <1>2, <1>10
  <2> QED  BY <1>1, <1>4, <1>7, <1>10, <2>1 DEF Arrived, LastDeferred
<1>11. NewestIsFollowed'
  BY <1>9, <1>10 DEF BootstrapInv, NewestIsFollowed
<1> QED  BY <1>2, <1>5, <1>6, <1>8, <1>11 DEF BootstrapInv

LEMMA DriverEventKeepsBootstrapInv ==
  ASSUME BootstrapInv, NEW k \in EventKey, DriverEvent(k)
  PROVE  BootstrapInv'
<1> USE EventQueueAssumption, BootstrapAssumption DEF EventQueueAssumption, BootstrapAssumption
<1>1. /\ IsOldest(k) /\ SlotOf[k] = Driver /\ pending' = [pending EXCEPT ![k] = Absent]
      /\ worker' \in {"yielding", "dead"}
      /\ captcha' \in {captcha, "done"} /\ mfa' \in {mfa, "done"}
      /\ UNCHANGED <<phase, loaded, build, read, inventory, deferred>>
      /\ UNCHANGED <<clock, received, dropped, applied>>
  BY DEF DriverEvent, TakeOldest, Settle
<1>2. /\ pending' \in [EventKey -> [place : EventStamp, stamp : EventStamp]]
      /\ PlacesFollowStamps'
      /\ \A s \in Slot :
            /\ NoneQueued(s) => s # SlotOf[k] /\ NoneQueued(s)'
            /\ OnItsWay(s) =>
                  \/ OnItsWay(s)'
                  \/ s = SlotOf[k] /\ pending[k].stamp = received[s] /\ NoneQueued(s)'
  BY <1>1, TakeOldestFollows DEF BootstrapInv
<1>3. BootstrapTypeOK' /\ LoadedByPhase' /\ NothingNewer' /\ QueueTypes'
  BY <1>1, <1>2 DEF BootstrapInv, BootstrapTypeOK, LoadedByPhase, NothingNewer, QueueTypes
<1>4. \A s : DeferredAt(s)' = DeferredAt(s)
  BY <1>1 DEF DeferredAt
<1>5. Unreported'
  BY <1>1, <1>4 DEF BootstrapInv, Unreported
<1>6. NewestIsFollowed'
  BY <1>1, <1>2, <1>4 DEF BootstrapInv, NewestIsFollowed, Arrived, LastDeferred
<1> QED  BY <1>2, <1>3, <1>5, <1>6 DEF BootstrapInv

LEMMA NextKeepsBootstrapInv == BootstrapInv /\ [BootstrapNext]_bootstrapVars => BootstrapInv'
<1> SUFFICES ASSUME BootstrapInv, [BootstrapNext]_bootstrapVars PROVE BootstrapInv'
  OBVIOUS
<1>1. CASE \/ StartListening \/ ConnectFails \/ InteractiveStep
           \/ \E s \in Product : StartBuild(s) \/ EndBuild(s)
  BY <1>1, LoadingKeepsBootstrapInv
<1>2. CASE \E s \in Product : ReadProperties(s)
  BY <1>2, ReadPropertiesKeepsBootstrapInv
<1>3. CASE PublishDevices \/ PublishStationsAndReplay
  BY <1>3, PublishDevicesKeepsBootstrapInv, PublishStationsKeepsBootstrapInv
<1>4. CASE \E k \in EventKey :
              EventArrives(k) \/ DeferEvent(k) \/ DispatchEvent(k) \/ DriverEvent(k)
  BY <1>4, EventArrivesKeepsBootstrapInv, DeferEventKeepsBootstrapInv,
     DispatchEventKeepsBootstrapInv, DriverEventKeepsBootstrapInv
<1>5. CASE WorkerWaits \/ UNCHANGED bootstrapVars
  <2>1. /\ UNCHANGED <<pending, clock, received, dropped, applied>>
        /\ UNCHANGED <<phase, loaded, build, read, inventory, deferred, captcha, mfa>>
        /\ worker' \in {worker, "waiting"}
    BY <1>5 DEF WorkerWaits, WorkerIdles, bootVars, queueVars, bootstrapVars
  <2>2. BootstrapTypeOK'
    BY <2>1 DEF BootstrapInv, BootstrapTypeOK
  <2> QED  BY <2>1, <2>2, QuietStepKeepsBootstrapInv
<1> QED  BY <1>1, <1>2, <1>3, <1>4, <1>5 DEF BootstrapNext, BuildStep

(***************************************************************************)
(* The newest report of every station can be followed through queue,       *)
(* deferral, property read and replay at every step of the loading.        *)
(***************************************************************************)
THEOREM BootstrapInvariant == BootstrapSafety => []BootstrapInv
<1>1. BootstrapInit => BootstrapInv
  BY InitEstablishesBootstrapInv
<1>2. BootstrapInv /\ [BootstrapNext]_bootstrapVars => BootstrapInv'
  BY NextKeepsBootstrapInv
<1> QED  BY <1>1, <1>2, PTL DEF BootstrapSafety

(***************************************************************************)
(* The variables keep their types and the deferral list its limit of 512,  *)
(* also after a setup that failed.                                         *)
(***************************************************************************)
THEOREM BootstrapTypesHold == BootstrapSafety => []BootstrapTypeOK
<1>1. BootstrapInv => BootstrapTypeOK
  BY DEF BootstrapInv
<1> QED  BY <1>1, BootstrapInvariant, PTL

(***************************************************************************)
(* Once connected, every station of the inventory shows the newest state   *)
(* reported, has it in the queue, or has lost it to a full queue or a full *)
(* deferral list, however reports, reads and the replay interleaved        *)
(* (api_client.py:133-141, 697-716).                                       *)
(***************************************************************************)
THEOREM StationsAreCurrent == BootstrapSafety => []StationsShowNewest
<1>1. BootstrapInv => StationsShowNewest
  <2> SUFFICES ASSUME BootstrapInv, phase = "ready", NEW s \in Station, s \in inventory
               PROVE  NewestReaches(s)
    BY DEF StationsShowNewest
  <2>1. "station" \in loaded
    BY DEF BootstrapInv, LoadedByPhase
  <2>2. received[s] = 0 => applied[s] = 0
    BY DEF BootstrapInv, Unreported
  <2>3. CASE OnItsWay(s)
    BY <2>3 DEF OnItsWay, NewestReaches
  <2>4. CASE Arrived(s)
    BY <2>1, <2>2, <2>4 DEF Arrived, NewestReaches
  <2> QED  BY <2>3, <2>4 DEF BootstrapInv, NewestIsFollowed
<1> QED  BY <1>1, BootstrapInvariant, PTL

(* The queue while the inventory is loaded, with a callback that defers,   *)
(* ignores or dies.                                                        *)
LEMMA LoadingStepsOfQueue ==
  ASSUME [BootstrapNext]_bootstrapVars
  PROVE  \/ \E k \in EventKey : QueueEvent(k)
         \/ \E k \in EventKey : /\ IsOldest(k) /\ pending' = [pending EXCEPT ![k] = Absent]
                                /\ worker' # "waiting"
         \/ WorkerIdles
         \/ UNCHANGED <<pending, ready, worker>>
<1>1. CASE \/ UNCHANGED bootstrapVars
           \/ StartListening \/ ConnectFails \/ InteractiveStep
           \/ PublishDevices \/ PublishStationsAndReplay
           \/ \E s \in Product : BuildStep(s)
  BY <1>1 DEF bootstrapVars, queueVars, StartListening, ConnectFails, InteractiveStep,
              CaptchaWanted, CaptchaTimesOut, MfaCheckEnds, PublishDevices,
              PublishStationsAndReplay, BuildStep, StartBuild, ReadProperties, EndBuild
<1>2. ASSUME NEW k \in EventKey, EventArrives(k) PROVE QueueEvent(k)
  BY <1>2 DEF EventArrives
<1>3. ASSUME NEW k \in EventKey, DeferEvent(k) \/ DispatchEvent(k) \/ DriverEvent(k)
      PROVE  /\ IsOldest(k) /\ pending' = [pending EXCEPT ![k] = Absent]
             /\ worker' # "waiting"
  BY <1>3 DEF DeferEvent, DispatchEvent, DriverEvent, TakeOldest, Settle
<1>4. CASE WorkerWaits
  BY <1>4 DEF WorkerWaits
<1> QED  BY <1>1, <1>2, <1>3, <1>4 DEF BootstrapNext

(* The queue keeps its limit while the inventory is loaded and in the      *)
(* client of a failed setup, also when an event has killed its worker.     *)
THEOREM LoadingQueueIsBounded == BootstrapSafety => []QueueBounded
<1>1. BootstrapInit => QueueBounded
  BY InitIsBounded DEF BootstrapInit
<1>2. BootstrapInv /\ QueueBounded /\ [BootstrapNext]_bootstrapVars => QueueBounded'
  <2> SUFFICES ASSUME BootstrapInv, QueueBounded, [BootstrapNext]_bootstrapVars
               PROVE  QueueBounded'
    OBVIOUS
  <2>1. PendingTypeOK /\ clock \in Nat
    BY DEF BootstrapInv, QueueTypes, PendingTypeOK, EventStamp
  <2>2. ASSUME NEW k \in EventKey, QueueEvent(k) PROVE QueueBounded'
    BY <2>1, <2>2, QueueEventKeepsBound
  <2>3. ASSUME NEW k \in EventKey, IsOldest(k), pending' = [pending EXCEPT ![k] = Absent]
        PROVE  QueueBounded'
    BY <2>1, <2>3, TakingKeepsBound DEF IsOldest
  <2>4. CASE WorkerIdles \/ UNCHANGED <<pending, ready, worker>>
    BY <2>4 DEF WorkerIdles, Queued, QueueBounded
  <2> QED  BY <2>2, <2>3, <2>4, LoadingStepsOfQueue
<1> QED  BY <1>1, <1>2, BootstrapInvariant, PTL DEF BootstrapSafety

(* The worker never sleeps on work while the inventory is loaded; that it  *)
(* may be dead is another matter.                                          *)
THEOREM LoadingLosesNoWakeup == BootstrapSafety => []NoLostWakeup
<1>1. BootstrapInit => NoLostWakeup
  BY InitIsBounded DEF BootstrapInit
<1>2. NoLostWakeup /\ [BootstrapNext]_bootstrapVars => NoLostWakeup'
  <2> SUFFICES ASSUME NoLostWakeup, [BootstrapNext]_bootstrapVars PROVE NoLostWakeup'
    OBVIOUS
  <2>1. CASE UNCHANGED <<pending, ready, worker>>
    BY <2>1 DEF NoLostWakeup, Queued
  <2> QED  BY <2>1, LoadingStepsOfQueue DEF NoLostWakeup, QueueEvent, WorkerIdles, Queued
<1> QED  BY <1>1, <1>2, PTL DEF BootstrapSafety

=============================================================================
