---------------------------- MODULE CameraStream ----------------------------
(***************************************************************************)
(* The P2P live source of one camera: the product's start and stop         *)
(* (eufy_security_api/camera.py), the relay to go2rtc and the task that    *)
(* checks it (p2p_streamer.py), and the camera entity's viewers, linger    *)
(* and still capture (camera.py), against the bridge's livestream session. *)
(*                                                                         *)
(* A task's commands reach the bridge in order; its answer and the         *)
(* resumption of the task are one step.  Livestream events pass through    *)
(* the coalescing event queue, here two keys that never overflow it.  The  *)
(* camera has no RTSP source.                                              *)
(***************************************************************************)
EXTENDS Naturals, Sequences, FiniteSets

CONSTANTS
    Viewer,           \* requests that proxy the source as MJPEG
    Checker,          \* the _check_live_stream tasks; bound: one per start command
    MaxInbox          \* bound: commands on their way to the bridge

ASSUME CameraStreamAssumption ==
    /\ IsFiniteSet(Checker) /\ Checker \intersect {"user", "linger", "capture", "none"} = {}
    /\ MaxInbox \in Nat \ {0}

MaxStarts == Cardinality(Checker)
Task == {"user", "linger", "capture"} \union Checker

VARIABLES
    status,           \* stream_status
    started,          \* p2p_started_event is set
    retry,            \* p2p_streamer.retry
    relay,            \* relay[n]: P2PStreamer.start of the session n checks, while it runs
    call,             \* where each task is in a start or a stop; see Phase
    watching,         \* the viewers counted by _active_proxy_viewers
    capture,          \* async_refresh_stale_snapshot
    inbox,            \* commands on their way to the bridge
    session,          \* the bridge's livestream: "off", "opening", "on"
    receive,          \* the bridge's receiveLivestream of this client
    events,           \* queued livestream events
    starts,           \* history: start commands sent
    claimed,          \* history: the source was claimed and lingers on
    stopped           \* history: the last explicit request was Stop

entityVars == <<call, watching, capture>>
productVars == <<status, started, retry, relay>>
bridgeVars == <<inbox, session, receive, events>>
historyVars == <<starts, claimed, stopped>>
cameraVars == <<entityVars, productVars, bridgeVars, historyVars>>

(* "start" and "stop" await the bridge's answer, "awaiting" the started    *)
(* event; "got" and "answered" have theirs and run next.                   *)
Phase ==
    {"none", "sleeping", "polling", "start", "awaiting", "got", "stop", "answered", "over"}

NoCapture == [at |-> "idle", mine |-> FALSE, attempt |-> 0]

CameraInit ==
    /\ status = "idle" /\ started = FALSE /\ retry = "none"
    /\ relay = [n \in Checker |-> "none"]
    /\ call = [t \in Task |-> "none"]
    /\ watching = {} /\ capture = NoCapture
    /\ inbox = <<>> /\ session = "off" /\ receive = FALSE /\ events = <<>>
    /\ starts = 0 /\ claimed = FALSE /\ stopped = FALSE

-----------------------------------------------------------------------------
(* The product's start and stop.  "calls" is call after whatever the       *)
(* caller cancelled first.                                                 *)

(* A task that sends again no longer waits for its earlier command.        *)
Send(t, what) ==
    /\ Len(inbox) < MaxInbox
    /\ inbox' = Append([i \in DOMAIN inbox |->
                           IF inbox[i].by = t THEN [inbox[i] EXCEPT !.by = "none"] ELSE inbox[i]],
                       [by |-> t, what |-> what])

(* start_livestream up to the bridge's answer.                             *)
SendStart(t, calls) ==
    /\ starts < MaxStarts
    /\ starts' = starts + 1
    /\ status' = "preparing"
    /\ started' = FALSE
    /\ Send(t, "start")
    /\ call' = [calls EXCEPT ![t] = "start"]

(* stop_livestream up to the bridge's answer, of a source not idle.        *)
SendStop(t, calls) ==
    /\ Send(t, "stop")
    /\ call' = [calls EXCEPT ![t] = "stop"]

(* The started event came: the relay and its checker are created, and the  *)
(* relay's task resets the flag.                                           *)
BeginSession(t, calls) ==
    /\ call[t] = "got"
    /\ status' = "streaming"
    /\ LET n == CHOOSE n \in Checker : call[n] = "none"
       IN  /\ call' = [calls EXCEPT ![n] = "polling"]
           /\ relay' = [relay EXCEPT ![n] = "creating"]
    /\ retry' = "none"

-----------------------------------------------------------------------------
(* The relay and its checker.                                              *)

(* The thread resets the flag again, unless go2rtc cannot be reached.      *)
RelayConnects(n) ==
    /\ relay[n] = "creating"
    /\ \/ relay' = [relay EXCEPT ![n] = "relaying"] /\ retry' = "none"
       \/ relay' = [relay EXCEPT ![n] = "none"] /\ UNCHANGED retry
    /\ UNCHANGED <<status, started, entityVars, bridgeVars, historyVars>>

(* go2rtc refused or disconnected: retry or True.  Anything else: retry or *)
(* False.                                                                  *)
RelayEnds(n) ==
    /\ relay[n] = "relaying"
    /\ relay' = [relay EXCEPT ![n] = "none"]
    /\ retry' \in {"yes", IF retry = "yes" THEN "yes" ELSE "no"}
    /\ UNCHANGED <<status, started, entityVars, bridgeVars, historyVars>>

(* The half-second poll saw the flag.                                      *)
CheckerWakes(n) ==
    /\ call[n] = "polling"
    /\ retry # "none"
    /\ \/ /\ status # "idle"
          /\ SendStop(n, call)
          /\ UNCHANGED <<status, started, starts>>
       \/ /\ status = "idle" /\ retry = "yes"
          /\ SendStart(n, call)
       \/ /\ status = "idle" /\ retry = "no"
          /\ call' = [call EXCEPT ![n] = "over"]
          /\ UNCHANGED <<status, started, inbox, starts>>
    /\ UNCHANGED <<retry, relay, watching, capture, session, receive, events, claimed, stopped>>

(* Its stop was answered, or was not in time; a refusal is not caught and  *)
(* ends the task.                                                          *)
CheckerResumes(n) ==
    /\ call[n] \in {"stop", "answered"}
    /\ \/ /\ retry = "yes"
          /\ SendStart(n, call)
       \/ /\ call[n] = "stop" \/ retry # "yes"
          /\ call' = [call EXCEPT ![n] = "over"]
          /\ status' \in IF call[n] = "stop" THEN {"idle", status} ELSE {status}
          /\ UNCHANGED <<started, inbox, starts>>
    /\ UNCHANGED <<retry, relay, watching, capture, session, receive, events, claimed, stopped>>

CheckerStarted(n) ==
    /\ BeginSession(n, [call EXCEPT ![n] = "over"])
    /\ UNCHANGED <<started, watching, capture, bridgeVars, historyVars>>

(* No answer makes the source idle; a refusal or no event leaves it        *)
(* preparing.                                                              *)
CheckerStartFails(n) ==
    /\ call[n] \in {"start", "awaiting"}
    /\ call' = [call EXCEPT ![n] = "over"]
    /\ status' \in IF call[n] = "start" THEN {"idle", status} ELSE {status}
    /\ UNCHANGED <<started, retry, relay, watching, capture, bridgeVars, historyVars>>

-----------------------------------------------------------------------------
(* The entity: explicit start and stop, viewers and the linger.            *)

LingerCancelled == [call EXCEPT !["linger"] = "none"]

Claimed == claimed' = (call'["linger"] = "sleeping")

UserStarts ==
    /\ call["user"] = "none"
    /\ stopped' = FALSE
    /\ IF status = "streaming"
       THEN call' = LingerCancelled /\ UNCHANGED <<status, started, inbox, starts>>
       ELSE SendStart("user", LingerCancelled)
    /\ Claimed
    /\ UNCHANGED <<retry, relay, watching, capture, session, receive, events>>

UserStarted ==
    /\ BeginSession("user", [call EXCEPT !["user"] = "none"])
    /\ UNCHANGED <<started, watching, capture, bridgeVars, historyVars>>

(* Refused, not answered, or no event in time: the source stays preparing. *)
UserStartFails ==
    /\ call["user"] \in {"start", "awaiting"}
    /\ call' = [call EXCEPT !["user"] = "none"]
    /\ UNCHANGED <<watching, capture, productVars, bridgeVars, historyVars>>

(* The service call awaits the answer; nothing follows it.                 *)
UserStops ==
    /\ call' = LingerCancelled
    /\ stopped' = TRUE
    /\ retry' = "no"
    /\ IF status = "idle" THEN UNCHANGED inbox ELSE Send("none", "stop")
    /\ UNCHANGED <<status, started, relay, watching, capture, session, receive, events,
                   starts, claimed>>

SourceStillLingers == call                    \* defect: the linger is not cancelled

(* stream_source of a source that streams.                                 *)
SourceClaimed == LingerCancelled

ViewerJoins(v) ==
    /\ v \notin watching
    /\ status = "streaming"
    /\ call' = SourceClaimed
    /\ watching' = watching \union {v}
    /\ Claimed
    /\ UNCHANGED <<capture, productVars, bridgeVars, starts, stopped>>

(* Home Assistant asks for the source of the camera, for a player of its   *)
(* own or as a probe.                                                      *)
SourceProbed ==
    /\ status = "streaming"
    /\ call' = SourceClaimed
    /\ Claimed
    /\ UNCHANGED <<watching, capture, productVars, bridgeVars, starts, stopped>>

(* The request's finally clause.                                           *)
ViewerLeaves(v) ==
    /\ v \in watching
    /\ watching' = watching \ {v}
    /\ IF watching' = {} /\ status = "streaming"
       THEN call' = [call EXCEPT !["linger"] = "sleeping"] /\ claimed' = FALSE
       ELSE UNCHANGED <<call, claimed>>
    /\ UNCHANGED <<capture, productVars, bridgeVars, starts, stopped>>

(* The seconds of grace are over.                                          *)
LingerFires ==
    /\ call["linger"] = "sleeping"
    /\ IF status = "streaming"
       THEN SendStop("linger", call) /\ retry' = "no"
       ELSE call' = LingerCancelled /\ UNCHANGED <<inbox, retry>>
    /\ UNCHANGED <<status, started, relay, watching, capture, session, receive, events,
                   historyVars>>

(* Without an answer the source is released locally.                       *)
LingerEnds ==
    /\ call["linger"] \in {"stop", "answered"}
    /\ call' = LingerCancelled
    /\ status' = IF call["linger"] = "stop" THEN "idle" ELSE status
    /\ UNCHANGED <<started, retry, relay, watching, capture, bridgeVars, historyVars>>

-----------------------------------------------------------------------------
(* async_refresh_stale_snapshot, one at a time under its lock.             *)

CaptureReuses ==
    /\ capture.at = "idle"
    /\ status = "streaming"
    /\ capture' = [NoCapture EXCEPT !.at = "grabbing"]
    /\ call' = SourceClaimed
    /\ Claimed
    /\ UNCHANGED <<watching, productVars, bridgeVars, starts, stopped>>

CaptureStarts ==
    /\ \/ capture.at = "idle" /\ status # "streaming"
       \/ capture.at = "pausing"
    /\ capture' = [capture EXCEPT !.at = "starting"]
    /\ SendStart("capture", call)
    /\ stopped' = FALSE
    /\ UNCHANGED <<retry, relay, watching, session, receive, events, claimed>>

(* start_livestream returned True; the first stream_source follows at once.*)
CaptureStarted ==
    /\ capture.at = "starting"
    /\ BeginSession("capture", [LingerCancelled EXCEPT !["capture"] = "none"])
    /\ capture' = [capture EXCEPT !.at = "grabbing", !.mine = TRUE]
    /\ Claimed
    /\ UNCHANGED <<started, watching, bridgeVars, starts, stopped>>

(* The loop asks for the source again every few seconds.                   *)
CaptureRereads ==
    /\ capture.at = "grabbing"
    /\ status = "streaming"
    /\ call' = SourceClaimed
    /\ Claimed
    /\ UNCHANGED <<watching, capture, productVars, bridgeVars, starts, stopped>>

AttemptsUncounted ==                          \* defect: the failed attempts are not bounded
    [capture EXCEPT !.at = "pausing", !.attempt = capture.attempt + 1]

(* A start that failed is tried once more.                                 *)
NextAttempt ==
    IF capture.attempt = 0 THEN [capture EXCEPT !.at = "pausing", !.attempt = 1] ELSE NoCapture

(* stop_livestream by the capture, then "at"; or "next" if it is idle.     *)
CaptureStops(at, next) ==
    IF status # "idle"
    THEN /\ SendStop("capture", call)
         /\ capture' = [capture EXCEPT !.at = at]
    ELSE /\ call' = [call EXCEPT !["capture"] = "none"]
         /\ capture' = next
         /\ UNCHANGED inbox

(* Refused, not answered, or fifteen seconds without a source: what is not *)
(* idle is released.                                                       *)
CaptureStartFails ==
    /\ capture.at = "starting"
    /\ CaptureStops("releasing", NextAttempt)
    /\ retry' = IF status # "idle" THEN "no" ELSE retry
    /\ UNCHANGED <<status, started, relay, watching, session, receive, events, historyVars>>

(* A frame came or the time is over; the finally clause stops a session    *)
(* this capture started.                                                   *)
CaptureGrabbed ==
    /\ capture.at = "grabbing"
    /\ IF capture.mine
       THEN CaptureStops("stopping", NoCapture) /\ retry' = "no"
       ELSE capture' = NoCapture /\ UNCHANGED <<call, inbox, retry>>
    /\ UNCHANGED <<status, started, relay, watching, session, receive, events, historyVars>>

(* The stop was answered, or eight seconds passed.                         *)
CaptureResumes ==
    /\ call["capture"] \in {"stop", "answered"}
    /\ call' = [call EXCEPT !["capture"] = "none"]
    /\ capture' = IF capture.at = "releasing" THEN NextAttempt ELSE NoCapture
    /\ status' = IF capture.at = "releasing" \/ call["capture"] = "stop" THEN "idle" ELSE status
    /\ UNCHANGED <<started, retry, relay, watching, bridgeVars, historyVars>>

-----------------------------------------------------------------------------
(* The bridge.                                                             *)

(* The coalescing queue: a queued event of this name goes to the end.      *)
EventsWithout(event) ==
    IF \E i \in DOMAIN events : events[i] = event
    THEN LET i == CHOOSE i \in DOMAIN events : events[i] = event
         IN  SubSeq(events, 1, i - 1) \o SubSeq(events, i + 1, Len(events))
    ELSE events

Queued(event) == Append(EventsWithout(event), event)

(* The answer reaches the task that still waits for it.                    *)
AnsweredCall(m) ==
    IF m.by \in Task /\ call[m.by] = m.what
    THEN [call EXCEPT ![m.by] = IF m.what = "stop" THEN "answered"
                                ELSE IF started THEN "got" ELSE "awaiting"]
    ELSE call

(* A session this client already receives is refused.                      *)
BridgeStarts ==
    /\ inbox # <<>> /\ Head(inbox).what = "start"
    /\ inbox' = Tail(inbox)
    /\ IF session = "on" /\ receive
       THEN UNCHANGED <<call, session, receive, events>>
       ELSE /\ call' = AnsweredCall(Head(inbox))
            /\ session' = IF session = "off" THEN "opening" ELSE session
            /\ receive' = TRUE
            /\ events' = IF session = "on" THEN Queued("started") ELSE events
    /\ UNCHANGED <<watching, capture, productVars, historyVars>>

(* A session that is on is told to end, and ends in its time; one still    *)
(* opening only loses this client.                                         *)
BridgeStops ==
    /\ inbox # <<>> /\ Head(inbox).what = "stop"
    /\ inbox' = Tail(inbox)
    /\ call' = AnsweredCall(Head(inbox))
    /\ receive' = (receive /\ session = "on")
    /\ UNCHANGED <<watching, capture, session, events, productVars, historyVars>>

(* Media arrive, or the camera does not answer.                            *)
SessionOpens ==
    /\ session = "opening"
    /\ \/ session' = "on" /\ events' = IF receive THEN Queued("started") ELSE events
       \/ session' = "off" /\ UNCHANGED events
    /\ UNCHANGED <<inbox, receive, entityVars, productVars, historyVars>>

(* The session ends, told to or by itself.                                 *)
SessionEnds ==
    /\ session = "on"
    /\ session' = "off"
    /\ receive' = FALSE
    /\ events' = IF receive THEN Queued("stopped") ELSE events
    /\ UNCHANGED <<inbox, entityVars, productVars, historyVars>>

(* The event worker.  A task woken by an event runs before the next event: *)
(* both wait in the loop's queue and the worker came later.                *)
HandleEvent ==
    /\ events # <<>>
    /\ \A t \in Task : call[t] # "got"
    /\ events' = Tail(events)
    /\ IF Head(events) = "started"
       THEN /\ started' = TRUE
            /\ call' = [t \in Task |-> IF call[t] = "awaiting" THEN "got" ELSE call[t]]
            /\ UNCHANGED status
       ELSE status' = "idle" /\ UNCHANGED <<started, call>>
    /\ UNCHANGED <<retry, relay, watching, capture, inbox, session, receive, historyVars>>

-----------------------------------------------------------------------------

CheckerStep(n) ==
    \/ RelayConnects(n) \/ RelayEnds(n)
    \/ CheckerWakes(n) \/ CheckerResumes(n) \/ CheckerStarted(n) \/ CheckerStartFails(n)

CaptureStep ==
    \/ CaptureReuses \/ CaptureStarts \/ CaptureStarted \/ CaptureRereads
    \/ CaptureStartFails \/ CaptureGrabbed \/ CaptureResumes

CameraNext ==
    \/ UserStarts \/ UserStarted \/ UserStartFails \/ UserStops
    \/ \E v \in Viewer : ViewerJoins(v) \/ ViewerLeaves(v)
    \/ SourceProbed \/ LingerFires \/ LingerEnds
    \/ CaptureStep
    \/ \E n \in Checker : CheckerStep(n)
    \/ BridgeStarts \/ BridgeStops \/ SessionOpens \/ SessionEnds \/ HandleEvent

CameraSpec == CameraInit /\ [][CameraNext]_cameraVars

-----------------------------------------------------------------------------
(* Properties.                                                             *)

(* The types of the variables.                                             *)
CameraTypeOK ==
    /\ status \in {"idle", "preparing", "streaming"}
    /\ started \in BOOLEAN /\ receive \in BOOLEAN
    /\ retry \in {"none", "yes", "no"}
    /\ relay \in [Checker -> {"none", "creating", "relaying"}]
    /\ call \in [Task -> Phase]
    /\ watching \subseteq Viewer
    /\ capture \in [at : {"idle", "starting", "releasing", "pausing", "grabbing", "stopping"},
                    mine : BOOLEAN, attempt : 0..1]
    /\ inbox \in Seq([by : Task \union {"none"}, what : {"start", "stop"}])
    /\ session \in {"off", "opening", "on"}
    /\ events \in Seq({"started", "stopped"})
    /\ starts \in 0..MaxStarts
    /\ claimed \in BOOLEAN /\ stopped \in BOOLEAN

(* "Stop one P2P source unless another viewer claimed it" (camera.py:186): *)
(* when the grace period ends in a stop, nobody watches and nobody asked   *)
(* for the source since the last viewer left.                              *)
LingerSparesClaimedSource ==
    [][call["linger"] = "sleeping" /\ call'["linger"] = "stop" =>
         watching = {} /\ ~claimed]_cameraVars

(* "Explicit Start P2P remains the only live-stream start path"            *)
(* (CHANGELOG 9.3.4): after an explicit stop no checker starts the camera. *)
StoppedStaysStopped ==
    [][\A n \in Checker : call[n] # "start" /\ call'[n] = "start" => ~stopped]_cameraVars

=============================================================================
