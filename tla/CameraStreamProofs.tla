------------------------- MODULE CameraStreamProofs -------------------------
(***************************************************************************)
(* Theorems about CameraStream for any number of viewers and start         *)
(* commands.  CameraInv adds to the types what the linger knows: while its *)
(* seconds of grace run nobody watches and nobody has asked for the source *)
(* since the last viewer left.                                             *)
(***************************************************************************)
EXTENDS CameraStream, SequenceTheorems, FiniteSetTheorems, TLAPS

LingerIsUnclaimed == call["linger"] = "sleeping" => watching = {} /\ ~claimed

CameraInv == CameraTypeOK /\ LingerIsUnclaimed

(* The commands on their way.                                              *)
Command == [by : Task \union {"none"}, what : {"start", "stop"}]

LEMMA BoundIsNatural == MaxStarts \in Nat
  BY CameraStreamAssumption, FS_CardinalityType DEF MaxStarts

LEMMA InitEstablishesCameraInv == CameraInit => CameraInv
<1> SUFFICES ASSUME CameraInit PROVE CameraInv
  OBVIOUS
<1>1. CameraTypeOK
  <2>1. inbox \in Seq(Command) /\ events \in Seq({"started", "stopped"})
    BY EmptySeq DEF CameraInit
  <2>2. call \in [Task -> Phase]
    BY DEF CameraInit, Phase
  <2>3. 0 \in 0..MaxStarts
    BY BoundIsNatural
  <2>4. capture \in [at : {"idle", "starting", "releasing", "pausing", "grabbing", "stopping"},
                    mine : BOOLEAN, attempt : 0..1]
    BY DEF CameraInit, NoCapture
  <2>5. started \in BOOLEAN /\ receive \in BOOLEAN /\ claimed \in BOOLEAN /\ stopped \in BOOLEAN
    BY DEF CameraInit
  <2>6. relay \in [Checker -> {"none", "creating", "relaying"}]
    BY DEF CameraInit
  <2>7. status = "idle" /\ retry = "none" /\ watching = {} /\ session = "off" /\ starts = 0
    BY DEF CameraInit
  <2> QED  BY <2>1, <2>2, <2>3, <2>4, <2>5, <2>6, <2>7 DEF CameraTypeOK, Command
<1>2. LingerIsUnclaimed
  BY DEF CameraInit, LingerIsUnclaimed, Task
<1> QED  BY <1>1, <1>2 DEF CameraInv

(* What each helper leaves of the types.                                   *)
LEMMA SendKeepsInbox ==
  ASSUME CameraTypeOK, NEW t \in Task \union {"none"}, NEW what \in {"start", "stop"},
         Send(t, what)
  PROVE  inbox' \in Seq(Command)
<1> DEFINE known == [i \in DOMAIN inbox |->
                       IF inbox[i].by = t THEN [inbox[i] EXCEPT !.by = "none"] ELSE inbox[i]]
<1>1. inbox \in Seq(Command) /\ Len(inbox) \in Nat /\ DOMAIN inbox = 1..Len(inbox)
  BY LenProperties DEF CameraTypeOK, Command
<1>2. \A i \in 1..Len(inbox) : inbox[i] \in Command
  BY <1>1, ElementOfSeq
<1>3. known \in [1..Len(inbox) -> Command]
  BY <1>1, <1>2 DEF Command
<1>4. known \in Seq(Command)
  BY <1>1, <1>3, SeqDef
<1>5. [by |-> t, what |-> what] \in Command
  BY DEF Command
<1>6. inbox' = Append(known, [by |-> t, what |-> what])
  BY DEF Send
<1> HIDE DEF known
<1> QED  BY <1>4, <1>5, <1>6

LEMMA SendStartTypes ==
  ASSUME CameraTypeOK, NEW t \in Task, NEW STATE calls, calls \in [Task -> Phase],
         SendStart(t, calls)
  PROVE  /\ starts' \in 0..MaxStarts /\ status' = "preparing" /\ started' = FALSE
         /\ inbox' \in Seq(Command) /\ call' = [calls EXCEPT ![t] = "start"]
         /\ call' \in [Task -> Phase]
<1>1. inbox' \in Seq(Command)
  BY SendKeepsInbox DEF SendStart
<1>2. starts' \in 0..MaxStarts
  BY BoundIsNatural DEF SendStart, CameraTypeOK
<1>3. call' = [calls EXCEPT ![t] = "start"] /\ "start" \in Phase
  BY DEF SendStart, Phase
<1>4. call' \in [Task -> Phase]
  BY <1>3
<1> QED  BY <1>1, <1>2, <1>3, <1>4 DEF SendStart

LEMMA SendStopTypes ==
  ASSUME CameraTypeOK, NEW t \in Task, SendStop(t, call)
  PROVE  /\ inbox' \in Seq(Command) /\ call' = [call EXCEPT ![t] = "stop"]
         /\ call' \in [Task -> Phase]
<1>1. inbox' \in Seq(Command)
  BY SendKeepsInbox DEF SendStop
<1>2. call' = [call EXCEPT ![t] = "stop"] /\ "stop" \in Phase
  BY DEF SendStop, Phase
<1>3. call' \in [Task -> Phase]
  BY <1>2 DEF CameraTypeOK
<1> QED  BY <1>1, <1>2, <1>3

LEMMA BeginSessionTypes ==
  ASSUME CameraTypeOK, NEW t \in Task, NEW STATE calls, calls \in [Task -> Phase],
         BeginSession(t, calls)
  PROVE  /\ status' = "streaming" /\ retry' = "none"
         /\ relay' \in [Checker -> {"none", "creating", "relaying"}]
         /\ call' \in [Task -> Phase]
         /\ call'["linger"] \in {calls["linger"], "polling"}
<1> DEFINE n == CHOOSE n \in Checker : call[n] = "none"
<1>1. /\ call' = [calls EXCEPT ![n] = "polling"] /\ relay' = [relay EXCEPT ![n] = "creating"]
      /\ status' = "streaming" /\ retry' = "none"
  BY DEF BeginSession
<1> HIDE DEF n
<1>2. "polling" \in Phase /\ "linger" \in Task
  BY DEF Phase, Task
<1> QED  BY <1>1, <1>2 DEF CameraTypeOK

LEMMA QueuedTypes ==
  ASSUME CameraTypeOK, NEW event \in {"started", "stopped"}
  PROVE  Queued(event) \in Seq({"started", "stopped"})
<1> DEFINE Name == {"started", "stopped"}
           found == \E i \in DOMAIN events : events[i] = event
           at == CHOOSE i \in DOMAIN events : events[i] = event
<1>1. events \in Seq(Name) /\ Len(events) \in Nat /\ DOMAIN events = 1..Len(events)
      /\ \A i \in 1..Len(events) : events[i] \in Name
  BY LenProperties, ElementOfSeq DEF CameraTypeOK
<1>2. EventsWithout(event) \in Seq(Name)
  <2>1. CASE ~found
    BY <1>1, <2>1 DEF EventsWithout
  <2>2. CASE found
    <3>1. at \in 1..Len(events)
      BY <1>1, <2>2
    <3>2. EventsWithout(event) = SubSeq(events, 1, at - 1) \o SubSeq(events, at + 1, Len(events))
      BY <2>2 DEF EventsWithout
    <3> HIDE DEF at
    <3>3. SubSeq(events, 1, at - 1) \in Seq(Name) /\ SubSeq(events, at + 1, Len(events)) \in Seq(Name)
      BY <1>1, <3>1, SubSeqProperties
    <3> QED  BY <3>2, <3>3, ConcatProperties
  <2> QED  BY <2>1, <2>2
<1>3. Queued(event) = Append(EventsWithout(event), event)
  BY DEF Queued
<1> HIDE DEF Name
<1>4. event \in Name
  BY DEF Name
<1>5. Queued(event) \in Seq(Name)
  BY <1>2, <1>3, <1>4, AppendProperties
<1> QED  BY <1>5 DEF Name

(* The relay and its checker; none of them touches the linger.             *)
LEMMA CheckerStepKeepsCameraInv ==
  ASSUME CameraInv, NEW n \in Checker, CheckerStep(n)
  PROVE  CameraInv'
<1> USE CameraStreamAssumption DEF CameraStreamAssumption
<1>1. /\ n \in Task /\ n # "linger" /\ "linger" \in Task /\ call \in [Task -> Phase]
      /\ CameraTypeOK /\ LingerIsUnclaimed
  BY DEF Task, CameraInv, CameraTypeOK
<1>2. CASE RelayConnects(n) \/ RelayEnds(n)
  BY <1>1, <1>2 DEF RelayConnects, RelayEnds, CameraInv, CameraTypeOK, LingerIsUnclaimed,
     entityVars, bridgeVars, historyVars
<1>3. ASSUME SendStart(n, call), UNCHANGED <<retry, relay, watching, capture>>,
             UNCHANGED <<session, receive, events, claimed, stopped>>
      PROVE  CameraInv'
  <2>1. /\ starts' \in 0..MaxStarts /\ status' = "preparing" /\ started' = FALSE
        /\ inbox' \in Seq(Command) /\ call' = [call EXCEPT ![n] = "start"]
        /\ call' \in [Task -> Phase]
    BY <1>1, <1>3, SendStartTypes
  <2>2. CameraTypeOK'
    BY <1>1, <1>3, <2>1 DEF CameraTypeOK, Command
  <2>3. LingerIsUnclaimed'
    BY <1>1, <1>3, <2>1 DEF LingerIsUnclaimed
  <2> QED  BY <2>2, <2>3 DEF CameraInv
<1>4. ASSUME SendStop(n, call), UNCHANGED <<status, started, starts>>,
             UNCHANGED <<retry, relay, watching, capture>>,
             UNCHANGED <<session, receive, events, claimed, stopped>>
      PROVE  CameraInv'
  <2>1. /\ inbox' \in Seq(Command) /\ call' = [call EXCEPT ![n] = "stop"]
        /\ call' \in [Task -> Phase]
    BY <1>1, <1>4, SendStopTypes
  <2>2. CameraTypeOK'
    BY <1>1, <1>4, <2>1 DEF CameraTypeOK, Command
  <2>3. LingerIsUnclaimed'
    BY <1>1, <1>4, <2>1 DEF LingerIsUnclaimed
  <2> QED  BY <2>2, <2>3 DEF CameraInv
<1>5. ASSUME call' = [call EXCEPT ![n] = "over"], status' \in {"idle", status},
             UNCHANGED <<started, inbox, starts, retry, relay, watching, capture>>,
             UNCHANGED <<session, receive, events, claimed, stopped>>
      PROVE  CameraInv'
  <2>1. "over" \in Phase
    BY DEF Phase
  <2>2. CameraTypeOK'
    BY <1>1, <1>5, <2>1 DEF CameraTypeOK, Command
  <2>3. LingerIsUnclaimed'
    BY <1>1, <1>5 DEF LingerIsUnclaimed
  <2> QED  BY <2>2, <2>3 DEF CameraInv
<1>6. CASE CheckerWakes(n)
  BY <1>3, <1>4, <1>5, <1>6 DEF CheckerWakes
<1>7. CASE CheckerResumes(n)
  <2>1. CASE SendStart(n, call)
    BY <1>3, <1>7, <2>1 DEF CheckerResumes
  <2>2. CASE ~SendStart(n, call)
    BY <1>5, <1>7, <2>2 DEF CheckerResumes
  <2> QED  BY <2>1, <2>2
<1>8. CASE CheckerStarted(n)
  <2>1. /\ BeginSession(n, [call EXCEPT ![n] = "over"])
        /\ UNCHANGED <<started, watching, capture, inbox, session, receive, events>>
        /\ UNCHANGED <<starts, claimed, stopped>>
    BY <1>8 DEF CheckerStarted, bridgeVars, historyVars
  <2>2. [call EXCEPT ![n] = "over"] \in [Task -> Phase]
    BY <1>1 DEF Phase
  <2>3. [call EXCEPT ![n] = "over"]["linger"] = call["linger"]
    BY <1>1
  <2>4. /\ status' = "streaming" /\ retry' = "none"
        /\ relay' \in [Checker -> {"none", "creating", "relaying"}]
        /\ call' \in [Task -> Phase] /\ call'["linger"] \in {call["linger"], "polling"}
    BY <1>1, <2>1, <2>2, <2>3, BeginSessionTypes
  <2>5. CameraTypeOK'
    BY <1>1, <2>1, <2>4 DEF CameraTypeOK
  <2>6. LingerIsUnclaimed'
    BY <1>1, <2>1, <2>4 DEF LingerIsUnclaimed
  <2> QED  BY <2>5, <2>6 DEF CameraInv
<1>9. CASE CheckerStartFails(n)
  BY <1>5, <1>9 DEF CheckerStartFails, bridgeVars, historyVars
<1> QED  BY <1>2, <1>6, <1>7, <1>8, <1>9 DEF CheckerStep

(* Explicit start and stop.                                                *)
LEMMA UserStepKeepsCameraInv ==
  ASSUME CameraInv, UserStarts \/ UserStarted \/ UserStartFails \/ UserStops
  PROVE  CameraInv'
<1>1. /\ {"user", "linger"} \subseteq Task /\ call \in [Task -> Phase]
      /\ CameraTypeOK /\ LingerIsUnclaimed
      /\ LingerCancelled \in [Task -> Phase] /\ LingerCancelled["linger"] = "none"
  BY DEF Task, CameraInv, CameraTypeOK, LingerCancelled, Phase
<1>2. CASE UserStarts
  <2>1. /\ stopped' = FALSE /\ claimed' = (call'["linger"] = "sleeping")
        /\ UNCHANGED <<retry, relay, watching, capture, session, receive, events>>
        /\ \/ call' = LingerCancelled /\ UNCHANGED <<status, started, inbox, starts>>
           \/ SendStart("user", LingerCancelled)
    BY <1>2 DEF UserStarts, Claimed
  <2>2. /\ call' \in [Task -> Phase] /\ call'["linger"] = "none" /\ starts' \in 0..MaxStarts
        /\ status' \in {status, "preparing"} /\ started' \in BOOLEAN /\ inbox' \in Seq(Command)
    <3>1. CASE SendStart("user", LingerCancelled)
      <4>1. /\ starts' \in 0..MaxStarts /\ status' = "preparing" /\ started' = FALSE
            /\ inbox' \in Seq(Command) /\ call' = [LingerCancelled EXCEPT !["user"] = "start"]
            /\ call' \in [Task -> Phase]
        BY <1>1, <3>1, SendStartTypes
      <4>2. call'["linger"] = "none"
        BY <1>1, <4>1
      <4>3. started' \in BOOLEAN
        BY <4>1
      <4> QED  BY <4>1, <4>2, <4>3
    <3>2. CASE call' = LingerCancelled /\ UNCHANGED <<status, started, inbox, starts>>
      BY <1>1, <3>2 DEF CameraTypeOK, Command
    <3> QED  BY <2>1, <3>1, <3>2
  <2>3. claimed' = FALSE
    BY <2>1, <2>2
  <2>4. CameraTypeOK'
    BY <1>1, <2>1, <2>2, <2>3 DEF CameraTypeOK, Command
  <2> QED  BY <2>2, <2>4 DEF CameraInv, LingerIsUnclaimed
<1>3. CASE UserStarted
  <2>1. /\ BeginSession("user", [call EXCEPT !["user"] = "none"])
        /\ UNCHANGED <<started, watching, capture, inbox, session, receive, events>>
        /\ UNCHANGED <<starts, claimed, stopped>>
    BY <1>3 DEF UserStarted, bridgeVars, historyVars
  <2>2. /\ [call EXCEPT !["user"] = "none"] \in [Task -> Phase]
        /\ [call EXCEPT !["user"] = "none"]["linger"] = call["linger"]
    BY <1>1 DEF Phase
  <2>3. /\ status' = "streaming" /\ retry' = "none"
        /\ relay' \in [Checker -> {"none", "creating", "relaying"}]
        /\ call' \in [Task -> Phase] /\ call'["linger"] \in {call["linger"], "polling"}
    BY <1>1, <2>1, <2>2, BeginSessionTypes
  <2>4. CameraTypeOK'
    BY <1>1, <2>1, <2>3 DEF CameraTypeOK
  <2> QED  BY <1>1, <2>1, <2>3, <2>4 DEF CameraInv, LingerIsUnclaimed
<1>4. CASE UserStartFails
  <2>1. /\ call' = [call EXCEPT !["user"] = "none"] /\ "none" \in Phase
        /\ UNCHANGED <<watching, capture, status, started, retry, relay>>
        /\ UNCHANGED <<inbox, session, receive, events, starts, claimed, stopped>>
    BY <1>4 DEF UserStartFails, Phase, productVars, bridgeVars, historyVars
  <2> QED  BY <1>1, <2>1 DEF CameraInv, CameraTypeOK, LingerIsUnclaimed
<1>5. CASE UserStops
  <2>1. /\ call' = LingerCancelled /\ stopped' = TRUE /\ retry' = "no"
        /\ UNCHANGED inbox \/ Send("none", "stop")
        /\ UNCHANGED <<status, started, relay, watching, capture, session, receive, events>>
        /\ UNCHANGED <<starts, claimed>>
    BY <1>5 DEF UserStops
  <2>2. inbox' \in Seq(Command)
    BY <1>1, <2>1, SendKeepsInbox DEF CameraTypeOK, Command
  <2>3. CameraTypeOK'
    BY <1>1, <2>1, <2>2 DEF CameraTypeOK, Command
  <2> QED  BY <1>1, <2>1, <2>3 DEF CameraInv, LingerIsUnclaimed
<1> QED  BY <1>2, <1>3, <1>4, <1>5

(* The viewers, the probes and the linger.                                 *)
LEMMA ViewingKeepsCameraInv ==
  ASSUME CameraInv,
         \/ \E v \in Viewer : ViewerJoins(v) \/ ViewerLeaves(v)
         \/ SourceProbed \/ LingerFires \/ LingerEnds
  PROVE  CameraInv'
<1>1. /\ "linger" \in Task /\ call \in [Task -> Phase]
      /\ CameraTypeOK /\ LingerIsUnclaimed
      /\ LingerCancelled \in [Task -> Phase] /\ LingerCancelled["linger"] = "none"
  BY DEF Task, CameraInv, CameraTypeOK, LingerCancelled, Phase
<1>2. CASE SourceProbed \/ \E v \in Viewer : ViewerJoins(v)
  <2>1. /\ call' = LingerCancelled /\ watching' \subseteq Viewer
        /\ claimed' = (call'["linger"] = "sleeping")
        /\ UNCHANGED <<capture, status, started, retry, relay>>
        /\ UNCHANGED <<inbox, session, receive, events, starts, stopped>>
    BY <1>1, <1>2 DEF SourceProbed, ViewerJoins, SourceClaimed, Claimed, productVars, bridgeVars,
       CameraTypeOK
  <2>2. claimed' = FALSE
    BY <1>1, <2>1
  <2>3. CameraTypeOK'
    BY <1>1, <2>1, <2>2 DEF CameraTypeOK
  <2> QED  BY <1>1, <2>1, <2>3 DEF CameraInv, LingerIsUnclaimed
<1>3. ASSUME NEW v \in Viewer, ViewerLeaves(v) PROVE CameraInv'
  <2>1. /\ v \in watching /\ watching' = watching \ {v}
        /\ \/ /\ watching' = {} /\ claimed' = FALSE
              /\ call' = [call EXCEPT !["linger"] = "sleeping"]
           \/ UNCHANGED <<call, claimed>>
        /\ UNCHANGED <<capture, status, started, retry, relay>>
        /\ UNCHANGED <<inbox, session, receive, events, starts, stopped>>
    BY <1>3 DEF ViewerLeaves, productVars, bridgeVars
  <2>2. call' \in [Task -> Phase] /\ claimed' \in BOOLEAN
    BY <1>1, <2>1 DEF Phase, CameraTypeOK
  <2>3. CameraTypeOK'
    BY <1>1, <2>1, <2>2 DEF CameraTypeOK
  <2> QED  BY <1>1, <2>1, <2>3 DEF CameraInv, LingerIsUnclaimed
<1>4. CASE LingerFires
  <2>1. /\ \/ SendStop("linger", call) /\ retry' = "no"
           \/ call' = LingerCancelled /\ UNCHANGED <<inbox, retry>>
        /\ UNCHANGED <<status, started, relay, watching, capture, session, receive, events>>
        /\ UNCHANGED <<starts, claimed, stopped>>
    BY <1>4 DEF LingerFires, historyVars
  <2>2. /\ inbox' \in Seq(Command) /\ call' \in [Task -> Phase]
        /\ call'["linger"] \in {"stop", "none"} /\ retry' \in {retry, "no"}
    BY <1>1, <2>1, SendStopTypes DEF CameraTypeOK, Command
  <2>3. CameraTypeOK'
    BY <1>1, <2>1, <2>2 DEF CameraTypeOK, Command
  <2> QED  BY <2>2, <2>3 DEF CameraInv, LingerIsUnclaimed
<1>5. CASE LingerEnds
  <2>1. /\ call' = LingerCancelled /\ status' \in {"idle", status}
        /\ UNCHANGED <<started, retry, relay, watching, capture>>
        /\ UNCHANGED <<inbox, session, receive, events, starts, claimed, stopped>>
    BY <1>5 DEF LingerEnds, bridgeVars, historyVars
  <2> QED  BY <1>1, <2>1 DEF CameraInv, CameraTypeOK, LingerIsUnclaimed
<1> QED  BY <1>2, <1>3, <1>4, <1>5

(* The still capture.                                                      *)
LEMMA CaptureStepKeepsCameraInv ==
  ASSUME CameraInv, CaptureStep
  PROVE  CameraInv'
<1> DEFINE Capture == [at : {"idle", "starting", "releasing", "pausing", "grabbing", "stopping"},
                       mine : BOOLEAN, attempt : 0..1]
<1>1. /\ {"capture", "linger"} \subseteq Task /\ call \in [Task -> Phase]
      /\ CameraTypeOK /\ LingerIsUnclaimed /\ capture \in Capture
      /\ LingerCancelled \in [Task -> Phase] /\ LingerCancelled["linger"] = "none"
  BY DEF Task, CameraInv, CameraTypeOK, LingerCancelled, Phase
<1>2. /\ NoCapture \in Capture /\ NextAttempt \in Capture
      /\ [NoCapture EXCEPT !.at = "grabbing"] \in Capture
      /\ [capture EXCEPT !.at = "starting"] \in Capture
      /\ [capture EXCEPT !.at = "releasing"] \in Capture
      /\ [capture EXCEPT !.at = "stopping"] \in Capture
      /\ [capture EXCEPT !.at = "grabbing", !.mine = TRUE] \in Capture
  <2>1. NoCapture \in Capture
    BY DEF NoCapture
  <2>2. [NoCapture EXCEPT !.at = "grabbing"] \in Capture
    BY <2>1
  <2>3. /\ [capture EXCEPT !.at = "starting"] \in Capture
        /\ [capture EXCEPT !.at = "releasing"] \in Capture
        /\ [capture EXCEPT !.at = "stopping"] \in Capture
        /\ [capture EXCEPT !.at = "pausing"] \in Capture
        /\ [capture EXCEPT !.at = "grabbing"] \in Capture
    BY <1>1
  <2>4. [[capture EXCEPT !.at = "pausing"] EXCEPT !.attempt = 1] \in Capture
    <3> DEFINE paused == [capture EXCEPT !.at = "pausing"]
    <3>1. paused \in Capture /\ 1 \in 0..1
      BY <2>3
    <3> HIDE DEF paused
    <3>2. [paused EXCEPT !.attempt = 1] \in Capture
      BY <3>1
    <3> QED  BY <3>2 DEF paused
  <2>5. [[capture EXCEPT !.at = "grabbing"] EXCEPT !.mine = TRUE] \in Capture
    BY <2>3
  <2>6. NextAttempt \in Capture
    BY <2>1, <2>4 DEF NextAttempt
  <2> QED  BY <2>1, <2>2, <2>3, <2>5, <2>6
<1>3. CASE CaptureReuses \/ CaptureRereads
  <2>1. /\ call' = LingerCancelled /\ claimed' = (call'["linger"] = "sleeping")
        /\ capture' \in {capture, [NoCapture EXCEPT !.at = "grabbing"]}
        /\ UNCHANGED <<watching, status, started, retry, relay>>
        /\ UNCHANGED <<inbox, session, receive, events, starts, stopped>>
    BY <1>3 DEF CaptureReuses, CaptureRereads, SourceClaimed, Claimed, productVars, bridgeVars
  <2>2. claimed' = FALSE /\ capture' \in Capture
    BY <1>1, <1>2, <2>1
  <2>3. CameraTypeOK'
    BY <1>1, <2>1, <2>2 DEF CameraTypeOK
  <2> QED  BY <1>1, <2>1, <2>3 DEF CameraInv, LingerIsUnclaimed
<1>4. CASE CaptureStarts
  <2>1. /\ capture' = [capture EXCEPT !.at = "starting"] /\ stopped' = FALSE
        /\ SendStart("capture", call)
        /\ UNCHANGED <<retry, relay, watching, session, receive, events, claimed>>
    BY <1>4 DEF CaptureStarts
  <2>2. /\ starts' \in 0..MaxStarts /\ status' = "preparing" /\ started' = FALSE
        /\ inbox' \in Seq(Command) /\ call' = [call EXCEPT !["capture"] = "start"]
        /\ call' \in [Task -> Phase]
    BY <1>1, <2>1, SendStartTypes
  <2>3. call'["linger"] = call["linger"] /\ capture' \in Capture
    BY <1>1, <1>2, <2>1, <2>2
  <2>4. CameraTypeOK'
    BY <1>1, <2>1, <2>2, <2>3 DEF CameraTypeOK, Command
  <2> QED  BY <1>1, <2>1, <2>3, <2>4 DEF CameraInv, LingerIsUnclaimed
<1>5. CASE CaptureStarted
  <2>1. /\ BeginSession("capture", [LingerCancelled EXCEPT !["capture"] = "none"])
        /\ capture' = [capture EXCEPT !.at = "grabbing", !.mine = TRUE]
        /\ claimed' = (call'["linger"] = "sleeping")
        /\ UNCHANGED <<started, watching, inbox, session, receive, events, starts, stopped>>
    BY <1>5 DEF CaptureStarted, Claimed, bridgeVars
  <2>2. /\ [LingerCancelled EXCEPT !["capture"] = "none"] \in [Task -> Phase]
        /\ [LingerCancelled EXCEPT !["capture"] = "none"]["linger"] = "none"
    BY <1>1 DEF Phase
  <2>3. /\ status' = "streaming" /\ retry' = "none"
        /\ relay' \in [Checker -> {"none", "creating", "relaying"}]
        /\ call' \in [Task -> Phase] /\ call'["linger"] \in {"none", "polling"}
    BY <1>1, <2>1, <2>2, BeginSessionTypes
  <2>4. claimed' = FALSE /\ capture' \in Capture
    BY <1>2, <2>1, <2>3
  <2>5. CameraTypeOK'
    BY <1>1, <2>1, <2>3, <2>4 DEF CameraTypeOK
  <2> QED  BY <2>3, <2>5 DEF CameraInv, LingerIsUnclaimed
<1>6. ASSUME \/ /\ SendStop("capture", call)
                /\ capture' \in {[capture EXCEPT !.at = "releasing"],
                                 [capture EXCEPT !.at = "stopping"]}
             \/ /\ call' \in {call, [call EXCEPT !["capture"] = "none"]} /\ UNCHANGED inbox
                /\ capture' \in {NextAttempt, NoCapture},
             retry' \in {retry, "no"}, UNCHANGED <<status, started, relay, watching>>,
             UNCHANGED <<session, receive, events, starts, claimed, stopped>>
      PROVE  CameraInv'
  <2>1. /\ inbox' \in Seq(Command) /\ call' \in [Task -> Phase]
        /\ call'["linger"] = call["linger"]
    <3>1. CASE SendStop("capture", call)
      <4>1. /\ inbox' \in Seq(Command) /\ call' = [call EXCEPT !["capture"] = "stop"]
            /\ call' \in [Task -> Phase]
        BY <1>1, <3>1, SendStopTypes
      <4> QED  BY <1>1, <4>1
    <3>2. CASE call' \in {call, [call EXCEPT !["capture"] = "none"]} /\ UNCHANGED inbox
      BY <1>1, <3>2 DEF CameraTypeOK, Command, Phase
    <3> QED  BY <1>6, <3>1, <3>2
  <2>2. capture' \in Capture
    BY <1>2, <1>6
  <2>3. CameraTypeOK'
    BY <1>1, <1>6, <2>1, <2>2 DEF CameraTypeOK, Command
  <2> QED  BY <1>1, <1>6, <2>1, <2>3 DEF CameraInv, LingerIsUnclaimed
<1>7. CASE CaptureStartFails \/ CaptureGrabbed
  <2>1. /\ retry' \in {retry, "no"} /\ UNCHANGED <<status, started, relay, watching>>
        /\ UNCHANGED <<session, receive, events, starts, claimed, stopped>>
    BY <1>7 DEF CaptureStartFails, CaptureGrabbed, historyVars
  <2>2. \/ /\ SendStop("capture", call)
           /\ capture' \in {[capture EXCEPT !.at = "releasing"],
                            [capture EXCEPT !.at = "stopping"]}
        \/ /\ call' \in {call, [call EXCEPT !["capture"] = "none"]} /\ UNCHANGED inbox
           /\ capture' \in {NextAttempt, NoCapture}
    BY <1>7 DEF CaptureStartFails, CaptureGrabbed, CaptureStops
  <2> QED  BY <1>6, <2>1, <2>2
<1>8. CASE CaptureResumes
  <2>1. /\ call' = [call EXCEPT !["capture"] = "none"] /\ capture' \in {NextAttempt, NoCapture}
        /\ status' \in {"idle", status}
        /\ UNCHANGED <<started, retry, relay, watching>>
        /\ UNCHANGED <<inbox, session, receive, events, starts, claimed, stopped>>
    BY <1>8 DEF CaptureResumes, bridgeVars, historyVars
  <2>2. /\ call' \in [Task -> Phase] /\ call'["linger"] = call["linger"] /\ capture' \in Capture
    BY <1>1, <1>2, <2>1 DEF Phase
  <2>3. CameraTypeOK'
    BY <1>1, <2>1, <2>2 DEF CameraTypeOK
  <2> QED  BY <1>1, <2>1, <2>2, <2>3 DEF CameraInv, LingerIsUnclaimed
<1> QED  BY <1>3, <1>4, <1>5, <1>7, <1>8 DEF CaptureStep

(* The bridge's session and the event worker.                              *)
LEMMA BridgeStepKeepsCameraInv ==
  ASSUME CameraInv, BridgeStarts \/ BridgeStops \/ SessionOpens \/ SessionEnds \/ HandleEvent
  PROVE  CameraInv'
<1>1. /\ "linger" \in Task /\ call \in [Task -> Phase]
      /\ CameraTypeOK /\ LingerIsUnclaimed
      /\ Queued("started") \in Seq({"started", "stopped"})
      /\ Queued("stopped") \in Seq({"started", "stopped"})
  BY QueuedTypes DEF Task, CameraInv, CameraTypeOK
<1>2. ASSUME inbox # <<>>
      PROVE  /\ Tail(inbox) \in Seq(Command) /\ Head(inbox) \in Command
             /\ AnsweredCall(Head(inbox)) \in [Task -> Phase]
             /\ AnsweredCall(Head(inbox))["linger"] = "sleeping" => call["linger"] = "sleeping"
  <2>1. Tail(inbox) \in Seq(Command) /\ Head(inbox) \in Command
    BY <1>1, <1>2, HeadTailProperties DEF CameraTypeOK, Command
  <2>2. {"answered", "got", "awaiting"} \subseteq Phase
    BY DEF Phase
  <2>3. \A m : AnsweredCall(m) \in [Task -> Phase]
    BY <1>1, <2>2 DEF AnsweredCall
  <2>4. \A m : AnsweredCall(m)["linger"] = "sleeping" => call["linger"] = "sleeping"
    BY <1>1 DEF AnsweredCall
  <2> QED  BY <2>1, <2>3, <2>4
<1>3. CASE BridgeStarts
  <2>1. /\ inbox # <<>> /\ inbox' = Tail(inbox)
        /\ call' \in {call, AnsweredCall(Head(inbox))} /\ session' \in {session, "opening"}
        /\ receive' = receive \/ receive' = TRUE
        /\ events' \in {events, Queued("started")}
        /\ UNCHANGED <<watching, capture, status, started, retry, relay, starts, claimed, stopped>>
    BY <1>3 DEF BridgeStarts, productVars, historyVars
  <2>2. /\ inbox' \in Seq(Command) /\ call' \in [Task -> Phase]
        /\ call'["linger"] = "sleeping" => call["linger"] = "sleeping"
    BY <1>1, <1>2, <2>1
  <2>3. receive' \in BOOLEAN /\ events' \in Seq({"started", "stopped"})
    BY <1>1, <2>1 DEF CameraTypeOK
  <2>4. CameraTypeOK'
    BY <1>1, <2>1, <2>2, <2>3 DEF CameraTypeOK, Command
  <2> QED  BY <1>1, <2>1, <2>2, <2>4 DEF CameraInv, LingerIsUnclaimed
<1>4. CASE BridgeStops
  <2>1. /\ inbox # <<>> /\ inbox' = Tail(inbox) /\ call' = AnsweredCall(Head(inbox))
        /\ receive' = (receive /\ session = "on")
        /\ UNCHANGED <<watching, capture, status, started, retry, relay, session, events>>
        /\ UNCHANGED <<starts, claimed, stopped>>
    BY <1>4 DEF BridgeStops, productVars, historyVars
  <2>2. receive' \in BOOLEAN
    BY <2>1
  <2>3. /\ inbox' \in Seq(Command) /\ call' \in [Task -> Phase]
        /\ call'["linger"] = "sleeping" => call["linger"] = "sleeping"
    BY <1>2, <2>1
  <2>4. CameraTypeOK'
    BY <1>1, <2>1, <2>2, <2>3 DEF CameraTypeOK, Command
  <2> QED  BY <1>1, <2>1, <2>3, <2>4 DEF CameraInv, LingerIsUnclaimed
<1>5. CASE SessionOpens \/ SessionEnds
  <2>1. /\ session' \in {"on", "off"} /\ (receive' = receive \/ receive' = FALSE)
        /\ events' \in {events, Queued("started"), Queued("stopped")}
        /\ UNCHANGED <<inbox, call, watching, capture, status, started, retry, relay>>
        /\ UNCHANGED <<starts, claimed, stopped>>
    BY <1>5 DEF SessionOpens, SessionEnds, entityVars, productVars, historyVars
  <2>2. receive' \in BOOLEAN /\ events' \in Seq({"started", "stopped"})
    BY <1>1, <2>1 DEF CameraTypeOK
  <2>3. CameraTypeOK'
    BY <1>1, <2>1, <2>2 DEF CameraTypeOK
  <2> QED  BY <1>1, <2>1, <2>3 DEF CameraInv, LingerIsUnclaimed
<1>6. CASE HandleEvent
  <2>1. /\ events # <<>> /\ events' = Tail(events) /\ status' \in {status, "idle"}
        /\ started' = started \/ started' = TRUE
        /\ \/ call' = [t \in Task |-> IF call[t] = "awaiting" THEN "got" ELSE call[t]]
           \/ call' = call
        /\ UNCHANGED <<retry, relay, watching, capture, inbox, session, receive>>
        /\ UNCHANGED <<starts, claimed, stopped>>
    BY <1>6 DEF HandleEvent, historyVars
  <2>2. /\ call' \in [Task -> Phase]
        /\ call'["linger"] = "sleeping" => call["linger"] = "sleeping"
    BY <1>1, <2>1 DEF Phase
  <2>3. events' \in Seq({"started", "stopped"}) /\ started' \in BOOLEAN
    <3>1. events' \in Seq({"started", "stopped"})
      BY <1>1, <2>1, HeadTailProperties DEF CameraTypeOK
    <3>2. started' \in BOOLEAN
      BY <1>1, <2>1 DEF CameraTypeOK
    <3> QED  BY <3>1, <3>2
  <2>4. CameraTypeOK'
    BY <1>1, <2>1, <2>2, <2>3 DEF CameraTypeOK
  <2> QED  BY <1>1, <2>1, <2>2, <2>4 DEF CameraInv, LingerIsUnclaimed
<1> QED  BY <1>3, <1>4, <1>5, <1>6

LEMMA NextKeepsCameraInv == CameraInv /\ [CameraNext]_cameraVars => CameraInv'
<1> SUFFICES ASSUME CameraInv, [CameraNext]_cameraVars PROVE CameraInv'
  OBVIOUS
<1>1. CASE UNCHANGED cameraVars
  BY <1>1 DEF CameraInv, CameraTypeOK, LingerIsUnclaimed, cameraVars, entityVars, productVars,
     bridgeVars, historyVars
<1> QED
  BY <1>1, UserStepKeepsCameraInv, ViewingKeepsCameraInv, CaptureStepKeepsCameraInv,
     CheckerStepKeepsCameraInv, BridgeStepKeepsCameraInv DEF CameraNext

(***************************************************************************)
(* Nobody watches, and nobody has asked for the source, while the seconds  *)
(* of grace run, at every step of viewers, probes, captures and checkers.  *)
(***************************************************************************)
THEOREM CameraInvariant == CameraSpec => []CameraInv
<1>1. CameraInit => CameraInv
  BY InitEstablishesCameraInv
<1>2. CameraInv /\ [CameraNext]_cameraVars => CameraInv'
  BY NextKeepsCameraInv
<1> QED  BY <1>1, <1>2, PTL DEF CameraSpec

(***************************************************************************)
(* The variables keep their types: no capture tries a start a third time,  *)
(* and every task is in one phase of a start or a stop.                    *)
(***************************************************************************)
THEOREM CameraTypesHold == CameraSpec => []CameraTypeOK
<1>1. CameraInv => CameraTypeOK
  BY DEF CameraInv
<1> QED  BY <1>1, CameraInvariant, PTL

(***************************************************************************)
(* When the grace period ends in a stop, nobody watches and nobody asked   *)
(* for the source since the last viewer left (camera.py:186).              *)
(***************************************************************************)
THEOREM LingerStopsUnclaimedSource == CameraSpec => LingerSparesClaimedSource
<1>1. CameraInv => (call["linger"] = "sleeping" => watching = {} /\ ~claimed)
  BY DEF CameraInv, LingerIsUnclaimed
<1>2. CameraInv /\ [CameraNext]_cameraVars =>
        [call["linger"] = "sleeping" /\ call'["linger"] = "stop"
           => watching = {} /\ ~claimed]_cameraVars
  BY <1>1
<1> QED  BY <1>2, CameraInvariant, PTL DEF CameraSpec, LingerSparesClaimedSource

=============================================================================
