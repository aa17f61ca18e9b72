--------------------------- MODULE StationRequests ---------------------------
(***************************************************************************)
(* Requests that an event answers: the record queries and image downloads  *)
(* of a HomeBase and the pin check of a safe (product.py), and the         *)
(* recording download of a camera (eufy_security_api/camera.py).  The      *)
(* command's result only says that the station was asked; the answer is an *)
(* event, carries no request id, is broadcast to every client of the       *)
(* bridge, and passes through the coalescing queue, here one that never    *)
(* overflows.  Every product advertises its command.                       *)
(***************************************************************************)
EXTENDS Naturals, Sequences, FiniteSets

CONSTANTS
    Request,          \* calls of the integration, each made once
    Other,            \* answers to other clients and to the bridge's own requests
    KindOf,           \* the method called
    FileOf,           \* the file an image download names
    GoodPin,          \* the pin checks whose code is right
    Chunks,           \* bound: video chunks of a recording
    MaxChunks,        \* 250 MB
    MaxCalls,         \* bound: calls made in one behaviour
    None

QueryKind == {"local", "aic", "date"}
Kind == QueryKind \union {"image", "recording", "pin"}

ASSUME StationRequestsAssumption ==
    /\ Request \intersect Other = {} /\ None \notin Request
    /\ KindOf \in [Request \union Other -> Kind]
    /\ \A o \in Other : KindOf[o] # "recording"
    /\ DOMAIN FileOf = Request \union Other
    /\ GoodPin \subseteq Request \union Other
    /\ Chunks \in Nat /\ MaxChunks \in Nat /\ MaxCalls \in Nat

VARIABLES
    slot,             \* the product's future of each kind, named by its call
    future,           \* the state of each call's future
    answer,           \* what it was settled with: parts <<request, number>>
    awaits,           \* the future a pin check waits for
    call,             \* where each call is
    video,            \* _download_video
    sent, unacknowledged, working, \* at the bridge
    part,             \* parts of a recording the bridge has sent
    queue,            \* queued events; a new one takes the place of its key's
    worker,           \* the event worker is alive
    opened,           \* history: pin checks that opened the safe
    vouched           \* history: pin checks during which a good verdict came

callVars == <<slot, future, answer, awaits, call, video, opened>>
bridgeVars == <<sent, unacknowledged, working, part>>
stationVars == <<callVars, bridgeVars, queue, worker, vouched>>

StationInit ==
    /\ slot = [k \in Kind |-> None]
    /\ future = [r \in Request |-> "none"]
    /\ answer = [r \in Request |-> <<>>]
    /\ awaits = [r \in Request |-> r]
    /\ call = [r \in Request |-> "idle"]
    /\ video = <<>>
    /\ sent = {} /\ unacknowledged = {} /\ working = {}
    /\ part = [r \in Request |-> 0]
    /\ queue = <<>> /\ worker = TRUE
    /\ opened = {} /\ vouched = {}

Running(r) == call[r] \in {"asking", "waiting"}
Ended(r) == call[r] \in {"returned", "failed", "refused"}

-----------------------------------------------------------------------------
(* The caller's side.                                                      *)

(* One request of a kind at a time; a pin check replaces the one before.   *)
Busy(r) == KindOf[r] # "pin" /\ slot[KindOf[r]] # None

Install(r) ==
    /\ slot' = [slot EXCEPT ![KindOf[r]] = r]
    /\ future' = [future EXCEPT ![r] = "pending"]
    /\ video' = IF KindOf[r] = "recording" THEN <<>> ELSE video

Begin(r) ==
    /\ call[r] = "idle"
    /\ Cardinality({s \in Request : call[s] # "idle"}) < MaxCalls
    /\ \/ /\ Busy(r)
          /\ call' = [call EXCEPT ![r] = "refused"]
          /\ UNCHANGED <<slot, future, video, sent>>
       \/ /\ ~Busy(r)
          /\ Install(r)
          /\ call' = [call EXCEPT ![r] = "asking"]
          /\ sent' = sent \union {r}
    /\ UNCHANGED <<answer, awaits, unacknowledged, working, part, queue, worker, opened, vouched>>

(* The finally clause; unlock() has none.                                  *)
Release(r) ==
    /\ slot' = IF KindOf[r] = "pin" THEN slot ELSE [slot EXCEPT ![KindOf[r]] = None]
    /\ video' = IF KindOf[r] = "recording" THEN <<>> ELSE video

(* defect: a call that fails leaves its future behind.                     *)
FailHolding(r) == call' = [call EXCEPT ![r] = "failed"] /\ UNCHANGED <<slot, video>>

Fail(r) ==
    /\ call' = [call EXCEPT ![r] = "failed"]
    /\ Release(r)

(* The command was acknowledged; unlock() reads the future only now.       *)
Acknowledge(r) ==
    /\ r \in unacknowledged
    /\ unacknowledged' = unacknowledged \ {r}
    /\ IF call[r] = "asking"
       THEN /\ call' = [call EXCEPT ![r] = "waiting"]
            /\ awaits' = [awaits EXCEPT ![r] = slot[KindOf[r]]]
       ELSE UNCHANGED <<call, awaits>>
    /\ UNCHANGED <<slot, future, answer, video, sent, working, part, queue, worker, opened, vouched>>

(* The call's own timer, the one of the command, or the budget of whoever  *)
(* called; a timer beats an answer whose call has not resumed yet.         *)
GiveUp(r) ==
    /\ Running(r)
    /\ Fail(r)
    /\ future' = IF call[r] = "waiting" /\ future[awaits[r]] = "pending"
                 THEN [future EXCEPT ![awaits[r]] = "cancelled"] ELSE future
    /\ UNCHANGED <<answer, awaits, bridgeVars, queue, worker, opened, vouched>>

(* defect: a verdict is kept until a safe is opened again.                 *)
VerdictKept(r) ==
    \E s \in Request : /\ KindOf[s] = KindOf[r] /\ future[s] = "done"
                       /\ Head(answer[s])[1] \in GoodPin

(* The verdict unlock() acts on is that of the newest pin check.           *)
Verdict(r) == future[slot["pin"]] = "done" /\ Head(answer[slot["pin"]])[1] \in GoodPin

Resume(r) ==
    /\ call[r] = "waiting"
    /\ future[awaits[r]] \notin {"none", "pending"}
    /\ IF future[awaits[r]] # "done" \/ (KindOf[r] = "pin" /\ future[slot["pin"]] # "done")
       THEN Fail(r) /\ UNCHANGED opened
       ELSE /\ call' = [call EXCEPT ![r] = "returned"]
            /\ Release(r)
            /\ opened' = IF KindOf[r] = "pin" /\ Verdict(r) THEN opened \union {r} ELSE opened
    /\ UNCHANGED <<future, answer, awaits, bridgeVars, queue, worker, vouched>>

-----------------------------------------------------------------------------
(* The bridge and the stations.                                            *)

(* A camera sends one recording at a time.                                 *)
BridgeAccepts(r) ==
    /\ r \in sent
    /\ KindOf[r] = "recording" => \A s \in working : KindOf[s] # "recording"
    /\ sent' = sent \ {r}
    /\ unacknowledged' = unacknowledged \union {r}
    /\ working' = working \union {r}
    /\ UNCHANGED <<callVars, part, queue, worker, vouched>>

BridgeRefuses(r) ==
    /\ r \in sent
    /\ sent' = sent \ {r}
    /\ IF call[r] = "asking" THEN Fail(r) ELSE UNCHANGED <<call, slot, video>>
    /\ UNCHANGED <<future, answer, awaits, unacknowledged, working, part, queue, worker, opened,
                   vouched>>

(* _queue_event: the key is the event's name, so a newer event of the name *)
(* replaces the queued one and goes to the end.                            *)
QueueWithout(key) ==
    IF \E i \in DOMAIN queue : queue[i].key = key
    THEN LET i == CHOOSE i \in DOMAIN queue : queue[i].key = key
         IN  SubSeq(queue, 1, i - 1) \o SubSeq(queue, i + 1, Len(queue))
    ELSE queue

Enqueue(key, by, number) ==
    queue' = Append(QueueWithout(key), [key |-> key, by |-> by, number |-> number])

StationReplies(r) ==
    /\ r \in working /\ KindOf[r] # "recording"
    /\ working' = working \ {r}
    /\ Enqueue(KindOf[r], r, 0)
    /\ UNCHANGED <<callVars, sent, unacknowledged, part, worker, vouched>>

CameraSends(r) ==
    /\ r \in working /\ KindOf[r] = "recording"
    /\ part[r] <= Chunks
    /\ part' = [part EXCEPT ![r] = @ + 1]
    /\ IF part[r] < Chunks
       THEN Enqueue("video", r, part[r] + 1) /\ UNCHANGED working
       ELSE Enqueue("recording", r, 0) /\ working' = working \ {r}
    /\ UNCHANGED <<callVars, sent, unacknowledged, worker, vouched>>

(* An answer to somebody else; each once, it stays in working.             *)
OtherReplies(o) ==
    /\ o \notin working
    /\ working' = working \union {o}
    /\ Enqueue(KindOf[o], o, 0)
    /\ UNCHANGED <<callVars, sent, unacknowledged, part, worker, vouched>>

-----------------------------------------------------------------------------
(* The event worker.                                                       *)

(* The future an event of this kind settles.                               *)
Waits(kind) == slot[kind] # None /\ future[slot[kind]] = "pending"

Settle(kind, value) ==
    /\ future' = [future EXCEPT ![slot[kind]] = "done"]
    /\ answer' = [answer EXCEPT ![slot[kind]] = value]

(* defect: an image event is not asked for its file.                       *)
NamesAnyFile(event) == event.key = "image"

NamesItsFile(event) == FileOf[event.by] = FileOf[slot["image"]]

(* Query and image handlers.                                               *)
SettlesRequest(event) ==
    /\ event.key \in QueryKind \union {"image"}
    /\ Waits(event.key)
    /\ event.key = "image" => NamesItsFile(event)

HandleReply(event) ==
    /\ event.key \in QueryKind \union {"image"}
    /\ IF SettlesRequest(event)
       THEN Settle(event.key, <<<<event.by, event.number>>>>)
       ELSE UNCHANGED <<future, answer>>
    /\ UNCHANGED <<video, worker, vouched>>

(* defect: chunks are kept without a limit.                                *)
HandleChunkUnbounded(event) ==
    /\ event.key = "video"
    /\ video' = IF Waits("recording") THEN Append(video, <<event.by, event.number>>) ELSE video
    /\ UNCHANGED <<future, answer, worker, vouched>>

(* download video data, and download finished.                             *)
HandleChunk(event) ==
    /\ event.key = "video"
    /\ CASE ~Waits("recording") -> UNCHANGED <<future, video>>
         [] Waits("recording") /\ Len(video) >= MaxChunks ->
                future' = [future EXCEPT ![slot["recording"]] = "raised"] /\ UNCHANGED video
         [] OTHER ->
                video' = Append(video, <<event.by, event.number>>) /\ UNCHANGED future
    /\ UNCHANGED <<answer, worker, vouched>>

HandleFinished(event) ==
    /\ event.key = "recording"
    /\ IF Waits("recording") THEN Settle("recording", video) ELSE UNCHANGED <<future, answer>>
    /\ UNCHANGED <<video, worker, vouched>>

(* set_result without a question: without a future, or with one that is    *)
(* settled or cancelled, the exception ends the worker.                    *)
HandlePinVerified(event) ==
    /\ event.key = "pin"
    /\ IF Waits("pin")
       THEN Settle("pin", <<<<event.by, event.number>>>>) /\ UNCHANGED worker
       ELSE worker' = FALSE /\ UNCHANGED <<future, answer>>
    /\ vouched' = IF event.by \in GoodPin
                  THEN vouched \union {r \in Request : KindOf[r] = "pin" /\ Running(r)}
                  ELSE vouched
    /\ UNCHANGED video

HandleEvent ==
    /\ worker /\ queue # <<>>
    /\ queue' = Tail(queue)
    /\ LET event == Head(queue)
       IN  \/ HandleReply(event)
           \/ HandleChunk(event)
           \/ HandleFinished(event)
           \/ HandlePinVerified(event)
    /\ UNCHANGED <<slot, awaits, call, bridgeVars, opened>>

-----------------------------------------------------------------------------
StationNext ==
    \/ \E r \in Request :
          \/ Begin(r) \/ Acknowledge(r) \/ GiveUp(r) \/ Resume(r)
          \/ BridgeAccepts(r) \/ BridgeRefuses(r) \/ StationReplies(r) \/ CameraSends(r)
    \/ \E o \in Other : OtherReplies(o)
    \/ HandleEvent

StationSpec == StationInit /\ [][StationNext]_stationVars

-----------------------------------------------------------------------------
Part == (Request \union Other) \X (0 .. Chunks)

Event == [key : Kind \union {"video"}, by : Request \union Other, number : 0 .. Chunks]

(* Type: a recording in memory never exceeds the limit, and no two events  *)
(* of a name are queued.                                                   *)
StationTypeOK ==
    /\ slot \in [Kind -> Request \union {None}]
    /\ future \in [Request -> {"none", "pending", "done", "cancelled", "raised"}]
    /\ answer \in [Request -> Seq(Part)]
    /\ \A r \in Request : Len(answer[r]) <= MaxChunks + 1
    /\ awaits \in [Request -> Request]
    /\ call \in [Request -> {"idle", "asking", "waiting", "returned", "failed", "refused"}]
    /\ video \in Seq(Part) /\ Len(video) <= MaxChunks
    /\ sent \subseteq Request /\ unacknowledged \subseteq Request
    /\ working \subseteq Request \union Other
    /\ part \in [Request -> 0 .. Chunks + 1]
    /\ queue \in Seq(Event)
    /\ \A i, j \in DOMAIN queue : queue[i].key = queue[j].key => i = j
    /\ worker \in BOOLEAN
    /\ opened \subseteq Request /\ vouched \subseteq Request

(* A station or camera that answers "already running" is running a call    *)
(* that will end: whichever way a call ends, it gives the kind free, and   *)
(* no other call's end takes it away from the one that runs.               *)
BusyMeansRunning ==
    \A r \in Request : KindOf[r] # "pin" => (slot[KindOf[r]] = r <=> Running(r))

(* Image events of other files, late or broadcast for somebody else, never *)
(* answer a download: the picture returned is of the file it named.        *)
ImageIsOfItsFile ==
    \A r \in Request : call[r] = "returned" /\ KindOf[r] = "image" =>
        FileOf[Head(answer[r])[1]] = FileOf[r]

(* The safe is opened only by a pin check during which the safe approved a *)
(* code, never on a verdict from before it.                                *)
OpensOnFreshVerdict == opened \subseteq vouched

(* "Download one HomeBase recording" (eufy_security_api/camera.py:134): a  *)
(* recording that is delivered holds its chunks, all of them, in order.    *)
RecordingIsWhole ==
    \A r \in Request : call[r] = "returned" /\ KindOf[r] = "recording" =>
        answer[r] = [n \in 1 .. Chunks |-> <<r, n>>]
=============================================================================
