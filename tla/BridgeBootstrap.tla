--------------------------- MODULE BridgeBootstrap ---------------------------
(***************************************************************************)
(* Loading the product inventory (api_client.py:88-219) while events       *)
(* already arrive, and the dispatch of events by ApiClient (697-739):      *)
(* deferral until the inventory of their kind exists, replay when both     *)
(* inventories do, and the driver's captcha and verify-code events, which  *)
(* settle the two futures the interactive check waits for.                 *)
(*                                                                         *)
(* The queue and its worker are EventQueue; this module replaces its       *)
(* HandleEvent by the real message callback.                               *)
(***************************************************************************)
EXTENDS EventQueue, Sequences, FiniteSetsExt

CONSTANTS
    Device, Station,  \* products listed by start_listening, each a slot of its own
    Driver,           \* the slot of driver events, which no product has
    CaptchaKey,       \* keys of the driver's "captcha request" ...
    VerifyKey,        \* ... and "verify code" events
    DeferCap,         \* limit of _pending_product_events, 512 in the code
    Width             \* the semaphore of _get_products, 2 in the code

ASSUME BootstrapAssumption ==
    /\ Slot = Device \union Station \union {Driver}
    /\ Device \intersect Station = {} /\ Driver \notin Device \union Station
    /\ SlotOf[CaptchaKey] = Driver /\ SlotOf[VerifyKey] = Driver
    /\ DeferCap \in Nat \ {0}
    /\ Width \in Nat \ {0}

VARIABLES
    phase,            \* where ApiClient.connect() is
    loaded,           \* the kinds whose dict (_devices, _stations) is not None
    build,            \* build[s]: progress of _build_product
    read,             \* read[s]: stamp of the state the property read returned
    inventory,        \* the serials in _devices and _stations
    deferred,         \* _pending_product_events
    captcha, mfa      \* _captcha_future, _mfa_future

bootVars == <<phase, loaded, build, read, inventory, deferred, captcha, mfa>>
bootstrapVars == <<queueVars, bootVars>>

Product == Device \union Station
Loading == {"listening", "captcha", "mfa", "devices", "stations"}
KindOf(s) == IF s \in Device THEN "device" ELSE "station"
Listed ==
    {s \in Product : \/ phase = "devices" /\ s \in Device
                     \/ phase = "stations" /\ s \in Station}

BootstrapInit ==
    /\ EventQueueInit
    /\ phase = "listening"
    /\ loaded = {}
    /\ build = [s \in Product |-> "queued"]
    /\ read = [s \in Product |-> 0]
    /\ inventory = {}
    /\ deferred = <<>>
    /\ captcha = "pending" /\ mfa = "pending"

-----------------------------------------------------------------------------
(* _set_products.                                                          *)

(* start_listening returned; the driver is logged in to the cloud or not.  *)
StartListening ==
    /\ phase = "listening"
    /\ phase' \in {"devices", "captcha"}
    /\ UNCHANGED <<loaded, build, read, inventory, deferred, captcha, mfa, queueVars>>

(* Raised to the caller: captcha or verify code wanted, driver offline, a  *)
(* command refused, the connection lost, or 180 seconds over               *)
(* (coordinator.py:113).  The socket and the worker stay as they are.      *)
ConnectFails ==
    /\ phase \in Loading
    /\ phase' = "failed"
    /\ UNCHANGED <<loaded, build, read, inventory, deferred, captcha, mfa, queueVars>>

CaptchaWanted ==
    /\ phase = "captcha"
    /\ captcha = "done"
    /\ phase' = "failed"
    /\ UNCHANGED <<loaded, build, read, inventory, deferred, captcha, mfa, queueVars>>

(* wait_for(..., timeout=10) cancels the future it gives up on.            *)
CaptchaTimesOut ==
    /\ phase = "captcha"
    /\ phase' = "mfa"
    /\ captcha' = IF captcha = "pending" THEN "cancelled" ELSE captcha
    /\ UNCHANGED <<loaded, build, read, inventory, deferred, mfa, queueVars>>

(* Either the verify-code event came, or 5 seconds passed and the driver   *)
(* is asked to connect: both end in an exception.                          *)
MfaCheckEnds ==
    /\ phase = "mfa"
    /\ phase' = "failed"
    /\ mfa' = IF mfa = "pending" THEN "cancelled" ELSE mfa
    /\ UNCHANGED <<loaded, build, read, inventory, deferred, captcha, queueVars>>

-----------------------------------------------------------------------------
(* _get_products: the semaphore admits Width products; each reads its      *)
(* properties, then metadata, commands and the rest.                       *)

StartBuild(s) ==
    /\ s \in Listed
    /\ build[s] = "queued"
    /\ Cardinality({t \in Listed : build[t] \in {"building", "read"}}) < Width
    /\ build' = [build EXCEPT ![s] = "building"]
    /\ UNCHANGED <<phase, loaded, read, inventory, deferred, captcha, mfa, queueVars>>

(* The socket delivers in order: the state in the answer is the one of the *)
(* newest event frame received before it.                                  *)
ReadProperties(s) ==
    /\ s \in Listed
    /\ build[s] = "building"
    /\ build' = [build EXCEPT ![s] = "read"]
    /\ read' = [read EXCEPT ![s] = received[s]]
    /\ UNCHANGED <<phase, loaded, inventory, deferred, captcha, mfa, queueVars>>

(* Built, or given up after 20 seconds or a lost answer.                   *)
EndBuild(s) ==
    /\ s \in Listed
    /\ \/ build[s] = "read" /\ build' = [build EXCEPT ![s] = "built"]
       \/ build[s] \in {"building", "read"} /\ build' = [build EXCEPT ![s] = "omitted"]
    /\ UNCHANGED <<phase, loaded, read, inventory, deferred, captcha, mfa, queueVars>>

AllBuilt == \A s \in Listed : build[s] = "built"         \* defect: waits for omitted products

AllEnded == \A s \in Listed : build[s] \in {"built", "omitted"}

Published == {s \in Listed : build[s] = "built"}

(* The products' states once the inventory of this phase is published.     *)
AfterPublish == [s \in Slot |-> IF s \in Published THEN read[s] ELSE applied[s]]

PublishDevices ==
    /\ phase = "devices"
    /\ AllEnded
    /\ inventory' = inventory \union Published
    /\ applied' = AfterPublish
    /\ loaded' = loaded \union {"device"}
    /\ phase' = "stations"
    /\ UNCHANGED <<build, read, deferred, captcha, mfa,
                   pending, ready, worker, clock, received, dropped>>

DeferredAt(s) == {i \in DOMAIN deferred : SlotOf[deferred[i].key] = s}

(* Defect: the list is replayed from its end.                              *)
ReplayedLastReversed(s) == deferred[Min(DeferredAt(s))].stamp

(* The list is replayed in order: the last event of s is the one that      *)
(* stays.                                                                  *)
ReplayedLast(s) == deferred[Max(DeferredAt(s))].stamp

(* Publishing the stations, the swap of the list and the replay run        *)
(* without an await that yields; products left out ignore their events.    *)
PublishStationsAndReplay ==
    /\ phase = "stations"
    /\ AllEnded
    /\ inventory' = inventory \union Published
    /\ applied' = [s \in Slot |->
                     IF s \in inventory' /\ DeferredAt(s) # {}
                     THEN ReplayedLast(s)
                     ELSE AfterPublish[s]]
    /\ loaded' = loaded \union {"station"}
    /\ deferred' = <<>>
    /\ phase' = "ready"
    /\ UNCHANGED <<build, read, captcha, mfa, pending, ready, worker, clock, received, dropped>>

-----------------------------------------------------------------------------
(* The events: the worker hands each to _on_message and _handle_event.     *)

EventArrives(k) ==
    /\ phase # "listening"
    /\ QueueEvent(k)
    /\ UNCHANGED bootVars

DeferralFullLate == Len(deferred) > DeferCap              \* defect: limit off by one

DeferralFull == Len(deferred) >= DeferCap

(* The newest event of its slot discarded, by the queue or by this list.   *)
Discarded(e) == [dropped EXCEPT ![SlotOf[e.key]] = IF e.stamp > @ THEN e.stamp ELSE @]

DeferredEvent(k) == [key |-> k, stamp |-> pending[k].stamp]

(* No inventory of its kind yet: put aside, the oldest discarded when full.*)
DeferEvent(k) ==
    LET s == SlotOf[k] IN
    /\ s # Driver
    /\ KindOf(s) \notin loaded
    /\ WorkerRuns /\ IsOldest(k)
    /\ pending' = [pending EXCEPT ![k] = Absent]
    /\ worker' = "yielding"
    /\ deferred' = Append(IF DeferralFull THEN Tail(deferred) ELSE deferred, DeferredEvent(k))
    /\ dropped' = IF DeferralFull THEN Discarded(Head(deferred)) ELSE dropped
    /\ UNCHANGED <<phase, loaded, build, read, inventory, captcha, mfa,
                   ready, clock, received, applied>>

(* A product in the inventory takes the event, an omitted one ignores it.  *)
DispatchEvent(k) ==
    LET s == SlotOf[k] IN
    /\ s # Driver
    /\ KindOf(s) \in loaded
    /\ TakeOldest(k)
    /\ IF s \in inventory THEN Apply(s, pending[k].stamp) ELSE UNCHANGED applied
    /\ worker' = "yielding"
    /\ UNCHANGED bootVars

(* _process_driver_event: set_result raises InvalidStateError on a future  *)
(* that is done or cancelled, and nothing between here and the task        *)
(* catches it (web_socket_client.py:143-156).                              *)
Settle(futureOf) ==
    \/ futureOf = "pending" /\ worker' = "yielding"
    \/ futureOf # "pending" /\ worker' = "dead"

DriverEvent(k) ==
    /\ k \in {CaptchaKey, VerifyKey}
    /\ TakeOldest(k)
    /\ Settle(IF k = CaptchaKey THEN captcha ELSE mfa)
    /\ captcha' = IF k = CaptchaKey /\ captcha = "pending" THEN "done" ELSE captcha
    /\ mfa' = IF k = VerifyKey /\ mfa = "pending" THEN "done" ELSE mfa
    /\ UNCHANGED <<phase, loaded, build, read, inventory, deferred, applied>>

WorkerWaits == WorkerIdles /\ UNCHANGED bootVars

-----------------------------------------------------------------------------

BuildStep(s) == StartBuild(s) \/ ReadProperties(s) \/ EndBuild(s)

InteractiveStep == CaptchaWanted \/ CaptchaTimesOut \/ MfaCheckEnds

BootstrapNext ==
    \/ StartListening \/ ConnectFails \/ InteractiveStep
    \/ \E s \in Product : BuildStep(s)
    \/ PublishDevices \/ PublishStationsAndReplay
    \/ \E k \in EventKey : EventArrives(k) \/ DeferEvent(k) \/ DispatchEvent(k) \/ DriverEvent(k)
    \/ WorkerWaits

BootstrapSafety == BootstrapInit /\ [][BootstrapNext]_bootstrapVars

(* Timers fire (10 and 5 seconds, 20 per product, 30 per request) and the  *)
(* loop runs what is ready.                                                *)
BootstrapFairness ==
    /\ WF_bootstrapVars(phase = "listening" /\ (StartListening \/ ConnectFails))
    /\ WF_bootstrapVars(InteractiveStep)
    /\ \A s \in Product : WF_bootstrapVars(BuildStep(s))
    /\ WF_bootstrapVars(PublishDevices)
    /\ WF_bootstrapVars(PublishStationsAndReplay)
    /\ WF_bootstrapVars(\/ \E k \in EventKey : DeferEvent(k) \/ DispatchEvent(k) \/ DriverEvent(k)
                        \/ WorkerWaits)

BootstrapSpec == BootstrapSafety /\ BootstrapFairness

-----------------------------------------------------------------------------
(* Properties.                                                             *)

(* The types of the variables.  The deferral list stays within its limit,  *)
(* also in a client whose setup failed, which goes on deferring (709-710). *)
BootstrapTypeOK ==
    /\ phase \in Loading \union {"ready", "failed"}
    /\ loaded \in SUBSET {"device", "station"}
    /\ build \in [Product -> {"queued", "building", "read", "built", "omitted"}]
    /\ read \in [Product -> EventStamp]
    /\ inventory \in SUBSET Product
    /\ deferred \in Seq([key : EventKey, stamp : EventStamp]) /\ Len(deferred) <= DeferCap
    /\ captcha \in {"pending", "done", "cancelled"}
    /\ mfa \in {"pending", "done", "cancelled"}
    /\ worker \in {"waiting", "yielding", "dead"}

(* The newest report of s is shown, on its way, or was discarded by a full *)
(* queue or a full deferral list.                                          *)
NewestReaches(s) ==
    \/ received[s] \in {applied[s], dropped[s]}
    \/ \E k \in Queued : SlotOf[k] = s /\ pending[k].stamp = received[s]

(* Once connected, every station of the inventory shows the newest state   *)
(* reported, however reports, property reads and the replay interleaved    *)
(* during loading (api_client.py:133-141, 708-716).                        *)
StationsShowNewest == phase = "ready" => \A s \in Station \cap inventory : NewestReaches(s)

(* connect() ends: no combination of slow products, absent prompts and     *)
(* events leaves the setup pending.                                        *)
SetupEnds == <>(phase \in {"ready", "failed"})

(* "Defer that short burst instead of killing the WebSocket event worker"  *)
(* (api_client.py:704): no event kills the worker, which nothing restarts. *)
EventWorkerSurvives == worker # "dead"

=============================================================================
