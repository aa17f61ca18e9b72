---------------------------- MODULE PersonRecovery ----------------------------
(***************************************************************************)
(* The person recovery of the coordinator: motion of a camera leads to a   *)
(* read of its station's records, and a record of a person pulses the      *)
(* camera's person sensor.  Its reads are local queries of StationRequests *)
(* and share with everybody else's the one future, the timeouts and the    *)
(* late answers.  Times are left open: whether a minute has passed, how    *)
(* old a record is and whether it shows a person are choices.  The option  *)
(* is on and every camera belongs to one T8030.                            *)
(***************************************************************************)
EXTENDS StationRequests

CONSTANTS
    Camera, Record,
    CameraOf,         \* the camera of a record
    Read,             \* the requests that are the recovery's
    CamerasOf,        \* the cameras a local query asks for
    MaxPending,       \* 8
    MaxSeen           \* 256

(* A read follows a pause of three seconds and pulses once, so no more     *)
(* than forty records are shown while one of them is young enough, 120     *)
(* seconds: those are remembered.                                          *)
ASSUME RecoveryAssumption ==
    /\ CameraOf \in [Record -> Camera] /\ None \notin Camera
    /\ Read \subseteq Request /\ \A r \in Read : KindOf[r] = "local"
    /\ CamerasOf \in [Request \union Other -> SUBSET Camera]
    /\ \A r \in Read : \E c \in Camera : CamerasOf[r] = {c}
    /\ MaxPending \in Nat \ {0} /\ MaxSeen \in Nat \ {0}
    /\ IsFiniteSet(Record) /\ Cardinality(Record) <= MaxSeen

VARIABLES
    recent,           \* cameras whose motion was taken less than a minute ago
    pending,          \* cameras that wait for a read, the keys of a dict
    popped,           \* the camera the task is at, None when it is done
    reading,          \* the read the task awaits
    seen,             \* records shown, the oldest first
    resets,           \* pulses whose timer runs
    pulses            \* history: [camera, record] of every pulse

recoveryVars == <<recent, pending, popped, reading, seen, resets, pulses>>
vars == <<stationVars, recoveryVars>>

RecoveryInit ==
    /\ StationInit
    /\ recent = {} /\ pending = <<>>
    /\ popped = None /\ reading = None
    /\ seen = <<>> /\ resets = {} /\ pulses = <<>>

Members(s) == {s[i] : i \in DOMAIN s}

-----------------------------------------------------------------------------
(* The loop of _recover_record_people, up to its pause.                    *)
TakeNext(waiting) ==
    IF waiting = <<>> THEN popped' = None /\ pending' = <<>>
    ELSE popped' = Head(waiting) /\ pending' = Tail(waiting)

NewRecord(record) == record \notin Members(seen)

(* defect: whoever sent the answer, its records are the camera's.          *)
AnyCamerasRecord(record) == TRUE

OwnRecord(record) == CameraOf[record] = popped

(* What the answer holds: records of the cameras its own query named.      *)
Answered(r) == {record \in Record : CameraOf[record] \in CamerasOf[Head(answer[r])[1]]}

Qualifies(record) == OwnRecord(record) /\ NewRecord(record)

Remember(record) ==
    LET longer == Append(seen, record)
    IN  seen' = IF Len(longer) > MaxSeen THEN Tail(longer) ELSE longer

Pulse(record) ==
    /\ Remember(record)
    /\ resets' = resets \union {record}
    /\ pulses' = Append(pulses, [camera |-> popped, record |-> record])

NoPulse == UNCHANGED <<seen, resets, pulses>>

(* The task is at the next camera.                                         *)
GoesOn == reading' = None /\ TakeNext(pending) /\ UNCHANGED recent

-----------------------------------------------------------------------------
(* Motion, once a minute; a full queue drops it, and a task that is done   *)
(* is started and runs up to its pause.  A camera that waits keeps its     *)
(* place.                                                                  *)
Enqueued(camera) ==
    IF camera \in Members(pending) THEN pending ELSE Append(pending, camera)

MotionRises(camera) ==
    /\ camera \notin recent /\ Len(pending) < MaxPending
    /\ recent' = recent \union {camera}
    /\ IF popped = None THEN TakeNext(Enqueued(camera))
       ELSE pending' = Enqueued(camera) /\ UNCHANGED popped
    /\ UNCHANGED <<stationVars, reading, seen, resets, pulses>>

MinutePasses(camera) ==
    /\ camera \in recent
    /\ recent' = recent \ {camera}
    /\ UNCHANGED <<stationVars, pending, popped, reading, seen, resets, pulses>>

Pausing == popped # None /\ reading = None

(* After the pause the camera is gone or reports a person itself.          *)
CameraSkipped ==
    /\ Pausing /\ GoesOn /\ NoPulse
    /\ UNCHANGED stationVars

(* A read that is refused because another one runs is not tried again.     *)
ReadBegins(r) ==
    /\ Pausing /\ CamerasOf[r] = {popped}
    /\ Begin(r)
    /\ IF Busy(r) THEN GoesOn
       ELSE reading' = r /\ UNCHANGED <<recent, pending, popped>>
    /\ NoPulse

(* Neither is one that took 25 seconds, or lost the connection.            *)
ReadGivenUp(r) ==
    /\ GiveUp(r) /\ GoesOn /\ NoPulse

(* A command that failed ends the task: its exception is not caught.       *)
ReadRefused(r) ==
    /\ BridgeRefuses(r)
    /\ IF reading = r
       THEN popped' = None /\ reading' = None /\ UNCHANGED <<recent, pending>>
       ELSE UNCHANGED <<recent, pending, popped, reading>>
    /\ NoPulse

(* The first record that qualifies is shown.                               *)
ReadReturns(r) ==
    /\ Resume(r) /\ GoesOn
    /\ \/ NoPulse
       \/ /\ call'[r] = "returned"
          /\ \E record \in Answered(r) : Qualifies(record) /\ Pulse(record)

PulseEnds(record) ==
    /\ record \in resets
    /\ resets' = resets \ {record}
    /\ UNCHANGED <<stationVars, recent, pending, popped, reading, seen, pulses>>

-----------------------------------------------------------------------------
ReadStep(r) ==
    \/ ReadBegins(r) \/ ReadGivenUp(r) \/ ReadRefused(r) \/ ReadReturns(r)

OtherCallStep(r) ==
    /\ Begin(r) \/ GiveUp(r) \/ Resume(r) \/ BridgeRefuses(r)
    /\ UNCHANGED recoveryVars

StationStep ==
    /\ \/ \E r \in Request :
             Acknowledge(r) \/ BridgeAccepts(r) \/ StationReplies(r) \/ CameraSends(r)
       \/ \E o \in Other : OtherReplies(o)
       \/ HandleEvent
    /\ UNCHANGED recoveryVars

RecoveryNext ==
    \/ \E r \in Read : ReadStep(r)
    \/ \E r \in Request \ Read : OtherCallStep(r)
    \/ StationStep
    \/ \E camera \in Camera : MotionRises(camera) \/ MinutePasses(camera)
    \/ CameraSkipped
    \/ \E record \in Record : PulseEnds(record)

RecoverySpec == RecoveryInit /\ [][RecoveryNext]_vars

-----------------------------------------------------------------------------
(* Type, the station's included.  The recovery reads one record set at a   *)
(* time: a read of its that runs is the one the task awaits.               *)
RecoveryTypeOK ==
    /\ StationTypeOK
    /\ recent \subseteq Camera
    /\ pending \in Seq(Camera) /\ Len(pending) <= MaxPending
    /\ popped \in Camera \union {None} /\ reading \in Read \union {None}
    /\ \A r \in Read : Running(r) <=> reading = r
    /\ seen \in Seq(Record) /\ Len(seen) <= MaxSeen
    /\ resets \subseteq Record
    /\ pulses \in Seq([camera : Camera, record : Record])

(* "Only same-camera recent records ... can pulse", "reused record IDs     *)
(* suppress duplicates" (PRO_GUI_RELIABILITY_2026-11-06.md:32-34): also    *)
(* when another query's answer, late or somebody else's, settles the read, *)
(* a record pulses its own camera, and once.                               *)
RecordPulsesItsCameraOnce ==
    /\ \A p \in Members(pulses) : p.camera = CameraOf[p.record]
    /\ Cardinality({p.record : p \in Members(pulses)}) = Len(pulses)
=============================================================================
