--------------------------- MODULE SnapshotCache ---------------------------
(***************************************************************************)
(* The still picture of one camera, from its sources to the disk cache and *)
(* back after a restart (coordinator.py, snapshot.py, camera.py).          *)
(*                                                                         *)
(* Three sources set the product's picture: a bridge "picture" property,   *)
(* which carries no capture time; the periodic refresh, which downloads    *)
(* the thumbnail of a dated cloud or HomeBase event; and an explicit       *)
(* capture, dated, which reports success only after the disk copy was read *)
(* back.  One writer task copies the picture to an .img and a .json file   *)
(* in a thread; it is restored when the integration starts.                *)
(*                                                                         *)
(* Frames are numbered in the order they were taken; 0 is no picture.  A   *)
(* picture keeps of snapshot_source only whether it is a source with a     *)
(* capture time, and of image_last_updated the frame number, 0 for None:   *)
(* the receipt time of an undated picture is compared with nothing.        *)
(***************************************************************************)
EXTENDS Naturals

CONSTANTS
    MaxFrames,        \* bound: frames taken in a behaviour
    MaxCrashes,       \* bound: times Home Assistant dies
    MaxFailures       \* bound: disk writes that raise OSError

ASSUME SnapshotCacheAssumption ==
    /\ MaxFrames \in Nat
    /\ MaxCrashes \in Nat
    /\ MaxFailures \in Nat

VARIABLES
    phase,            \* "down", "starting" (initialize before the restore), "online"
    bridge,           \* the picture the bridge holds and replays
    index,            \* the newest event of the camera in the evidence index
    mem,              \* the product's picture, image_last_updated, snapshot_source
    lastEvent,        \* _last_snapshot_event_ids of the camera
    refresh,          \* the refresh: the event whose thumbnail it downloads, or None
    flush,            \* _listener_flush_handle is armed
    dirty,            \* _snapshot_cache_dirty
    writer,           \* the writer: "idle", "ready" at its loop, or in its thread
    batch,            \* the record the writer thread was given
    disk,             \* the image file and the metadata file, separately
    capture,          \* async_persist_snapshot_capture: where it is and what it holds
    frames,           \* history: frames taken
    crashes,          \* history: crashes
    failures,         \* history: failed writes
    deferred,         \* history: the last write failed
    stored,           \* history: captures that were on disk with their own time
    confirmed,        \* history: captures reported as durable
    owed              \* history: the confirmed capture on show at the last crash

source == <<bridge, index, frames>>
product == <<mem, lastEvent>>
task == <<flush, dirty, writer, batch, deferred, failures>>
history == <<stored, confirmed, owed, crashes>>
snapshotVars == <<phase, source, product, refresh, task, disk, capture, history>>

-----------------------------------------------------------------------------
NoPicture == [image |-> 0, dated |-> FALSE, time |-> 0]
NoMetadata == [written |-> FALSE, dated |-> FALSE, time |-> 0]
NoEvent == [image |-> 0, time |-> 0]
NoCapture == [at |-> "idle", image |-> 0, read |-> 0]

Undated(image) == [image |-> image, dated |-> FALSE, time |-> 0]

Metadata(picture) == [written |-> TRUE, dated |-> picture.dated, time |-> picture.time]

(* _read_snapshot_record: both files, or no record.                        *)
Cached == disk.image > 0 /\ disk.meta.written

RestoredUndated == FALSE               \* defect: the prefix hides the source's kind

(* The source a restored picture gets: disk_cache_source keeps the name    *)
(* under one prefix, and snapshot_source_has_capture_time strips it again. *)
RestoredDated == disk.meta.dated

(* cached_snapshot_outranks_current                                        *)
CachedOutranks(current) ==
    /\ disk.meta.dated
    /\ disk.meta.time > 0
    /\ current.dated => disk.meta.time > current.time

SnapshotInit ==
    /\ phase = "starting"
    /\ bridge = 0 /\ index = NoEvent /\ frames = 0
    /\ mem = NoPicture /\ lastEvent = 0
    /\ refresh = NoEvent
    /\ flush = FALSE /\ dirty = FALSE /\ writer = "idle" /\ batch = NoPicture
    /\ deferred = FALSE /\ failures = 0
    /\ disk = [image |-> 0, meta |-> NoMetadata]
    /\ capture = NoCapture
    /\ stored = {} /\ confirmed = {} /\ owed = 0 /\ crashes = 0

-----------------------------------------------------------------------------
(* The product's picture.                                                  *)

(* notify_state_update reaches async_update_listeners once entities exist. *)
Notified == phase = "online" \/ flush

(* A "picture" property event: a replay of the value the bridge holds      *)
(* changes the product only when it differs from what is shown.            *)
PictureChanged(image) ==
    mem' = IF image = mem.image THEN mem ELSE Undated(image)

PushPicture ==
    /\ phase # "down"
    /\ frames < MaxFrames
    /\ frames' = frames + 1
    /\ bridge' = frames + 1
    /\ PictureChanged(frames + 1)
    /\ flush' = Notified
    /\ UNCHANGED <<phase, index, lastEvent, refresh, dirty, writer, batch, deferred,
                   failures, disk, capture, history>>

ReplayPicture ==
    /\ phase # "down"
    /\ bridge > 0
    /\ PictureChanged(bridge)
    /\ flush' = Notified
    /\ UNCHANGED <<phase, source, lastEvent, refresh, dirty, writer, batch, deferred,
                   failures, disk, capture, history>>

(* The camera records an event; its start time may be missing.             *)
IndexEvent(timed) ==
    /\ frames < MaxFrames
    /\ frames' = frames + 1
    /\ index' = [image |-> frames + 1, time |-> IF timed THEN frames + 1 ELSE 0]
    /\ UNCHANGED <<phase, bridge, product, refresh, task, disk, capture, history>>

(* The two reasons the refresh leaves a camera alone.                      *)
EventIsOld(event) ==
    /\ mem.image > 0
    /\ \/ event.time > 0 /\ mem.time > 0 /\ mem.dated /\ event.time <= mem.time
       \/ lastEvent = event.image

(* The refresh looks at the product, then awaits the download ...          *)
RefreshSelects ==
    /\ phase = "online"
    /\ refresh = NoEvent
    /\ index.image > 0
    /\ IF EventIsOld(index)
       THEN /\ lastEvent' = index.image
            /\ UNCHANGED refresh
       ELSE /\ refresh' = index
            /\ UNCHANGED lastEvent
    /\ UNCHANGED <<phase, source, mem, task, disk, capture, history>>

(* Defect: a running writer is not told.                                   *)
ScheduleIdleWrite ==
    /\ dirty' = (dirty \/ writer = "idle")
    /\ writer' = IF writer = "idle" THEN "ready" ELSE writer

(* _schedule_snapshot_cache_write                                          *)
ScheduleWrite ==
    /\ dirty' = TRUE
    /\ writer' = IF writer = "idle" THEN "ready" ELSE writer

(* ... and sets the picture without looking again.                         *)
RefreshPublishes ==
    /\ refresh # NoEvent
    /\ mem' = [image |-> refresh.image, dated |-> TRUE, time |-> refresh.time]
    /\ lastEvent' = refresh.image
    /\ flush' = TRUE
    /\ ScheduleWrite
    /\ refresh' = NoEvent
    /\ UNCHANGED <<phase, source, batch, deferred, failures, disk, capture, history>>

RefreshFails ==
    /\ refresh # NoEvent
    /\ refresh' = NoEvent
    /\ UNCHANGED <<phase, source, product, task, disk, capture, history>>

(* async_refresh_stale_snapshot, from the grabbed frame to the await in    *)
(* async_persist_snapshot_capture.  The stream lock admits one at a time.  *)
CapturePublishes ==
    /\ phase = "online"
    /\ capture.at = "idle"
    /\ frames < MaxFrames
    /\ frames' = frames + 1
    /\ mem' = [image |-> frames + 1, dated |-> TRUE, time |-> frames + 1]
    /\ flush' = TRUE
    /\ ScheduleWrite
    /\ capture' = [at |-> "writing", image |-> frames + 1, read |-> 0]
    /\ UNCHANGED <<phase, bridge, index, lastEvent, refresh, batch, deferred, failures,
                   disk, history>>

-----------------------------------------------------------------------------
(* The writer task.                                                        *)

(* _flush_entity_updates, one second after the first notification.         *)
FlushListeners ==
    /\ flush
    /\ flush' = FALSE
    /\ ScheduleWrite
    /\ UNCHANGED <<phase, source, product, refresh, batch, deferred, failures, disk,
                   capture, history>>

(* The task is done: the capture awaiting it starts its read.              *)
CaptureAwaited == [capture EXCEPT !.at = IF @ = "writing" THEN "reading" ELSE @]

WriterCollects ==
    /\ writer = "ready"
    /\ dirty
    /\ dirty' = FALSE
    /\ deferred' = FALSE
    /\ batch' = mem
    /\ writer' = IF mem.image > 0 THEN "image" ELSE "ready"
    /\ UNCHANGED <<phase, source, product, refresh, flush, failures, disk, capture, history>>

(* Defect: "if" for "while": the flag is not looked at again after a write. *)
WriterEndsUnasked ==
    /\ writer = "ready"
    /\ writer' = "idle"
    /\ capture' = CaptureAwaited
    /\ UNCHANGED <<phase, source, product, refresh, flush, dirty, batch, deferred,
                   failures, disk, history>>

WriterEnds ==
    /\ writer = "ready"
    /\ ~dirty
    /\ writer' = "idle"
    /\ capture' = CaptureAwaited
    /\ UNCHANGED <<phase, source, product, refresh, flush, dirty, batch, deferred,
                   failures, disk, history>>

(* The thread renames the two temporary files, one after the other.        *)
ReplaceImage ==
    /\ writer = "image"
    /\ disk' = [disk EXCEPT !.image = batch.image]
    /\ writer' = "metadata"
    /\ UNCHANGED <<phase, source, product, refresh, flush, dirty, batch, deferred,
                   failures, capture, history>>

ReplaceMetadata ==
    /\ writer = "metadata"
    /\ disk' = [disk EXCEPT !.meta = Metadata(batch)]
    /\ writer' = "ready"
    /\ stored' = IF batch.dated /\ batch.time = disk.image
                   THEN stored \cup {disk.image} ELSE stored
    /\ UNCHANGED <<phase, source, product, refresh, flush, dirty, batch, deferred,
                   failures, capture, confirmed, owed, crashes>>

(* OSError in the thread: the writer logs and ends, whatever is dirty.     *)
WriteFails ==
    /\ writer \in {"image", "metadata"}
    /\ failures < MaxFailures
    /\ failures' = failures + 1
    /\ deferred' = TRUE
    /\ writer' = "idle"
    /\ capture' = CaptureAwaited
    /\ UNCHANGED <<phase, source, product, refresh, flush, dirty, batch, disk, history>>

-----------------------------------------------------------------------------
(* The read-back of a capture, in a thread beside a later writer's.        *)

ReadImage ==
    /\ capture.at = "reading"
    /\ capture' = [capture EXCEPT !.at = "imageRead", !.read = disk.image]
    /\ UNCHANGED <<phase, source, product, refresh, task, disk, history>>

(* defect: only the bytes are compared.                                    *)
ReadBackBytes == capture.read = capture.image

(* The stored bytes are the captured ones and so is the stored time.       *)
ReadBackAgrees ==
    /\ capture.read = capture.image
    /\ disk.meta.written
    /\ disk.meta.time = capture.image

ReadMetadata ==
    /\ capture.at = "imageRead"
    /\ capture' = NoCapture
    /\ confirmed' = IF ReadBackAgrees THEN confirmed \cup {capture.image} ELSE confirmed
    /\ UNCHANGED <<phase, source, product, refresh, task, disk, stored, owed, crashes>>

(* The ten seconds are over: the capture reports failure.                  *)
CaptureTimesOut ==
    /\ capture.at # "idle"
    /\ capture' = NoCapture
    /\ UNCHANGED <<phase, source, product, refresh, task, disk, history>>

-----------------------------------------------------------------------------
(* Home Assistant dies and starts again.                                   *)

Crash ==
    /\ phase # "down"
    /\ crashes < MaxCrashes
    /\ crashes' = crashes + 1
    /\ phase' = "down"
    /\ owed' = IF phase = "starting" THEN owed
                 ELSE IF mem.image \in confirmed THEN mem.image ELSE 0
    /\ mem' = NoPicture
    /\ lastEvent' = 0
    /\ refresh' = NoEvent
    /\ flush' = FALSE /\ dirty' = FALSE /\ writer' = "idle" /\ batch' = NoPicture
    /\ deferred' = FALSE
    /\ capture' = NoCapture
    /\ UNCHANGED <<source, failures, disk, stored, confirmed>>

(* The inventory brings the picture the bridge holds.                      *)
Start ==
    /\ phase = "down"
    /\ phase' = "starting"
    /\ mem' = Undated(bridge)
    /\ UNCHANGED <<source, lastEvent, refresh, task, disk, capture, history>>

(* _restore_snapshot_cache for the camera.                                 *)
Restored ==
    IF Cached /\ (mem.image \in {0, disk.image} \/ CachedOutranks(mem))
    THEN [image |-> disk.image, dated |-> RestoredDated, time |-> disk.meta.time]
    ELSE mem

(* initialize: restore, then schedule a write; the entities come after.    *)
Restore ==
    /\ phase = "starting"
    /\ phase' = "online"
    /\ mem' = Restored
    /\ ScheduleWrite
    /\ UNCHANGED <<source, lastEvent, refresh, flush, batch, deferred, failures, disk,
                   capture, history>>

-----------------------------------------------------------------------------
WriterSteps == WriterCollects \/ WriterEnds \/ ReplaceImage \/ ReplaceMetadata

SnapshotNext ==
    \/ PushPicture \/ ReplayPicture \/ (\E timed \in BOOLEAN : IndexEvent(timed))
    \/ RefreshSelects \/ RefreshPublishes \/ RefreshFails
    \/ CapturePublishes \/ FlushListeners
    \/ WriterSteps \/ WriteFails
    \/ ReadImage \/ ReadMetadata \/ CaptureTimesOut
    \/ Crash \/ Start \/ Restore

(* The flush timer fires, and tasks and threads that are ready run.        *)
SnapshotFairness ==
    /\ WF_snapshotVars(FlushListeners)
    /\ WF_snapshotVars(WriterSteps)
    /\ WF_snapshotVars(ReadImage \/ ReadMetadata)

SnapshotSafety == SnapshotInit /\ [][SnapshotNext]_snapshotVars
SnapshotSpec == SnapshotSafety /\ SnapshotFairness

-----------------------------------------------------------------------------
(* Properties.                                                             *)

Frame == 0..MaxFrames
Picture == [image : Frame, dated : BOOLEAN, time : Frame]

(* The types of the variables, and what the writer's flag, its place and   *)
(* its batch have to do with each other: a set flag has a writer that will *)
(* look at it, unless the disk refused, and what is written is a picture.  *)
SnapshotTypeOK ==
    /\ phase \in {"down", "starting", "online"}
    /\ bridge \in Frame /\ frames \in Frame /\ lastEvent \in Frame
    /\ index \in [image : Frame, time : Frame]
    /\ refresh \in [image : Frame, time : Frame]
    /\ mem \in Picture /\ batch \in Picture
    /\ flush \in BOOLEAN /\ dirty \in BOOLEAN /\ deferred \in BOOLEAN
    /\ writer \in {"idle", "ready", "image", "metadata"}
    /\ disk \in [image : Frame,
                 meta : [written : BOOLEAN, dated : BOOLEAN, time : Frame]]
    /\ capture \in [at : {"idle", "writing", "reading", "imageRead"},
                    image : Frame, read : Frame]
    /\ failures \in 0..MaxFailures /\ crashes \in 0..MaxCrashes
    /\ stored \subseteq Frame /\ confirmed \subseteq Frame /\ owed \in Frame
    /\ dirty /\ ~deferred => writer # "idle"
    /\ writer \in {"image", "metadata"} => batch.image > 0

(* "Confirm the captured bytes/time are durable before reporting success"  *)
(* (coordinator.py:984): a capture reported as taken was on disk with its  *)
(* own time, whatever the writer and the read-back thread interleave and   *)
(* whichever write failed; and while it is the camera's picture, the two   *)
(* files hold it: no write collected earlier lands on top of it.           *)
ConfirmedIsDurable ==
    /\ confirmed \subseteq stored
    /\ phase = "online" /\ mem.image \in confirmed =>
           disk = [image |-> mem.image, meta |-> Metadata(mem)]

(* A confirmed capture that was on show when Home Assistant died is what   *)
(* the next start shows, with its time and a dated source, whatever the    *)
(* bridge replays before the restore and however many restarts it takes    *)
(* ("startup-safe", snapshot.py:106-111).                                  *)
RestartShowsConfirmedCapture ==
    [][phase = "starting" /\ phase' = "online" /\ owed > 0 =>
         mem' = [image |-> owed, dated |-> TRUE, time |-> owed]]_snapshotVars

(* The picture on show reaches the disk unless it is replaced, the process *)
(* dies or the disk refuses: coalesced writes lose no wakeup.              *)
PictureReachesDisk ==
    \A n \in 1..MaxFrames :
        (phase = "online" /\ mem.image = n) ~>
            \/ phase # "online" \/ mem.image # n
            \/ disk = [image |-> n, meta |-> Metadata(mem)]
            \/ deferred

=============================================================================
