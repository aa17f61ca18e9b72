------------------------ MODULE SnapshotCacheProofs ------------------------
(***************************************************************************)
(* Theorems about SnapshotCache for every number of frames, crashes and    *)
(* failed writes.  Durability is not inductive: SnapshotInv follows a      *)
(* capture from its publication, through the writer's batch and the two    *)
(* files, to its confirmation, and says that nothing else carries its      *)
(* frame or its time on the way.                                           *)
(***************************************************************************)
EXTENDS SnapshotCache, TLAPS

Writing == writer \in {"image", "metadata"}
Live == capture.at # "idle"

(* A picture that is the capture of frame x, and its metadata on disk.     *)
IsShot(picture, x) == picture.image = x /\ picture.dated /\ picture.time = x
MetaIsOf(x) == disk.meta.written /\ disk.meta.dated /\ disk.meta.time = x

(* The fields of the variables are numbers and flags.                      *)
FieldTypes ==
    /\ bridge \in Nat /\ frames \in Nat /\ lastEvent \in Nat /\ owed \in Nat
    /\ capture.image \in Nat
    /\ index.image \in Nat /\ index.time \in Nat
    /\ refresh.image \in Nat /\ refresh.time \in Nat
    /\ mem.image \in Nat /\ mem.time \in Nat /\ mem.dated \in BOOLEAN
    /\ batch.image \in Nat /\ batch.time \in Nat /\ batch.dated \in BOOLEAN
    /\ disk.image \in Nat /\ disk.meta.time \in Nat
    /\ disk.meta.written \in BOOLEAN /\ disk.meta.dated \in BOOLEAN

(* Every frame and time that is kept somewhere has been taken.             *)
NothingFromTheFuture ==
    /\ bridge <= frames /\ index.image <= frames /\ index.time <= frames
    /\ refresh.image <= frames /\ refresh.time <= frames
    /\ mem.image <= frames /\ mem.time <= frames
    /\ batch.image <= frames /\ batch.time <= frames
    /\ disk.image <= frames /\ disk.meta.time <= frames

(* What the integration has while Home Assistant is not running it, and    *)
(* what the image file holds between the two renames.                      *)
AtRest ==
    /\ phase # "online" =>
         refresh = NoEvent /\ ~flush /\ writer = "idle" /\ ~Live /\ mem.image \in {0, bridge}
    /\ phase = "starting" => mem = Undated(bridge)
    /\ writer = "metadata" => disk.image = batch.image

(* The capture that is under way: its frame and its time are nobody        *)
(* else's, and once its time is on disk so is its image, unless another    *)
(* picture has taken its place on show.                                    *)
LiveCapture ==
    LET x == capture.image IN
    Live =>
      /\ x \in 1..frames
      /\ bridge # x /\ index.image # x /\ index.time # x
      /\ refresh.image # x /\ refresh.time # x
      /\ mem.image = x \/ mem.time = x => IsShot(mem, x)
      /\ batch.image = x \/ batch.time = x => IsShot(batch, x)
      /\ disk.meta.time = x => MetaIsOf(x) /\ x \in stored
      /\ disk.meta.time = x /\ mem.image = x =>
           disk.image = x /\ (Writing => IsShot(batch, x))

(* A confirmed capture x: no other source carries its frame; while it is   *)
(* the picture the disk holds it and the writer has no other; and when its *)
(* metadata has been replaced, its image has been too.                     *)
Confirmed(x) ==
    /\ x \in 1..frames /\ x \in stored
    /\ bridge # x /\ index.image # x /\ refresh.image # x
    /\ mem.image = x =>
         /\ IsShot(mem, x) /\ disk.image = x /\ MetaIsOf(x)
         /\ Writing => IsShot(batch, x)
    /\ Writing /\ batch.image = x => IsShot(batch, x) /\ MetaIsOf(x)
    /\ disk.image = x => MetaIsOf(x)

(* What the next restore owes is on the disk until then.                   *)
OwedIsOnDisk ==
    phase # "online" /\ owed > 0 => disk.image = owed /\ MetaIsOf(owed)

SnapshotInv ==
    /\ SnapshotTypeOK
    /\ NothingFromTheFuture
    /\ AtRest
    /\ LiveCapture
    /\ \A x \in confirmed : Confirmed(x)
    /\ OwedIsOnDisk

(* The frames are an initial range of the naturals.                        *)
LEMMA FrameIsRange ==
  /\ 0 \in Frame /\ Frame \subseteq Nat
  /\ \A n \in Frame : n < MaxFrames => n + 1 \in Frame
  BY SnapshotCacheAssumption DEF SnapshotCacheAssumption, Frame

(* Each number the variables hold is a frame, and so a natural.            *)
LEMMA FieldsAreFrames ==
  SnapshotTypeOK => FieldTypes
<1>1. SnapshotTypeOK =>
         /\ {bridge, frames, lastEvent, owed, capture.image} \subseteq Frame
         /\ {index.image, index.time, refresh.image, refresh.time} \subseteq Frame
         /\ {mem.image, mem.time, batch.image, batch.time} \subseteq Frame
         /\ {disk.image, disk.meta.time} \subseteq Frame
         /\ mem.dated \in BOOLEAN /\ batch.dated \in BOOLEAN
         /\ disk.meta.written \in BOOLEAN /\ disk.meta.dated \in BOOLEAN
  BY DEF SnapshotTypeOK, Picture
<1> QED  BY <1>1, FrameIsRange DEF FieldTypes

(* The records in which nothing is kept are of the types of the others.    *)
LEMMA NothingIsTyped ==
  /\ NoPicture \in Picture /\ NoPicture.image = 0 /\ NoPicture.time = 0
  /\ NoEvent \in [image : Frame, time : Frame] /\ NoEvent.image = 0 /\ NoEvent.time = 0
  /\ NoCapture \in [at : {"idle", "writing", "reading", "imageRead"},
                    image : Frame, read : Frame]
  /\ NoCapture.at = "idle"
  /\ \A image \in Frame : /\ Undated(image) \in Picture
                          /\ Undated(image).image = image /\ Undated(image).time = 0
  BY FrameIsRange DEF NoPicture, NoEvent, NoCapture, Undated, Picture

LEMMA InitEstablishesSnapshotInv == SnapshotInit => SnapshotInv
<1> SUFFICES ASSUME SnapshotInit PROVE SnapshotInv
  OBVIOUS
<1> USE SnapshotCacheAssumption, FrameIsRange, NothingIsTyped
    DEF SnapshotCacheAssumption, SnapshotInit
<1>1. disk \in [image : Frame, meta : [written : BOOLEAN, dated : BOOLEAN, time : Frame]]
      /\ disk.image = 0 /\ disk.meta.time = 0
  BY DEF NoMetadata
<1>2. SnapshotTypeOK
  <2>1. failures \in 0..MaxFailures /\ crashes \in 0..MaxCrashes
    OBVIOUS
  <2> QED  BY <1>1, <2>1 DEF SnapshotTypeOK
<1>3. NothingFromTheFuture
  BY <1>1 DEF NothingFromTheFuture
<1>4. AtRest /\ LiveCapture /\ OwedIsOnDisk
  BY DEF AtRest, LiveCapture, OwedIsOnDisk, Live, Undated, NoPicture
<1> QED  BY <1>2, <1>3, <1>4 DEF SnapshotInv

(* A pushed or replayed picture: its frame is the bridge's, and it is shown *)
(* without a time.                                                         *)
LEMMA BridgePictureKeepsSnapshotInv ==
  ASSUME SnapshotInv, PushPicture \/ ReplayPicture
  PROVE  SnapshotInv'
<1> USE DEF SnapshotInv
<1>0. FieldTypes
  BY FieldsAreFrames
<1> USE <1>0 DEF FieldTypes
<1>1. /\ UNCHANGED <<phase, index, lastEvent, refresh, dirty, writer, batch, deferred, failures,
                     disk, capture, stored, confirmed, owed, crashes>>
      /\ flush' = (phase = "online" \/ flush) /\ phase # "down"
      /\ \/ frames' = frames + 1 /\ bridge' = frames + 1 /\ frames < MaxFrames
         \/ frames' = frames /\ bridge' = bridge
      /\ mem' = mem \/ mem' = Undated(bridge')
      /\ mem'.image = bridge'
      /\ mem.image = bridge' => mem' = mem
  BY DEF PushPicture, ReplayPicture, PictureChanged, Notified, history, source, Undated
<1>2. frames' \in Frame /\ bridge' \in Frame /\ frames <= frames' /\ bridge' <= frames'
      /\ frames \in Nat
  <2>1. frames \in Frame /\ bridge \in Frame /\ MaxFrames \in Nat
    BY SnapshotCacheAssumption DEF SnapshotCacheAssumption, SnapshotTypeOK
  <2>2. frames < MaxFrames => frames + 1 \in Frame
    BY <2>1, FrameIsRange
  <2> QED  BY <1>1, <2>1, <2>2 DEF NothingFromTheFuture
<1>3. mem' \in Picture /\ mem'.time <= frames'
  <2>1. Undated(bridge') \in Picture /\ Undated(bridge').time = 0 /\ frames' \in Nat
    BY <1>1, <1>2, NothingIsTyped
  <2>2. mem \in Picture /\ mem.time <= frames
    BY DEF SnapshotTypeOK, NothingFromTheFuture
  <2> QED  BY <1>1, <1>2, <2>1, <2>2
<1>4. SnapshotTypeOK'
  BY <1>1, <1>2, <1>3 DEF SnapshotTypeOK
<1>5. NothingFromTheFuture'
  BY <1>1, <1>2, <1>3, FieldsAreFrames DEF NothingFromTheFuture
<1>6. AtRest'
  <2>1. phase = "starting" => mem' = Undated(bridge')
    BY <1>1 DEF AtRest, Undated
  <2> QED  BY <1>1, <2>1 DEF AtRest, Live
<1>7. LiveCapture'
  <2>1. ASSUME Live, NEW x, x = capture.image
        PROVE  /\ x \in 1..frames' /\ bridge' # x /\ mem'.image # x
               /\ mem'.time = x => mem' = mem
    BY <1>1, <1>2, <2>1 DEF LiveCapture, Undated, Live
  <2> QED  BY <1>1, <2>1 DEF LiveCapture, Live, Writing, IsShot, MetaIsOf
<1>8. ASSUME NEW x \in confirmed
      PROVE  Confirmed(x)'
  <2>1. x \in 1..frames' /\ bridge' # x /\ mem'.image # x
    BY <1>1, <1>2 DEF Confirmed
  <2> QED  BY <1>1, <2>1 DEF Confirmed, Writing, IsShot, MetaIsOf
<1>9. OwedIsOnDisk'
  BY <1>1 DEF OwedIsOnDisk, MetaIsOf
<1> QED  BY <1>1, <1>4, <1>5, <1>6, <1>7, <1>8, <1>9

(* An event is recorded; the refresh chooses one or gives up.              *)
LEMMA EventKeepsSnapshotInv ==
  ASSUME SnapshotInv, (\E timed \in BOOLEAN : IndexEvent(timed)) \/ RefreshSelects \/ RefreshFails
  PROVE  SnapshotInv'
<1> USE DEF SnapshotInv
<1>0. FieldTypes
  BY FieldsAreFrames
<1> USE <1>0 DEF FieldTypes
<1>1. /\ UNCHANGED <<phase, bridge, mem, flush, dirty, writer, batch, deferred, failures, disk,
                     capture, stored, confirmed, owed, crashes>>
      /\ lastEvent' \in {lastEvent, index.image}
      /\ \/ refresh' = refresh \/ refresh' = NoEvent
         \/ refresh' = index /\ phase = "online"
      /\ \/ frames' = frames /\ index' = index
         \/ /\ frames < MaxFrames /\ frames' = frames + 1 /\ refresh' = refresh
            /\ \/ index' = [image |-> frames + 1, time |-> frames + 1]
               \/ index' = [image |-> frames + 1, time |-> 0]
  BY DEF IndexEvent, RefreshSelects, RefreshFails, product, task, history, source
<1>2. /\ index \in [image : Frame, time : Frame] /\ refresh \in [image : Frame, time : Frame]
      /\ NoEvent \in [image : Frame, time : Frame] /\ NoEvent.image = 0 /\ NoEvent.time = 0
      /\ frames \in Frame /\ (frames < MaxFrames => frames + 1 \in Frame) /\ 0 \in Frame
  BY NothingIsTyped, FrameIsRange DEF SnapshotTypeOK
<1>3. /\ index' \in [image : Frame, time : Frame] /\ frames' \in Frame /\ frames <= frames'
      /\ index'.image \in {index.image, frames + 1} /\ index'.time \in {index.time, frames + 1, 0}
      /\ frames' = frames => index' = index
  BY <1>1, <1>2
<1>4. /\ refresh' \in [image : Frame, time : Frame]
      /\ refresh'.image \in {refresh.image, 0, index.image}
      /\ refresh'.time \in {refresh.time, 0, index.time}
  BY <1>1, <1>2
<1>5. lastEvent' \in Frame
  BY <1>1, <1>2 DEF SnapshotTypeOK
<1>6. SnapshotTypeOK'
  BY <1>1, <1>3, <1>4, <1>5 DEF SnapshotTypeOK
<1>7. NothingFromTheFuture'
  <2>1. index'.image <= frames' /\ index'.time <= frames'
    BY <1>1, <1>2, <1>3 DEF NothingFromTheFuture
  <2>2. refresh'.image <= frames' /\ refresh'.time <= frames'
    BY <1>2, <1>3, <1>4 DEF NothingFromTheFuture
  <2> QED  BY <1>1, <1>2, <1>3, <2>1, <2>2
              DEF NothingFromTheFuture
<1>8. AtRest'
  BY <1>1 DEF AtRest, Live
<1>9. LiveCapture'
  <2>1. ASSUME Live, NEW x, x = capture.image
        PROVE  /\ x \in 1..frames' /\ index'.image # x /\ index'.time # x
               /\ refresh'.image # x /\ refresh'.time # x
    BY <1>1, <1>2, <1>3, <1>4, <2>1 DEF LiveCapture, Live
  <2> QED  BY <1>1, <2>1 DEF LiveCapture, Live, Writing, IsShot, MetaIsOf
<1>10. ASSUME NEW x \in confirmed
       PROVE  Confirmed(x)'
  <2>1. x \in 1..frames' /\ index'.image # x /\ refresh'.image # x
    <3>1. x \in 1..frames /\ index.image # x /\ refresh.image # x
      BY DEF Confirmed
    <3>2. x \in Nat /\ x # 0 /\ x # frames + 1 /\ x <= frames
      BY <3>1
    <3>3. frames' \in Nat /\ frames <= frames'
      BY <1>2, <1>3, FrameIsRange
    <3> QED  BY <1>3, <1>4, <3>1, <3>2, <3>3
  <2> QED  BY <1>1, <2>1 DEF Confirmed, Writing, IsShot, MetaIsOf
<1>11. OwedIsOnDisk'
  BY <1>1 DEF OwedIsOnDisk, MetaIsOf
<1> QED  BY <1>1, <1>6, <1>7, <1>8, <1>9, <1>10, <1>11

(* A dated picture is published: the event's, or a capture's of a frame    *)
(* that is new to everything.                                              *)
LEMMA PublishingKeepsSnapshotInv ==
  ASSUME SnapshotInv, RefreshPublishes \/ CapturePublishes \/ FlushListeners
  PROVE  SnapshotInv'
<1> USE DEF SnapshotInv
<1>0. FieldTypes
  BY FieldsAreFrames
<1> USE <1>0 DEF FieldTypes
<1>1. /\ UNCHANGED <<phase, bridge, index, batch, deferred, failures, disk, stored, confirmed,
                     owed, crashes>>
      /\ phase = "online" /\ dirty' = TRUE /\ flush' \in BOOLEAN
      /\ writer' = IF writer = "idle" THEN "ready" ELSE writer
  BY DEF RefreshPublishes, CapturePublishes, FlushListeners, ScheduleWrite, AtRest, history,
         source, product
<1>2. (Writing' <=> Writing) /\ (writer' = "metadata" <=> writer = "metadata")
      /\ writer' \in {"idle", "ready", "image", "metadata"}
  BY <1>1 DEF Writing, SnapshotTypeOK
<1>3. AtRest' /\ OwedIsOnDisk'
  BY <1>1, <1>2 DEF AtRest, OwedIsOnDisk, MetaIsOf
<1>4. /\ mem \in Picture /\ refresh \in [image : Frame, time : Frame]
      /\ NoEvent \in [image : Frame, time : Frame] /\ NoEvent.image = 0 /\ NoEvent.time = 0
      /\ frames \in Frame /\ (frames < MaxFrames => frames + 1 \in Frame) /\ 0 \in Frame
  BY NothingIsTyped, FrameIsRange DEF SnapshotTypeOK
<1>5. CASE FlushListeners
  <2>1. UNCHANGED <<frames, mem, lastEvent, refresh, capture>>
    BY <1>5 DEF FlushListeners, source, product
  <2>2. SnapshotTypeOK' /\ NothingFromTheFuture'
    BY <1>1, <1>2, <2>1 DEF SnapshotTypeOK, NothingFromTheFuture
  <2>3. LiveCapture'
    BY <1>1, <1>2, <2>1 DEF LiveCapture, Live, IsShot, MetaIsOf
  <2>4. ASSUME NEW x \in confirmed PROVE Confirmed(x)'
    BY <1>1, <1>2, <2>1 DEF Confirmed, IsShot, MetaIsOf
  <2> QED  BY <1>1, <1>3, <2>2, <2>3, <2>4
<1>6. CASE RefreshPublishes
  <2>1. /\ mem' = [image |-> refresh.image, dated |-> TRUE, time |-> refresh.time]
        /\ lastEvent' = refresh.image /\ refresh' = NoEvent
        /\ UNCHANGED <<frames, capture>>
    BY <1>6 DEF RefreshPublishes, source
  <2>2. mem' \in Picture /\ mem'.image = refresh.image /\ mem'.time = refresh.time
    BY <1>4, <2>1 DEF Picture
  <2>3. SnapshotTypeOK'
    BY <1>1, <1>2, <1>4, <2>1, <2>2 DEF SnapshotTypeOK
  <2>4. NothingFromTheFuture'
    BY <1>1, <1>4, <2>1, <2>2 DEF NothingFromTheFuture
  <2>5. LiveCapture'
    BY <1>1, <1>2, <1>4, <2>1, <2>2 DEF LiveCapture, Live, IsShot, MetaIsOf
  <2>6. ASSUME NEW x \in confirmed PROVE Confirmed(x)'
    BY <1>1, <1>2, <1>4, <2>1, <2>2 DEF Confirmed, IsShot, MetaIsOf
  <2> QED  BY <1>1, <1>3, <2>3, <2>4, <2>5, <2>6
<1>7. CASE CapturePublishes
  <2>1. /\ frames < MaxFrames /\ frames' = frames + 1
        /\ mem' = [image |-> frames + 1, dated |-> TRUE, time |-> frames + 1]
        /\ capture' = [at |-> "writing", image |-> frames + 1, read |-> 0]
        /\ UNCHANGED <<lastEvent, refresh>>
    BY <1>7 DEF CapturePublishes
  <2>2. /\ mem' \in Picture /\ IsShot(mem', frames + 1)
        /\ frames + 1 \in Frame
        /\ capture' \in [at : {"idle", "writing", "reading", "imageRead"},
                         image : Frame, read : Frame]
        /\ capture'.image = frames + 1
    BY <1>4, <2>1 DEF Picture, IsShot
  <2>3. SnapshotTypeOK'
    BY <1>1, <1>2, <2>1, <2>2 DEF SnapshotTypeOK
  <2>4. /\ bridge < frames + 1 /\ index.image < frames + 1 /\ index.time < frames + 1
        /\ refresh.image < frames + 1 /\ refresh.time < frames + 1
        /\ batch.image < frames + 1 /\ batch.time < frames + 1 /\ disk.meta.time < frames + 1
    BY <1>4 DEF NothingFromTheFuture
  <2>5. NothingFromTheFuture'
    BY <1>1, <1>4, <2>1, <2>2, <2>4 DEF NothingFromTheFuture, IsShot
  <2>6. LiveCapture'
    <3>1. /\ bridge # frames + 1 /\ index.image # frames + 1 /\ index.time # frames + 1
          /\ refresh.image # frames + 1 /\ refresh.time # frames + 1
          /\ batch.image # frames + 1 /\ batch.time # frames + 1 /\ disk.meta.time # frames + 1
      BY <1>4, <2>4
    <3>2. frames + 1 \in 1..frames'
      BY <1>4, <2>1
    <3> QED  BY <1>1, <2>1, <2>2, <3>1, <3>2 DEF LiveCapture, IsShot
  <2>7. ASSUME NEW x \in confirmed PROVE Confirmed(x)'
    <3>1. x \in 1..frames' /\ mem'.image # x
      BY <1>4, <2>1 DEF Confirmed
    <3> QED  BY <1>1, <1>2, <2>1, <3>1 DEF Confirmed, IsShot, MetaIsOf
  <2> QED  BY <1>1, <1>3, <2>3, <2>5, <2>6, <2>7
<1> QED  BY <1>5, <1>6, <1>7

(* The writer collects the picture, and its thread renames the two files   *)
(* or fails.                                                               *)
LEMMA WriterKeepsSnapshotInv ==
  ASSUME SnapshotInv, WriterSteps \/ WriteFails
  PROVE  SnapshotInv'
<1> USE DEF SnapshotInv
<1>0. FieldTypes
  BY FieldsAreFrames
<1> USE <1>0 DEF FieldTypes
<1>1. /\ UNCHANGED <<phase, bridge, index, frames, mem, lastEvent, refresh, flush, confirmed, owed,
                     crashes>>
      /\ phase = "online"
  BY DEF WriterSteps, WriterCollects, WriterEnds, ReplaceImage, ReplaceMetadata, WriteFails,
         AtRest, source, product, history
<1>2. /\ mem \in Picture /\ batch \in Picture /\ frames \in Nat
      /\ disk \in [image : Frame, meta : [written : BOOLEAN, dated : BOOLEAN, time : Frame]]
  BY DEF SnapshotTypeOK
<1>3. OwedIsOnDisk'
  BY <1>1 DEF OwedIsOnDisk
<1>4. CASE WriterCollects
  <2>1. /\ batch' = mem /\ dirty' = FALSE /\ deferred' = FALSE
        /\ writer' = IF mem.image > 0 THEN "image" ELSE "ready"
        /\ UNCHANGED <<failures, disk, capture, stored>>
    BY <1>4 DEF WriterCollects, history
  <2>2. SnapshotTypeOK' /\ NothingFromTheFuture' /\ AtRest'
    BY <1>1, <2>1 DEF SnapshotTypeOK, NothingFromTheFuture, AtRest
  <2>3. LiveCapture'
    BY <1>1, <2>1 DEF LiveCapture, Live, IsShot, MetaIsOf
  <2>4. ASSUME NEW x \in confirmed PROVE Confirmed(x)'
    BY <1>1, <2>1 DEF Confirmed, IsShot, MetaIsOf
  <2> QED  BY <1>1, <1>3, <2>2, <2>3, <2>4
<1>5. CASE WriterEnds \/ WriteFails
  <2>1. /\ writer' = "idle" /\ capture' = CaptureAwaited
        /\ deferred' \in BOOLEAN /\ failures' \in 0..MaxFailures
        /\ ~dirty \/ deferred'
        /\ UNCHANGED <<dirty, batch, disk, stored>>
    <3>1. CASE WriterEnds
      BY <3>1 DEF WriterEnds, SnapshotTypeOK, history
    <3>2. CASE WriteFails
      <4>1. failures + 1 \in 0..MaxFailures
        BY <3>2, SnapshotCacheAssumption
           DEF WriteFails, SnapshotCacheAssumption, SnapshotTypeOK
      <4> QED  BY <3>2, <4>1 DEF WriteFails, history
    <3> QED  BY <1>5, <3>1, <3>2
  <2>2. /\ capture' \in [at : {"idle", "writing", "reading", "imageRead"},
                         image : Frame, read : Frame]
        /\ capture'.image = capture.image /\ (Live' <=> Live)
    BY <2>1 DEF CaptureAwaited, SnapshotTypeOK, Live
  <2>3. SnapshotTypeOK' /\ NothingFromTheFuture' /\ AtRest'
    BY <1>1, <2>1, <2>2 DEF SnapshotTypeOK, NothingFromTheFuture, AtRest
  <2>4. LiveCapture'
    BY <1>1, <2>1, <2>2 DEF LiveCapture, IsShot, MetaIsOf, Writing
  <2>5. ASSUME NEW x \in confirmed PROVE Confirmed(x)'
    BY <1>1, <2>1 DEF Confirmed, IsShot, MetaIsOf, Writing
  <2> QED  BY <1>1, <1>3, <2>3, <2>4, <2>5
<1>6. CASE ReplaceImage
  <2>1. /\ writer = "image" /\ writer' = "metadata"
        /\ disk' = [disk EXCEPT !.image = batch.image]
        /\ UNCHANGED <<dirty, batch, deferred, failures, capture, stored>>
    BY <1>6 DEF ReplaceImage, history
  <2>2. /\ disk' \in [image : Frame, meta : [written : BOOLEAN, dated : BOOLEAN, time : Frame]]
        /\ disk'.image = batch.image /\ disk'.meta = disk.meta /\ Writing /\ Writing'
    BY <1>2, <2>1 DEF Picture, Writing
  <2>3. SnapshotTypeOK' /\ NothingFromTheFuture' /\ AtRest'
    BY <1>1, <2>1, <2>2 DEF SnapshotTypeOK, NothingFromTheFuture, AtRest
  <2>4. LiveCapture'
    BY <1>1, <2>1, <2>2 DEF LiveCapture, Live, IsShot, MetaIsOf
  <2>5. ASSUME NEW x \in confirmed PROVE Confirmed(x)'
    BY <1>1, <2>1, <2>2 DEF Confirmed, IsShot, MetaIsOf
  <2> QED  BY <1>1, <1>3, <2>3, <2>4, <2>5
<1>7. CASE ReplaceMetadata
  <2>1. /\ writer = "metadata" /\ writer' = "ready"
        /\ disk' = [disk EXCEPT !.meta = Metadata(batch)]
        /\ stored' = IF batch.dated /\ batch.time = disk.image
                     THEN stored \cup {disk.image} ELSE stored
        /\ UNCHANGED <<dirty, batch, deferred, failures, capture>>
    BY <1>7 DEF ReplaceMetadata
  <2>2. /\ disk' \in [image : Frame, meta : [written : BOOLEAN, dated : BOOLEAN, time : Frame]]
        /\ disk'.image = batch.image /\ disk.image = batch.image
        /\ disk'.meta.written /\ disk'.meta.dated = batch.dated /\ disk'.meta.time = batch.time
    BY <1>2, <2>1 DEF Picture, Metadata, AtRest
  <2>3. Writing /\ ~Writing' /\ stored' \subseteq Frame /\ stored \subseteq stored'
    BY <1>2, <2>1 DEF Writing, SnapshotTypeOK
  <2>4. SnapshotTypeOK'
    BY <1>1, <2>1, <2>2, <2>3 DEF SnapshotTypeOK
  <2>5. NothingFromTheFuture' /\ AtRest'
    BY <1>1, <2>1, <2>2 DEF NothingFromTheFuture, AtRest
  <2>6. LiveCapture'
    <3>1. ASSUME Live, batch.time = capture.image
          PROVE  IsShot(batch, capture.image) /\ capture.image \in stored'
      BY <2>1, <2>2, <3>1 DEF LiveCapture, IsShot
    <3> QED  BY <1>1, <2>1, <2>2, <2>3, <3>1 DEF LiveCapture, Live, IsShot, MetaIsOf
  <2>7. ASSUME NEW x \in confirmed PROVE Confirmed(x)'
    BY <1>1, <2>1, <2>2, <2>3 DEF Confirmed, IsShot, MetaIsOf
  <2> QED  BY <1>1, <1>3, <2>4, <2>5, <2>6, <2>7
<1> QED  BY <1>4, <1>5, <1>6, <1>7 DEF WriterSteps

(* The capture reads its copy back, and confirms it or not.                *)
LEMMA ReadBackKeepsSnapshotInv ==
  ASSUME SnapshotInv, ReadImage \/ ReadMetadata \/ CaptureTimesOut
  PROVE  SnapshotInv'
<1> USE DEF SnapshotInv
<1>0. FieldTypes
  BY FieldsAreFrames
<1> USE <1>0 DEF FieldTypes
<1>1. /\ UNCHANGED <<phase, bridge, index, frames, mem, lastEvent, refresh, flush, dirty, writer,
                     batch, deferred, failures, disk, stored, owed, crashes>>
      /\ Live
  BY DEF ReadImage, ReadMetadata, CaptureTimesOut, Live, source, product, task, history
<1>2. phase = "online" /\ (Writing' <=> Writing)
  BY <1>1 DEF AtRest, Writing
<1>3. CASE ReadImage
  <2>1. capture' = [capture EXCEPT !.at = "imageRead", !.read = disk.image]
        /\ confirmed' = confirmed
    BY <1>3 DEF ReadImage, history
  <2>2. /\ capture' \in [at : {"idle", "writing", "reading", "imageRead"},
                         image : Frame, read : Frame]
        /\ capture'.image = capture.image
    BY <2>1 DEF SnapshotTypeOK
  <2>3. SnapshotTypeOK' /\ NothingFromTheFuture' /\ AtRest' /\ OwedIsOnDisk'
    BY <1>1, <1>2, <2>1, <2>2
       DEF SnapshotTypeOK, NothingFromTheFuture, AtRest, OwedIsOnDisk
  <2>4. LiveCapture'
    BY <1>1, <1>2, <2>2 DEF LiveCapture, IsShot, MetaIsOf
  <2>5. ASSUME NEW x \in confirmed PROVE Confirmed(x)'
    BY <1>1, <1>2 DEF Confirmed, IsShot, MetaIsOf
  <2> QED  BY <2>1, <2>3, <2>4, <2>5
<1>4. CASE ReadMetadata \/ CaptureTimesOut
  <2>1. /\ capture' = NoCapture
        /\ \/ confirmed' = confirmed
           \/ /\ confirmed' = confirmed \cup {capture.image}
              /\ disk.meta.time = capture.image
    BY <1>4 DEF ReadMetadata, CaptureTimesOut, ReadBackAgrees, history
  <2>2. /\ NoCapture \in [at : {"idle", "writing", "reading", "imageRead"},
                          image : Frame, read : Frame]
        /\ ~Live' /\ confirmed' \subseteq Frame
    BY <2>1, NothingIsTyped DEF Live, SnapshotTypeOK
  <2>3. SnapshotTypeOK' /\ NothingFromTheFuture' /\ AtRest' /\ OwedIsOnDisk' /\ LiveCapture'
    BY <1>1, <1>2, <2>1, <2>2
       DEF SnapshotTypeOK, NothingFromTheFuture, AtRest, OwedIsOnDisk, LiveCapture
  <2>4. disk.meta.time = capture.image => Confirmed(capture.image)
    BY <1>1 DEF LiveCapture, Confirmed, IsShot, MetaIsOf
  <2>5. ASSUME NEW x, Confirmed(x) PROVE Confirmed(x)'
    BY <1>1, <1>2, <2>5 DEF Confirmed, IsShot, MetaIsOf
  <2> QED  BY <2>1, <2>3, <2>4, <2>5
<1> QED  BY <1>3, <1>4

(* Home Assistant dies, starts, and restores the picture.                  *)
LEMMA RestartKeepsSnapshotInv ==
  ASSUME SnapshotInv, Crash \/ Start \/ Restore
  PROVE  SnapshotInv'
<1> USE DEF SnapshotInv
<1>0. FieldTypes
  BY FieldsAreFrames
<1> USE <1>0 DEF FieldTypes
<1>1. UNCHANGED <<bridge, index, frames, failures, disk, stored, confirmed>>
  BY DEF Crash, Start, Restore, source, task, history
<1>2. /\ mem \in Picture /\ Undated(bridge) \in Picture
      /\ Undated(bridge).image = bridge /\ Undated(bridge).time = 0
      /\ disk \in [image : Frame, meta : [written : BOOLEAN, dated : BOOLEAN, time : Frame]]
      /\ NoPicture \in Picture /\ NoPicture.image = 0 /\ NoPicture.time = 0
      /\ NoEvent \in [image : Frame, time : Frame] /\ NoEvent.image = 0 /\ NoEvent.time = 0
      /\ NoCapture \in [at : {"idle", "writing", "reading", "imageRead"},
                        image : Frame, read : Frame]
      /\ NoCapture.at = "idle" /\ 0 \in Frame
  BY NothingIsTyped, FrameIsRange DEF SnapshotTypeOK
<1>3. CASE Crash
  <2>1. /\ phase # "down" /\ phase' = "down" /\ crashes' = crashes + 1 /\ crashes < MaxCrashes
        /\ owed' = IF phase = "starting" THEN owed
                   ELSE IF mem.image \in confirmed THEN mem.image ELSE 0
        /\ mem' = NoPicture /\ lastEvent' = 0 /\ refresh' = NoEvent
        /\ flush' = FALSE /\ dirty' = FALSE /\ writer' = "idle" /\ batch' = NoPicture
        /\ deferred' = FALSE /\ capture' = NoCapture
    BY <1>3 DEF Crash
  <2>2. owed' \in Frame /\ crashes' \in 0..MaxCrashes
    <3>1. owed' \in Frame
      BY <1>2, <2>1 DEF SnapshotTypeOK
    <3>2. crashes' \in 0..MaxCrashes
      BY <2>1, SnapshotCacheAssumption DEF SnapshotCacheAssumption, SnapshotTypeOK
    <3> QED  BY <3>1, <3>2
  <2>3. SnapshotTypeOK'
    BY <1>1, <1>2, <2>1, <2>2 DEF SnapshotTypeOK
  <2>4. NothingFromTheFuture'
    BY <1>1, <1>2, <2>1 DEF NothingFromTheFuture
  <2>5. AtRest' /\ LiveCapture'
    BY <1>2, <2>1 DEF AtRest, LiveCapture, Live
  <2>6. OwedIsOnDisk'
    BY <1>1, <2>1 DEF OwedIsOnDisk, Confirmed, MetaIsOf, SnapshotTypeOK
  <2>7. ASSUME NEW x \in confirmed PROVE Confirmed(x)'
    BY <1>1, <1>2, <2>1 DEF Confirmed, MetaIsOf, Writing
  <2> QED  BY <1>1, <2>3, <2>4, <2>5, <2>6, <2>7
<1>4. CASE Start
  <2>1. /\ phase = "down" /\ phase' = "starting" /\ mem' = Undated(bridge)
        /\ UNCHANGED <<lastEvent, refresh, flush, dirty, writer, batch, deferred, capture, owed,
                       crashes>>
    BY <1>4 DEF Start, task, history
  <2>2. SnapshotTypeOK'
    BY <1>1, <1>2, <2>1 DEF SnapshotTypeOK
  <2>3. NothingFromTheFuture' /\ AtRest' /\ LiveCapture' /\ OwedIsOnDisk'
    BY <1>1, <1>2, <2>1 DEF NothingFromTheFuture, AtRest, LiveCapture, OwedIsOnDisk, Live,
                            MetaIsOf, Undated
  <2>4. ASSUME NEW x \in confirmed PROVE Confirmed(x)'
    BY <1>1, <1>2, <2>1 DEF Confirmed, IsShot, MetaIsOf, Writing
  <2> QED  BY <1>1, <2>2, <2>3, <2>4
<1>5. CASE Restore
  <2>1. /\ phase = "starting" /\ phase' = "online" /\ mem' = Restored
        /\ dirty' = TRUE /\ writer' \in {"ready", writer}
        /\ UNCHANGED <<lastEvent, refresh, flush, batch, deferred, capture, owed, crashes>>
    BY <1>5 DEF Restore, ScheduleWrite, history
  <2>2. /\ mem' \in Picture /\ mem'.image <= frames /\ mem'.time <= frames
        /\ \/ mem' = mem
           \/ /\ mem'.image = disk.image /\ mem'.dated = disk.meta.dated
              /\ mem'.time = disk.meta.time
    BY <1>2, <2>1 DEF Restored, RestoredDated, NothingFromTheFuture, Picture
  <2>3. ~Live' /\ writer' = "ready" /\ mem = Undated(bridge)
    BY <1>5 DEF Restore, ScheduleWrite, AtRest, Live, history
  <2>4. ~Writing'
    BY <2>3 DEF Writing
  <2>5. SnapshotTypeOK'
    BY <1>1, <2>1, <2>2, <2>3 DEF SnapshotTypeOK
  <2>6. NothingFromTheFuture'
    BY <1>1, <2>1, <2>2 DEF NothingFromTheFuture
  <2>7. AtRest' /\ LiveCapture' /\ OwedIsOnDisk'
    BY <2>1, <2>3 DEF AtRest, LiveCapture, OwedIsOnDisk
  <2>8. ASSUME NEW x \in confirmed PROVE Confirmed(x)'
    <3>1. mem.image # x
      BY <1>2, <2>3 DEF Confirmed
    <3>2. mem'.image = x => IsShot(mem', x) /\ disk.image = x /\ MetaIsOf(x)
      BY <2>2, <3>1 DEF Confirmed, IsShot, MetaIsOf
    <3> QED  BY <1>1, <2>1, <2>4, <3>2 DEF Confirmed, IsShot, MetaIsOf
  <2> QED  BY <1>1, <2>5, <2>6, <2>7, <2>8
<1> QED  BY <1>3, <1>4, <1>5

LEMMA SnapshotStepKeepsSnapshotInv ==
  SnapshotInv /\ [SnapshotNext]_snapshotVars => SnapshotInv'
<1> SUFFICES ASSUME SnapshotInv, [SnapshotNext]_snapshotVars PROVE SnapshotInv'
  OBVIOUS
<1>1. CASE UNCHANGED snapshotVars
  BY <1>1 DEF snapshotVars, source, product, task, history, SnapshotInv, SnapshotTypeOK,
              NothingFromTheFuture, AtRest, LiveCapture, Confirmed, OwedIsOnDisk, Live, Writing,
              IsShot, MetaIsOf
<1>2. CASE SnapshotNext
  BY <1>2, BridgePictureKeepsSnapshotInv, EventKeepsSnapshotInv, PublishingKeepsSnapshotInv,
     WriterKeepsSnapshotInv, ReadBackKeepsSnapshotInv, RestartKeepsSnapshotInv DEF SnapshotNext
<1> QED  BY <1>1, <1>2

(* The inductive invariant of the camera's picture.                        *)
THEOREM SnapshotInvariant == SnapshotSafety => []SnapshotInv
  BY InitEstablishesSnapshotInv, SnapshotStepKeepsSnapshotInv, PTL DEF SnapshotSafety

(* The variables keep their types, for every bound.                        *)
THEOREM SnapshotTypesHold == SnapshotSafety => []SnapshotTypeOK
<1>1. SnapshotInv => SnapshotTypeOK
  BY DEF SnapshotInv
<1> QED  BY <1>1, SnapshotInvariant, PTL

(* A capture that was reported as taken was on disk with its own time, and *)
(* while it is the picture the two files hold it, whatever the writer, its *)
(* failures and the read-back interleave (async_persist_snapshot_capture). *)
THEOREM ConfirmedCapturesAreDurable == SnapshotSafety => []ConfirmedIsDurable
<1>1. ASSUME SnapshotInv, mem.image \in confirmed
      PROVE  disk = [image |-> mem.image, meta |-> Metadata(mem)]
  <2>1. IsShot(mem, mem.image) /\ disk.image = mem.image /\ MetaIsOf(mem.image)
    BY <1>1 DEF SnapshotInv, Confirmed
  <2>2. /\ disk \in [image : Frame, meta : [written : BOOLEAN, dated : BOOLEAN, time : Frame]]
        /\ mem \in Picture
    BY <1>1 DEF SnapshotInv, SnapshotTypeOK
  <2>3. disk.meta = [written |-> TRUE, dated |-> mem.dated, time |-> mem.time]
    BY <2>1, <2>2 DEF IsShot, MetaIsOf, Picture
  <2> QED  BY <2>1, <2>2, <2>3 DEF Metadata
<1>2. SnapshotInv => ConfirmedIsDurable
  BY <1>1 DEF SnapshotInv, Confirmed, ConfirmedIsDurable
<1> QED  BY <1>2, SnapshotInvariant, PTL

(* What was confirmed and on show when Home Assistant died is what the     *)
(* restore shows, dated (_restore_snapshot_cache).                         *)
THEOREM RestoreShowsWhatIsOwed == SnapshotSafety => RestartShowsConfirmedCapture
<1>1. ASSUME SnapshotInv, [SnapshotNext]_snapshotVars,
             phase = "starting", phase' = "online", owed > 0
      PROVE  mem' = [image |-> owed, dated |-> TRUE, time |-> owed]
  <2>1. mem' = Restored
    BY <1>1 DEF SnapshotNext, PushPicture, ReplayPicture, IndexEvent, RefreshSelects,
       RefreshPublishes, RefreshFails, CapturePublishes, FlushListeners, WriterSteps,
       WriterCollects, WriterEnds, ReplaceImage, ReplaceMetadata, WriteFails, ReadImage,
       ReadMetadata, CaptureTimesOut, Crash, Start, Restore, snapshotVars
  <2>2. disk.image = owed /\ MetaIsOf(owed) /\ mem = Undated(bridge)
    BY <1>1 DEF SnapshotInv, OwedIsOnDisk, AtRest
  <2>3. Cached /\ CachedOutranks(mem)
    BY <1>1, <2>2 DEF Cached, CachedOutranks, MetaIsOf, Undated
  <2>4. disk.meta.dated = TRUE
    BY <1>1, <2>2 DEF MetaIsOf, SnapshotInv, SnapshotTypeOK
  <2> QED  BY <2>1, <2>2, <2>3, <2>4 DEF Restored, RestoredDated, MetaIsOf
<1>2. SnapshotInv /\ [SnapshotNext]_snapshotVars =>
        [phase = "starting" /\ phase' = "online" /\ owed > 0 =>
           mem' = [image |-> owed, dated |-> TRUE, time |-> owed]]_snapshotVars
  BY <1>1
<1> QED  BY <1>2, SnapshotInvariant, PTL DEF SnapshotSafety, RestartShowsConfirmedCapture

=============================================================================
