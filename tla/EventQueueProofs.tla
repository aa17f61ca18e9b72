-------------------------- MODULE EventQueueProofs --------------------------
(***************************************************************************)
(* Theorems about the bridge's event queue for every set of keys, every    *)
(* slot map and every limit.  QueueInv adds to the stated properties what  *)
(* keeps them: an entry's place is its stamp, places are distinct, and     *)
(* what was applied or discarded is older than what is still queued.       *)
(***************************************************************************)
EXTENDS EventQueue, FiniteSetTheorems, TLAPS

(* An entry's place in the dict is the number of its frame, and no two     *)
(* entries share one: re-queuing takes an entry out before appending it.   *)
PlacesFollowStamps ==
    /\ \A k \in EventKey : pending[k].place = pending[k].stamp
    /\ \A k \in EventKey : pending[k].stamp <= received[SlotOf[k]]
    /\ \A j, k \in Queued : pending[j].place = pending[k].place => j = k

(* What left the queue is older than what is still in it.                  *)
LeavesInOrder ==
    \A s \in Slot :
        /\ applied[s] <= received[s]
        /\ dropped[s] <= received[s]
        /\ received[s] <= clock
        /\ \A k \in Queued : applied[s] < pending[k].stamp /\ dropped[s] < pending[k].stamp

QueueInv ==
    /\ EventQueueTypeOK
    /\ PlacesFollowStamps
    /\ LeavesInOrder
    /\ NewestStateKept

LEMMA InitEstablishesQueueInv == EventQueueInit => QueueInv
<1> SUFFICES ASSUME EventQueueInit PROVE QueueInv
  OBVIOUS
<1> USE EventQueueAssumption DEF EventQueueAssumption, EventQueueInit
<1>1. \A k \in EventKey : pending[k].place = 0 /\ pending[k].stamp = 0
  BY DEF Absent
<1>2. Queued = {}
  BY <1>1 DEF Queued
<1>3. EventQueueTypeOK
  <2>1. 0 \in EventStamp
    BY DEF EventStamp
  <2>2. Absent \in [place : EventStamp, stamp : EventStamp]
    BY <2>1 DEF Absent
  <2> QED  BY <2>1, <2>2 DEF EventQueueTypeOK
<1>4. PlacesFollowStamps
  BY <1>1, <1>2 DEF PlacesFollowStamps
<1>5. LeavesInOrder
  BY <1>2 DEF LeavesInOrder
<1>6. NewestStateKept
  BY DEF NewestStateKept
<1> QED  BY <1>3, <1>4, <1>5, <1>6 DEF QueueInv

(* No two queued entries carry the same stamp.                             *)
LEMMA StampsAreDistinct ==
  ASSUME QueueInv, NEW i \in Queued, NEW j \in Queued, i # j,
         pending[i].stamp <= pending[j].stamp
  PROVE  pending[i].stamp < pending[j].stamp
<1>1. pending[i].place # pending[j].place
  BY DEF QueueInv, PlacesFollowStamps
<1>2. i \in EventKey /\ j \in EventKey
  BY DEF Queued
<1>3. pending[i].stamp # pending[j].stamp
  BY <1>1, <1>2 DEF QueueInv, PlacesFollowStamps
<1>4. pending[i].stamp \in Nat /\ pending[j].stamp \in Nat
  BY <1>2 DEF QueueInv, EventQueueTypeOK, EventStamp
<1> QED  BY <1>3, <1>4

LEMMA QueueEventKeepsQueueInv ==
  ASSUME QueueInv, NEW k \in EventKey, QueueEvent(k)
  PROVE  QueueInv'
<1> USE EventQueueAssumption DEF EventQueueAssumption
<1>1. EventQueueTypeOK'
  <2> USE DEF QueueInv, EventQueueTypeOK, QueueEvent, EventStamp
  <2>1. clock + 1 \in EventStamp
    OBVIOUS
  <2>2. pending' \in [EventKey -> [place : EventStamp, stamp : EventStamp]]
    BY <2>1 DEF Requeued, Absent
  <2>3. dropped' \in [Slot -> EventStamp]
    OBVIOUS
  <2> QED  BY <2>1, <2>2, <2>3
<1>2. CASE ~MustDrop(k)
  <2>1. pending' = Requeued(k) /\ dropped' = dropped
    BY <1>2 DEF QueueEvent
  <2>2. PlacesFollowStamps'
    BY <2>1 DEF QueueInv, EventQueueTypeOK, QueueEvent, Requeued, PlacesFollowStamps,
                LeavesInOrder, Queued, EventStamp
  <2>3. LeavesInOrder'
    BY <2>1 DEF QueueInv, EventQueueTypeOK, QueueEvent, Requeued, LeavesInOrder, Queued,
                EventStamp
  <2>4. NewestStateKept'
    <3>1. \A j \in Queued : j # k => j \in Queued' /\ pending'[j] = pending[j]
      BY <2>1 DEF QueueInv, EventQueueTypeOK, Requeued, Queued
    <3>2. k \in Queued' /\ pending'[k].stamp = clock + 1
      BY <2>1 DEF QueueInv, EventQueueTypeOK, Requeued, Queued, EventStamp
    <3>3. received' = [received EXCEPT ![SlotOf[k]] = clock + 1] /\ applied' = applied
      BY DEF QueueEvent
    <3> QED
      BY <2>1, <3>1, <3>2, <3>3 DEF QueueInv, EventQueueTypeOK, NewestStateKept
  <2> QED  BY <1>1, <2>2, <2>3, <2>4 DEF QueueInv
<1>3. CASE MustDrop(k)
  <2>1. PICK old \in EventKey :
          /\ IsOldest(old)
          /\ pending' = [Requeued(k) EXCEPT ![old] = Absent]
          /\ dropped' = [dropped EXCEPT ![SlotOf[old]] = pending[old].stamp]
    BY <1>3 DEF QueueEvent
  <2>2. old # k /\ old \in Queued /\ \A j \in Queued : pending[old].stamp <= pending[j].stamp
    BY <1>3, <2>1 DEF MustDrop, IsOldest, Queued, QueueInv, PlacesFollowStamps
  <2>3. \A j \in Queued' : j = k \/ (j \in Queued /\ j # old /\ pending'[j] = pending[j])
    BY <2>1, <2>2 DEF QueueInv, EventQueueTypeOK, Requeued, Absent, Queued, EventStamp
  <2>4. pending'[k] = [place |-> clock + 1, stamp |-> clock + 1] /\ pending'[old] = Absent
    BY <2>1, <2>2 DEF QueueInv, EventQueueTypeOK, Requeued
  <2>5. received' = [received EXCEPT ![SlotOf[k]] = clock + 1] /\ clock' = clock + 1
        /\ applied' = applied
    BY DEF QueueEvent
  <2>6. PlacesFollowStamps'
    <3>1. \A j \in EventKey : pending'[j] \in {pending[j], pending'[k], Absent}
      BY <2>1, <2>2 DEF QueueInv, EventQueueTypeOK, Requeued
    <3>2. \A j \in EventKey : pending'[j].place = pending'[j].stamp
      BY <2>4, <3>1 DEF QueueInv, PlacesFollowStamps, Absent
    <3>3. \A j \in EventKey : pending'[j].stamp <= received'[SlotOf[j]]
      <4> SUFFICES ASSUME NEW j \in EventKey
                   PROVE  pending'[j].stamp <= received'[SlotOf[j]]
        OBVIOUS
      <4>1. received[SlotOf[j]] <= received'[SlotOf[j]] /\ received'[SlotOf[j]] \in Nat
            /\ received[SlotOf[j]] \in Nat /\ pending[j].stamp \in Nat
        BY <2>5 DEF QueueInv, EventQueueTypeOK, LeavesInOrder, EventStamp
      <4>2. CASE j = k
        BY <2>4, <2>5, <4>2 DEF QueueInv, EventQueueTypeOK, EventStamp
      <4>3. CASE pending'[j] = pending[j]
        BY <4>1, <4>3 DEF QueueInv, PlacesFollowStamps
      <4>4. CASE pending'[j] = Absent
        BY <4>1, <4>4 DEF Absent
      <4>5. j = k \/ pending'[j] \in {pending[j], Absent}
        BY <2>1, <2>2 DEF QueueInv, EventQueueTypeOK, Requeued
      <4> QED  BY <4>2, <4>3, <4>4, <4>5
    <3>4. \A j \in Queued : pending[j].place <= clock /\ pending[j].place \in Nat
      BY DEF QueueInv, EventQueueTypeOK, PlacesFollowStamps, LeavesInOrder, Queued, EventStamp
    <3>5. \A i, j \in Queued' : pending'[i].place = pending'[j].place => i = j
      BY <2>3, <2>4, <3>4 DEF QueueInv, EventQueueTypeOK, PlacesFollowStamps, EventStamp
    <3> QED  BY <3>2, <3>3, <3>5 DEF PlacesFollowStamps
  <2>7. LeavesInOrder'
    <3> SUFFICES ASSUME NEW s \in Slot
                 PROVE  /\ applied'[s] <= received'[s]
                        /\ dropped'[s] <= received'[s]
                        /\ received'[s] <= clock'
                        /\ \A j \in Queued' : /\ applied'[s] < pending'[j].stamp
                                               /\ dropped'[s] < pending'[j].stamp
      BY DEF LeavesInOrder
    <3>1. /\ applied[s] \in Nat /\ dropped[s] \in Nat /\ received[s] \in Nat /\ clock \in Nat
          /\ received'[s] = IF s = SlotOf[k] THEN clock + 1 ELSE received[s]
          /\ dropped'[s] = IF s = SlotOf[old] THEN pending[old].stamp ELSE dropped[s]
          /\ pending[old].stamp \in Nat
      BY <2>1, <2>5 DEF QueueInv, EventQueueTypeOK, EventStamp
    <3>2. /\ applied[s] <= received[s] /\ dropped[s] <= received[s] /\ received[s] <= clock
          /\ \A j \in Queued : applied[s] < pending[j].stamp /\ dropped[s] < pending[j].stamp
      BY DEF QueueInv, LeavesInOrder
    <3>3. pending[old].stamp <= received[SlotOf[old]] /\ received[SlotOf[old]] <= clock
          /\ received[SlotOf[old]] \in Nat
      BY DEF QueueInv, PlacesFollowStamps, LeavesInOrder, EventQueueTypeOK, EventStamp
    <3>4. \A j \in Queued : j # old => pending[old].stamp < pending[j].stamp
      BY <2>2, StampsAreDistinct
    <3>5. \A j \in Queued' : applied'[s] < pending'[j].stamp /\ dropped'[s] < pending'[j].stamp
      <4> SUFFICES ASSUME NEW j \in Queued'
                   PROVE  applied[s] < pending'[j].stamp /\ dropped'[s] < pending'[j].stamp
        BY <2>5
      <4>1. CASE j = k
        <5>1. pending'[j].stamp = clock + 1
          BY <2>4, <4>1
        <5>2. applied[s] <= clock /\ dropped'[s] <= clock
          BY <3>1, <3>2, <3>3
        <5> QED  BY <3>1, <3>3, <5>1, <5>2
      <4>2. CASE j # k
        <5>1. j \in Queued /\ j # old /\ pending'[j] = pending[j] /\ pending[j].stamp \in Nat
          BY <2>3, <4>2 DEF QueueInv, EventQueueTypeOK, EventStamp, Queued
        <5> QED  BY <3>1, <3>2, <3>4, <5>1
      <4> QED  BY <4>1, <4>2
    <3> QED  BY <2>5, <3>1, <3>2, <3>3, <3>5
  <2>8. NewestStateKept'
    <3> SUFFICES ASSUME NEW s \in Slot
                 PROVE  \/ received'[s] \in {applied'[s], dropped'[s]}
                        \/ \E j \in Queued' : SlotOf[j] = s /\ pending'[j].stamp = received'[s]
      BY DEF NewestStateKept
    <3>1. CASE s = SlotOf[k]
      <4>1. k \in Queued' /\ pending'[k].stamp = received'[s]
        BY <2>4, <2>5, <3>1 DEF Queued, QueueInv, EventQueueTypeOK, EventStamp
      <4> QED  BY <4>1, <3>1
    <3>2. CASE s # SlotOf[k] /\ received[s] \in {applied[s], dropped[s]}
      <4>1. received'[s] = received[s]
        BY <2>5, <3>2 DEF QueueInv, EventQueueTypeOK
      <4>2. CASE s # SlotOf[old]
        BY <2>1, <2>5, <3>2, <4>1, <4>2 DEF QueueInv, EventQueueTypeOK
      <4>3. CASE s = SlotOf[old]
        \* old is newer than anything applied or discarded, yet not newer than received[s]
        <5>1. pending[old].stamp <= received[s] /\ applied[s] < pending[old].stamp
              /\ dropped[s] < pending[old].stamp
          BY <2>2, <4>3 DEF QueueInv, PlacesFollowStamps, LeavesInOrder
        <5> QED  BY <3>2, <5>1 DEF QueueInv, EventQueueTypeOK, EventStamp
      <4> QED  BY <4>2, <4>3
    <3>3. CASE s # SlotOf[k] /\ \E j \in Queued : SlotOf[j] = s /\ pending[j].stamp = received[s]
      <4>1. PICK j \in Queued : SlotOf[j] = s /\ pending[j].stamp = received[s]
        BY <3>3
      <4>2. received'[s] = received[s] /\ j # k
        BY <2>5, <3>3, <4>1 DEF QueueInv, EventQueueTypeOK
      <4>3. CASE j = old
        BY <2>1, <2>2, <4>1, <4>2, <4>3 DEF QueueInv, EventQueueTypeOK
      <4>4. CASE j # old
        <5>1. pending'[j] = pending[j]
          BY <2>1, <4>1, <4>2, <4>4 DEF Requeued, Queued, QueueInv, EventQueueTypeOK
        <5>2. j \in Queued'
          BY <4>1, <5>1 DEF Queued
        <5> QED  BY <4>1, <4>2, <5>1, <5>2
      <4> QED  BY <4>3, <4>4
    <3> QED  BY <3>1, <3>2, <3>3 DEF QueueInv, NewestStateKept
  <2> QED  BY <1>1, <2>6, <2>7, <2>8 DEF QueueInv
<1> QED  BY <1>2, <1>3

LEMMA HandleEventKeepsQueueInv ==
  ASSUME QueueInv, NEW k \in EventKey, HandleEvent(k)
  PROVE  QueueInv'
<1> USE EventQueueAssumption DEF EventQueueAssumption
<1>1. /\ k \in Queued
      /\ \A j \in Queued : pending[k].stamp <= pending[j].stamp
      /\ pending' = [pending EXCEPT ![k] = Absent]
      /\ applied' = [applied EXCEPT ![SlotOf[k]] = pending[k].stamp]
      /\ UNCHANGED <<clock, received, dropped, ready>>
      /\ worker' = "yielding"
  BY DEF HandleEvent, TakeOldest, IsOldest, Apply, QueueInv, PlacesFollowStamps, Queued
<1>2. \A j \in EventKey : pending'[j] = IF j = k THEN Absent ELSE pending[j]
  BY <1>1 DEF QueueInv, EventQueueTypeOK
<1>3. \A j \in EventKey : j \in Queued' <=> j \in Queued /\ j # k
  BY <1>2 DEF Queued, Absent
<1>4. EventQueueTypeOK'
  <2>1. Absent \in [place : EventStamp, stamp : EventStamp]
    BY DEF Absent, EventStamp
  <2> QED  BY <1>1, <2>1 DEF QueueInv, EventQueueTypeOK
<1>5. PlacesFollowStamps'
  <2>1. \A j \in EventKey : pending'[j].place = pending'[j].stamp
    BY <1>2 DEF QueueInv, PlacesFollowStamps, Absent
  <2>2. \A j \in EventKey : pending'[j].stamp <= received'[SlotOf[j]]
    BY <1>1, <1>2 DEF QueueInv, PlacesFollowStamps, Absent, EventQueueTypeOK, EventStamp
  <2>3. \A i, j \in Queued' : pending'[i].place = pending'[j].place => i = j
    BY <1>2, <1>3 DEF QueueInv, PlacesFollowStamps, Queued
  <2> QED  BY <2>1, <2>2, <2>3 DEF PlacesFollowStamps
<1>6. pending[k].stamp <= received[SlotOf[k]] /\ applied[SlotOf[k]] < pending[k].stamp
      /\ dropped[SlotOf[k]] < pending[k].stamp
  BY <1>1 DEF QueueInv, PlacesFollowStamps, LeavesInOrder
<1>7. LeavesInOrder'
  <2>1. \A j \in Queued : j # k => pending[k].stamp < pending[j].stamp
    BY <1>1, StampsAreDistinct
  <2> SUFFICES ASSUME NEW s \in Slot
               PROVE  /\ applied'[s] <= received'[s]
                      /\ dropped'[s] <= received'[s]
                      /\ received'[s] <= clock'
                      /\ \A j \in Queued' : /\ applied'[s] < pending'[j].stamp
                                             /\ dropped'[s] < pending'[j].stamp
    BY DEF LeavesInOrder
  <2>2. applied'[s] = IF s = SlotOf[k] THEN pending[k].stamp ELSE applied[s]
    BY <1>1 DEF QueueInv, EventQueueTypeOK
  <2>3. /\ applied[s] <= received[s] /\ dropped[s] <= received[s] /\ received[s] <= clock
        /\ \A j \in Queued : applied[s] < pending[j].stamp /\ dropped[s] < pending[j].stamp
    BY DEF QueueInv, LeavesInOrder
  <2>4. \A j \in Queued' : j \in Queued /\ j # k /\ pending'[j] = pending[j]
    BY <1>2, <1>3 DEF Queued
  <2> QED  BY <1>1, <1>6, <2>1, <2>2, <2>3, <2>4
<1>8. NewestStateKept'
  <2> SUFFICES ASSUME NEW s \in Slot
               PROVE  \/ received'[s] \in {applied'[s], dropped'[s]}
                      \/ \E j \in Queued' : SlotOf[j] = s /\ pending'[j].stamp = received'[s]
    BY DEF NewestStateKept
  <2>1. CASE received[s] \in {applied[s], dropped[s]}
    <3>1. s # SlotOf[k]
      BY <1>6, <2>1 DEF QueueInv, EventQueueTypeOK, EventStamp
    <3> QED  BY <1>1, <2>1, <3>1 DEF QueueInv, EventQueueTypeOK
  <2>2. CASE \E j \in Queued : SlotOf[j] = s /\ pending[j].stamp = received[s]
    <3>1. PICK j \in Queued : SlotOf[j] = s /\ pending[j].stamp = received[s]
      BY <2>2
    <3>2. CASE j = k
      BY <1>1, <3>1, <3>2 DEF QueueInv, EventQueueTypeOK
    <3>3. CASE j # k
      BY <1>1, <1>2, <1>3, <3>1, <3>3 DEF Queued
    <3> QED  BY <3>2, <3>3
  <2> QED  BY <2>1, <2>2 DEF QueueInv, NewestStateKept
<1> QED  BY <1>4, <1>5, <1>7, <1>8 DEF QueueInv

LEMMA QueueStepKeepsQueueInv == QueueInv /\ [EventQueueNext]_queueVars => QueueInv'
<1> SUFFICES ASSUME QueueInv, [EventQueueNext]_queueVars PROVE QueueInv'
  OBVIOUS
<1>1. CASE WorkerIdles
  BY <1>1 DEF QueueInv, WorkerIdles, EventQueueTypeOK, PlacesFollowStamps, LeavesInOrder,
              NewestStateKept, Queued
<1>2. CASE UNCHANGED queueVars
  BY <1>2 DEF QueueInv, queueVars, EventQueueTypeOK, PlacesFollowStamps, LeavesInOrder,
              NewestStateKept, Queued
<1> QED
  BY <1>1, <1>2, QueueEventKeepsQueueInv, HandleEventKeepsQueueInv DEF EventQueueNext

(* Every step of the queue and worker is a step of StateMirror or leaves   *)
(* what Home Assistant shows alone.                                        *)
LEMMA QueueStepMirrors ==
  QueueInv /\ [EventQueueNext]_queueVars => [Mirror!MirrorNext]_(Mirror!mirrorVars)
<1> USE EventQueueAssumption DEF EventQueueAssumption
<1> SUFFICES ASSUME QueueInv, [EventQueueNext]_queueVars
             PROVE  [Mirror!MirrorNext]_(Mirror!mirrorVars)
  OBVIOUS
<1>1. ASSUME NEW k \in EventKey, QueueEvent(k)
      PROVE  Mirror!Report(SlotOf[k])
  <2>1. received' = [received EXCEPT ![SlotOf[k]] = clock + 1] /\ applied' = applied
    BY <1>1 DEF QueueEvent
  <2>2. received[SlotOf[k]] < clock + 1 /\ received'[SlotOf[k]] = clock + 1
    BY <2>1 DEF QueueInv, EventQueueTypeOK, LeavesInOrder, EventStamp
  <2> QED  BY <2>1, <2>2 DEF Mirror!Report, QueueInv, EventQueueTypeOK, EventStamp
<1>2. ASSUME NEW k \in EventKey, HandleEvent(k)
      PROVE  Mirror!Show(SlotOf[k])
  <2>1. applied' = [applied EXCEPT ![SlotOf[k]] = pending[k].stamp] /\ received' = received
        /\ k \in Queued
    BY <1>2 DEF HandleEvent, TakeOldest, IsOldest, Apply
  <2>2. applied[SlotOf[k]] < pending[k].stamp /\ pending[k].stamp <= received[SlotOf[k]]
        /\ applied'[SlotOf[k]] = pending[k].stamp
    BY <2>1 DEF QueueInv, EventQueueTypeOK, LeavesInOrder, PlacesFollowStamps
  <2> QED  BY <2>1, <2>2 DEF Mirror!Show
<1>3. CASE WorkerIdles
  BY <1>3 DEF WorkerIdles, Mirror!mirrorVars
<1>4. CASE UNCHANGED queueVars
  BY <1>4 DEF queueVars, Mirror!mirrorVars
<1> QED  BY <1>1, <1>2, <1>3, <1>4 DEF EventQueueNext, Mirror!MirrorNext

(* What the limit needs of the queue's state.                              *)
PendingTypeOK == pending \in [EventKey -> [place : EventStamp, stamp : EventStamp]]

LEMMA QueuedIsFinite == IsFiniteSet(Queued) /\ Cardinality(Queued) \in Nat
  BY EventQueueAssumption, FS_Subset, FS_CardinalityType DEF EventQueueAssumption, Queued

LEMMA InitIsBounded == EventQueueInit => QueueBounded /\ NoLostWakeup
<1> SUFFICES ASSUME EventQueueInit PROVE QueueBounded /\ NoLostWakeup
  OBVIOUS
<1>1. Queued = {}
  BY DEF EventQueueInit, Queued, Absent
<1> QED
  BY <1>1, FS_EmptySet, EventQueueAssumption DEF EventQueueAssumption, QueueBounded, NoLostWakeup

(* A frame adds one entry at most, and takes one out of a full queue.      *)
LEMMA QueueEventKeepsBound ==
  ASSUME PendingTypeOK, clock \in Nat, QueueBounded, NEW k \in EventKey, QueueEvent(k)
  PROVE  QueueBounded'
<1> USE EventQueueAssumption DEF EventQueueAssumption, PendingTypeOK
<1>1. CASE ~MustDrop(k)
  <2>1. Queued' = Queued \union {k}
    BY <1>1 DEF QueueEvent, Requeued, Queued
  <2>2. CASE k \in Queued
    <3>1. Queued' = Queued
      BY <2>1, <2>2
    <3> QED  BY <3>1 DEF QueueBounded
  <2>3. CASE k \notin Queued /\ Cardinality(Queued) < Cap
    <3>1. Cardinality(Queued') = Cardinality(Queued) + 1
      BY <2>1, <2>3, QueuedIsFinite, FS_AddElement
    <3> QED  BY <2>3, <3>1, QueuedIsFinite DEF QueueBounded
  <2> QED  BY <1>1, <2>2, <2>3, QueuedIsFinite DEF MustDrop
<1>2. CASE MustDrop(k)
  <2>1. PICK old \in EventKey : /\ IsOldest(old)
                                /\ pending' = [Requeued(k) EXCEPT ![old] = Absent]
    BY <1>2 DEF QueueEvent
  <2>2. old \in Queued /\ k \notin Queued
    BY <1>2, <2>1 DEF MustDrop, IsOldest
  <2>3. Queued' = (Queued \ {old}) \union {k}
    BY <2>1, <2>2 DEF Requeued, Queued, Absent
  <2>4. IsFiniteSet(Queued \ {old}) /\ Cardinality(Queued \ {old}) = Cardinality(Queued) - 1
    BY <2>2, QueuedIsFinite, FS_RemoveElement
  <2>5. Cardinality(Queued') = Cardinality(Queued \ {old}) + 1
    BY <2>2, <2>3, <2>4, FS_AddElement
  <2> QED  BY <2>4, <2>5, QueuedIsFinite DEF QueueBounded
<1> QED  BY <1>1, <1>2

(* Taking an entry out makes room.                                         *)
LEMMA TakingKeepsBound ==
  ASSUME PendingTypeOK, QueueBounded, NEW k \in Queued,
         pending' = [pending EXCEPT ![k] = Absent]
  PROVE  QueueBounded'
<1>1. Queued' = Queued \ {k}
  BY DEF Queued, Absent, PendingTypeOK
<1>2. Cardinality(Queued') = Cardinality(Queued) - 1
  BY <1>1, QueuedIsFinite, FS_RemoveElement
<1> QED
  BY <1>2, QueuedIsFinite, EventQueueAssumption DEF EventQueueAssumption, QueueBounded

(* Every frame sets the event, and only a worker that found nothing clears *)
(* it.                                                                     *)
LEMMA QueueStepKeepsWakeup == NoLostWakeup /\ [EventQueueNext]_queueVars => NoLostWakeup'
  BY DEF NoLostWakeup, EventQueueNext, queueVars, QueueEvent, HandleEvent, TakeOldest,
         WorkerIdles, Queued

LEMMA QueueStepKeepsBound ==
  QueueInv /\ QueueBounded /\ [EventQueueNext]_queueVars => QueueBounded'
<1> SUFFICES ASSUME QueueInv, QueueBounded, [EventQueueNext]_queueVars
             PROVE  QueueBounded'
  OBVIOUS
<1>1. PendingTypeOK /\ clock \in Nat
  BY DEF QueueInv, EventQueueTypeOK, PendingTypeOK, EventStamp
<1>2. ASSUME NEW k \in EventKey, QueueEvent(k)
      PROVE  QueueBounded'
  BY <1>1, <1>2, QueueEventKeepsBound
<1>3. ASSUME NEW k \in EventKey, HandleEvent(k)
      PROVE  QueueBounded'
  BY <1>1, <1>3, TakingKeepsBound DEF HandleEvent, TakeOldest, IsOldest
<1>4. CASE WorkerIdles \/ UNCHANGED queueVars
  BY <1>4 DEF WorkerIdles, queueVars, Queued, QueueBounded
<1> QED  BY <1>2, <1>3, <1>4 DEF EventQueueNext

-----------------------------------------------------------------------------
(* The theorems.                                                           *)

(* The inductive invariant holds of every behaviour of the queue and its   *)
(* worker (web_socket_client.py:124-156).                                  *)
THEOREM QueueInvariant == EventQueueSafety => []QueueInv
  BY InitEstablishesQueueInv, QueueStepKeepsQueueInv, PTL DEF EventQueueSafety

(* The variables keep their types, stamps stay within the frames received. *)
THEOREM QueueTypesHold == EventQueueSafety => []EventQueueTypeOK
<1>1. QueueInv => EventQueueTypeOK
  BY DEF QueueInv
<1> QED  BY <1>1, QueueInvariant, PTL

(* The newest report of every slot is shown, queued or was discarded by    *)
(* the full queue: coalescing alone loses no newest state, whatever the    *)
(* keys, the slots they share, and the limit.                              *)
THEOREM NewestStateIsKept == EventQueueSafety => []NewestStateKept
<1>1. QueueInv => NewestStateKept
  BY DEF QueueInv
<1> QED  BY <1>1, QueueInvariant, PTL

(* The worker is never parked on a cleared event while entries wait.       *)
THEOREM NoWakeupIsLost == EventQueueSafety => []NoLostWakeup
  BY InitIsBounded, QueueStepKeepsWakeup, PTL DEF EventQueueSafety

(* A product never goes back to an older report: the queue and its worker  *)
(* implement StateMirror.                                                  *)
THEOREM QueueMirrorsNewestState == EventQueueSafety => MirrorsNewestState
<1>1. EventQueueInit => Mirror!MirrorInit
  BY DEF EventQueueInit, Mirror!MirrorInit
<1> QED
  BY <1>1, QueueStepMirrors, QueueInvariant, PTL
     DEF EventQueueSafety, MirrorsNewestState, Mirror!MirrorSpec

(* The queue never holds more than its limit of entries.                   *)
THEOREM QueueIsBounded == EventQueueSafety => []QueueBounded
  BY InitIsBounded, QueueStepKeepsBound, QueueInvariant, PTL DEF EventQueueSafety

=============================================================================
