----------------------------- MODULE EventQueue -----------------------------
(***************************************************************************)
(* The coalescing event queue of WebSocketClient and the worker task that  *)
(* drains it (eufy_security_api/web_socket_client.py).  The receive loop   *)
(* puts every "event" frame into an OrderedDict keyed by                   *)
(* (source, serialNumber, event, name); the worker takes the oldest entry, *)
(* hands it to the message callback and yields to the loop.                *)
(*                                                                         *)
(* A payload is reduced to its stamp, the number of the frame it came in.  *)
(* Several keys may report one slot of state: "connected", "disconnected"  *)
(* and "connection error" of a station are three keys and one slot         *)
(* (product.py:155-162), so the order BETWEEN keys matters.                *)
(***************************************************************************)
EXTENDS Naturals, FiniteSets

CONSTANTS
    EventKey,         \* the keys of _pending_events
    Slot,             \* the states of products the events report
    SlotOf,           \* SlotOf[k]: the slot an event of key k sets
    Cap,              \* the queue's limit, 512 in the code
    MaxEvents         \* bound: how many event frames a behaviour receives

ASSUME EventQueueAssumption ==
    /\ IsFiniteSet(EventKey)
    /\ SlotOf \in [EventKey -> Slot]
    /\ Cap \in Nat \ {0}
    /\ MaxEvents \in Nat

VARIABLES
    pending,          \* _pending_events: place in the dict and stamp of the payload
    ready,            \* _event_ready.is_set()
    worker,           \* where event_task is
    clock,            \* history: event frames received so far
    received,         \* history: received[s], stamp of the newest frame of slot s
    dropped,          \* history: dropped[s], newest frame of s the full queue discarded
    applied           \* applied[s]: stamp of the frame the product's state comes from

queueVars == <<pending, ready, worker, clock, received, dropped, applied>>

-----------------------------------------------------------------------------
(* An entry with place 0 is not in the dict.  popitem(last=False) takes    *)
(* the entry with the lowest place.                                        *)

Absent == [place |-> 0, stamp |-> 0]

Queued == {k \in EventKey : pending[k].place > 0}

IsOldest(k) ==
    /\ k \in Queued
    /\ \A j \in Queued : pending[k].place <= pending[j].place

(* The worker is at an await it can continue from: its Event.wait() with   *)
(* the event set, or the sleep(0) after a message.                         *)
WorkerRuns == \/ worker = "waiting" /\ ready
              \/ worker = "yielding"

EventQueueInit ==
    /\ pending = [k \in EventKey |-> Absent]
    /\ ready = FALSE
    /\ worker = "waiting"
    /\ clock = 0
    /\ received = [s \in Slot |-> 0]
    /\ dropped = [s \in Slot |-> 0]
    /\ applied = [s \in Slot |-> 0]

-----------------------------------------------------------------------------
(* _queue_event.  A key already queued is taken out and goes to the end    *)
(* with the new payload; a new key in a full queue discards the oldest.    *)

MustDropLate(k) == k \notin Queued /\ Cardinality(Queued) > Cap   \* defect: limit off by one

MustDrop(k) == k \notin Queued /\ Cardinality(Queued) >= Cap

(* Defects: the payload already queued is kept; the key keeps its place.   *)
RequeuedOldPayload(k) ==
    [pending EXCEPT ![k] = [place |-> clock + 1, stamp |-> IF k \in Queued THEN @.stamp ELSE clock + 1]]

RequeuedInPlace(k) ==
    [pending EXCEPT ![k] = [place |-> IF k \in Queued THEN @.place ELSE clock + 1, stamp |-> clock + 1]]

Requeued(k) == [pending EXCEPT ![k] = [place |-> clock + 1, stamp |-> clock + 1]]

QueueEvent(k) ==
    /\ clock < MaxEvents
    /\ clock' = clock + 1
    /\ received' = [received EXCEPT ![SlotOf[k]] = clock + 1]
    /\ \/ /\ ~MustDrop(k)
          /\ pending' = Requeued(k)
          /\ UNCHANGED dropped
       \/ /\ MustDrop(k)
          /\ \E old \in EventKey :
                /\ IsOldest(old)
                /\ pending' = [Requeued(k) EXCEPT ![old] = Absent]
                /\ dropped' = [dropped EXCEPT ![SlotOf[old]] = pending[old].stamp]
    /\ ready' = TRUE
    /\ UNCHANGED <<worker, applied>>

(* One round of _process_events' inner loop: popitem(last=False).          *)
TakeOldest(k) ==
    /\ WorkerRuns
    /\ IsOldest(k)
    /\ pending' = [pending EXCEPT ![k] = Absent]
    /\ UNCHANGED <<ready, clock, received, dropped>>

(* ... the callback stores the event in its product ...                    *)
Apply(s, stamp) == applied' = [applied EXCEPT ![s] = stamp]

(* ... and the worker yields.                                              *)
HandleEvent(k) ==
    /\ TakeOldest(k)
    /\ Apply(SlotOf[k], pending[k].stamp)
    /\ worker' = "yielding"

(* Defect: the event is cleared without looking at the queue again.        *)
WorkerIdlesEarly ==
    /\ WorkerRuns
    /\ ready' = FALSE
    /\ worker' = "waiting"
    /\ UNCHANGED <<pending, clock, received, dropped, applied>>

(* Defect: the loop around the inner one is missing, and the task is over. *)
WorkerStops ==
    /\ WorkerRuns
    /\ Queued = {}
    /\ ready' = FALSE
    /\ worker' = "ended"
    /\ UNCHANGED <<pending, clock, received, dropped, applied>>

(* The inner loop found the queue empty: clear() and wait() run without an *)
(* await between them.                                                     *)
WorkerIdles ==
    /\ WorkerRuns
    /\ Queued = {}
    /\ ready' = FALSE
    /\ worker' = "waiting"
    /\ UNCHANGED <<pending, clock, received, dropped, applied>>

EventQueueNext ==
    \/ \E k \in EventKey : QueueEvent(k)
    \/ \E k \in EventKey : HandleEvent(k)
    \/ WorkerIdles

EventQueueSafety == EventQueueInit /\ [][EventQueueNext]_queueVars

(* The loop runs every task that is ready.                                 *)
WorkerFairness == WF_queueVars((\E k \in EventKey : HandleEvent(k)) \/ WorkerIdles)

EventQueueSpec == EventQueueSafety /\ WorkerFairness

-----------------------------------------------------------------------------
(* Properties.                                                             *)

EventStamp == 0..MaxEvents

(* The types of the variables: in particular the worker is parked or in    *)
(* its loop, and no legal sequence of reports ends its task.               *)
EventQueueTypeOK ==
    /\ pending \in [EventKey -> [place : EventStamp, stamp : EventStamp]]
    /\ ready \in BOOLEAN
    /\ worker \in {"waiting", "yielding"}
    /\ clock \in EventStamp
    /\ received \in [Slot -> EventStamp]
    /\ dropped \in [Slot -> EventStamp]
    /\ applied \in [Slot -> EventStamp]

(* "without losing the newest state" (web_socket_client.py:125): the       *)
(* newest report of a slot is shown, still queued, or was itself discarded *)
(* by the full queue, however many keys of the slot were coalesced.        *)
NewestStateKept ==
    \A s \in Slot :
        \/ received[s] \in {applied[s], dropped[s]}
        \/ \E k \in Queued : SlotOf[k] = s /\ pending[k].stamp = received[s]

(* The queue never outgrows its limit of 512 entries (line 135).           *)
QueueBounded == Cardinality(Queued) <= Cap

(* The worker is never parked on a cleared event while entries wait, so a  *)
(* burst that arrives during the last sleep(0) is not stranded.            *)
NoLostWakeup == worker = "waiting" /\ Queued # {} => ready

(* The whole path implements StateMirror: a coalesced, reordered or late   *)
(* entry never puts a product back to an older state.                      *)
Mirror == INSTANCE StateMirror WITH reported <- received, shown <- applied

MirrorsNewestState == Mirror!MirrorSpec

(* Every report is shown, superseded by a later one that is shown, or lost *)
(* to the full queue: no legal burst stops the worker.                     *)
EveryReportSettles ==
    \A s \in Slot, n \in 1..MaxEvents :
        (received[s] = n) ~> (applied[s] >= n \/ dropped[s] >= n)

=============================================================================
