------------------------- MODULE ProEventCollector -------------------------
(***************************************************************************)
(* One evidence session with a HomeBase Pro: EventCollector and the parts  *)
(* of run() that drive it (pro_event_helper.py:421-739, 793-1016).  The    *)
(* helper asks for the optional face roster, then for the events of the    *)
(* window (the AIC query, and once, as a fallback, the whole history       *)
(* table), then for the cover files of the newest record of each camera.   *)
(*                                                                         *)
(* Queries are named by what they ask; their transactions are distinct     *)
(* because next_transaction's clock only increases.  A reply is told apart *)
(* by the tables it carries, after raw rows were given the name of the     *)
(* table that was asked for (542-543): the faces (person_basic_info), one  *)
(* of the three event tables, both or none.  LIVE_QUERY_BACKFILL_SERIALS   *)
(* is 0, so no filter query is ever sent and the phase "filters" is left   *)
(* in the step that enters it.  Records are not told apart; what matters   *)
(* is which query they came from and which covers they name.               *)
(***************************************************************************)
EXTENDS Naturals, FiniteSets

CONSTANTS
    Cover,            \* the thumb_path values the records may name
    InFlight          \* MAX_THUMBNAIL_IN_FLIGHT, 4 in the code

ASSUME CollectorAssumption ==
    /\ IsFiniteSet(Cover)
    /\ {"roster", "aic", "history"} \intersect Cover = {}
    /\ InFlight \in Nat \ {0}

VARIABLES
    phase,            \* "roster", "initial", "thumbnails"
    asker,            \* delayed_query: "opening", "rosterWait", "over"
    pendingTx,        \* pending_transaction, named by its query
    rosterTx,         \* roster_transaction is set
    rosterReceived,   \* roster_received
    eventTimer,       \* event_reply_timer is armed
    readMode,         \* event_read_mode
    coverQueue,       \* thumbnail_queue
    coverWait,        \* thumbnail_by_path, each entry with its 3 second timer
    budgetTimer,      \* thumbnail_budget_timer is armed
    done,             \* done.is_set()
    error,            \* what collector.error stands for
    consumer,         \* consume_frames: "waiting" in frames.get() or "ended"
    session,          \* "running", "closing" (run() leaves the socket), "ended"
    replies,          \* history: the replies of the HomeBase the consumer took
    asked,            \* history: how often each query was sent
    source,           \* history: the query whose reply gave the records
    images            \* covers whose bytes were stored

controlVars == <<phase, asker, pendingTx, rosterTx, rosterReceived, eventTimer, readMode>>
coverVars == <<coverQueue, coverWait, budgetTimer, images>>
endVars == <<done, error, consumer, session>>
collectorVars == <<controlVars, coverVars, endVars, replies, asked, source>>

Query == {"roster", "aic", "history"}

CollectorInit ==
    /\ phase = "roster" /\ asker = "opening"
    /\ pendingTx = "none" /\ rosterTx = FALSE /\ rosterReceived = FALSE
    /\ eventTimer = FALSE /\ readMode = "aic"
    /\ coverQueue = {} /\ coverWait = {} /\ budgetTimer = FALSE /\ images = {}
    /\ done = FALSE /\ error = "none" /\ consumer = "waiting" /\ session = "running"
    /\ replies = {}
    /\ asked = [q \in Query |-> 0]
    /\ source = "none"

-----------------------------------------------------------------------------
(* Sending.                                                                *)

Send(q) ==
    /\ pendingTx' = q
    /\ asked' = [asked EXCEPT ![q] = @ + 1]

EnterInitialUntimed ==                 \* defect: no reply timer
    /\ phase' = "initial"
    /\ Send("aic")
    /\ UNCHANGED eventTimer

(* send_event_initial: the AIC query and its 8 second reply timer.         *)
EnterInitial ==
    /\ phase' = "initial"
    /\ Send("aic")
    /\ eventTimer' = TRUE

(* delayed_query, one second after the command channel opened.             *)
AskRoster ==
    /\ session # "ended"
    /\ asker = "opening"
    /\ asker' = "rosterWait"
    /\ rosterTx' = TRUE
    /\ Send("roster")
    /\ UNCHANGED <<phase, rosterReceived, eventTimer, readMode, coverVars, endVars, replies, source>>

(* skip_optional_roster, three seconds later; nothing if the roster came.  *)
RosterDeadline ==
    /\ session # "ended"
    /\ asker = "rosterWait"
    /\ asker' = "over"
    /\ IF phase = "roster"
       THEN EnterInitial
       ELSE UNCHANGED <<phase, pendingTx, eventTimer, asked>>
    /\ UNCHANGED <<rosterTx, rosterReceived, readMode, coverVars, endVars, replies, source>>

(* Defect: the timer stays armed.                                          *)
AskHistoryTimed ==
    /\ readMode' = "history"
    /\ Send("history")
    /\ UNCHANGED <<phase, eventTimer>>

(* send_event_fallback disarms the timer it may not have come from.        *)
AskHistory ==
    /\ eventTimer' = FALSE
    /\ readMode' = "history"
    /\ Send("history")
    /\ UNCHANGED phase

EventReplyDeadline ==
    /\ session # "ended"
    /\ eventTimer
    /\ IF done \/ phase # "initial"
       THEN eventTimer' = FALSE /\ UNCHANGED <<phase, readMode, pendingTx, asked>>
       ELSE AskHistory
    /\ UNCHANGED <<asker, rosterTx, rosterReceived, coverVars, endVars, replies, source>>

-----------------------------------------------------------------------------
(* The HomeBase: it answers a query with an error or with a success that   *)
(* carries any of the tables or none, and sends files, asked for or not,   *)
(* in any phase.  A reply comes at any time after its query, or never, in  *)
(* any order with the others and any number of times.                      *)

Message ==
    [to : Query, kind : {"error", "empty", "person", "events", "both"}]
      \union [to : Cover, kind : {"image", "empty"}]

Person(m) == m.kind \in {"person", "both"}
Events(m) == m.kind \in {"events", "both"}

(* The consumer takes a reply: a repeated one is the same again.  It looks *)
(* at done only before it waits, so it still takes one frame that comes    *)
(* after.                                                                  *)
Reading == consumer = "waiting" /\ session # "ended"

TakeFrame(m) ==
    /\ Reading
    /\ m.to \in Query => asked[m.to] > 0
    /\ \A n \in replies : n.to = m.to => n = m
    /\ replies' = replies \union {m}

ConsumerLoops == consumer' = IF done' THEN "ended" ELSE "waiting"

IsRoster(m) == m.to = "roster" /\ rosterTx /\ ~rosterReceived

AwaitedAny(m) == m.to \in Query        \* defect: the transaction is not compared

(* Unknown, duplicate and late transactions fall through add_response.     *)
Awaited(m) == m.to = pendingTx \/ IsRoster(m)

-----------------------------------------------------------------------------
(* The cover phase.                                                        *)

FinishCoversOnly == done' = TRUE /\ UNCHANGED <<coverQueue, coverWait, budgetTimer>>   \* defect

FinishCovers ==
    /\ coverQueue' = {} /\ coverWait' = {} /\ budgetTimer' = FALSE
    /\ done' = TRUE

(* Defect: an empty window does not finish the phase.                      *)
SendCoversOnly(queue, awaited, budget) ==
    \E batch \in SUBSET queue :
        /\ Cardinality(awaited \union batch) <= InFlight
        /\ batch = queue \/ Cardinality(awaited \union batch) = InFlight
        /\ coverQueue' = queue \ batch
        /\ coverWait' = awaited \union batch
        /\ budgetTimer' = budget
        /\ UNCHANGED done

(* send_next_thumbnail with the given queue and files awaited: fill the    *)
(* window, and finish when nothing is left.                                *)
SendCovers(queue, awaited, budget) ==
    \E batch \in SUBSET queue :
        /\ Cardinality(awaited \union batch) <= InFlight
        /\ batch = queue \/ Cardinality(awaited \union batch) = InFlight
        /\ IF queue = {} /\ awaited = {}
           THEN FinishCovers
           ELSE /\ coverQueue' = queue \ batch
                /\ coverWait' = awaited \union batch
                /\ budgetTimer' = budget
                /\ UNCHANGED done

(* Rows of the awaited event query: the records, then the cover files of   *)
(* the newest record per camera.                                           *)
TakeEventRows(m) ==
    /\ pendingTx' = "none"
    /\ eventTimer' = FALSE
    /\ source' = m.to
    /\ phase' = "thumbnails"
    /\ \E covers \in SUBSET Cover : SendCovers(covers, {}, covers # {})

-----------------------------------------------------------------------------
(* add_response, by what the reply is.                                     *)

(* Not awaited, or after the end: ignored.                                 *)
IgnoreReply(m) ==
    /\ m.to \in Query
    /\ TakeFrame(m)
    /\ ~Awaited(m) \/ done
    /\ UNCHANGED <<controlVars, coverVars, done, error, session, asked, source>>
    /\ ConsumerLoops

(* A success without an event table never answers an event query, nor does *)
(* one that carries the faces under another transaction than the roster's. *)
IgnoreTableless(m) ==
    /\ m.to \in {"aic", "history"}
    /\ m.kind # "error" /\ (Person(m) \/ ~Events(m))
    /\ TakeFrame(m)
    /\ Awaited(m) /\ ~done
    /\ phase = "initial"
    /\ UNCHANGED <<controlVars, coverVars, done, error, session, asked, source>>
    /\ ConsumerLoops

(* The reply to the roster's transaction also carries an event table, and  *)
(* falls through to be processed as the answer to the event query: in the  *)
(* phase "roster" it has just started that query, later it must name faces *)
(* too (565-576, 578).                                                     *)
RosterEvents(m) ==
    /\ Events(m)
    /\ phase = "roster" \/ (phase = "initial" /\ Person(m))

(* The roster: faces enrich the result whenever they come; only in the     *)
(* phase "roster" does the reply, whatever it is, start the event query.   *)
TakeRoster(m) ==
    /\ m.to = "roster"
    /\ TakeFrame(m)
    /\ IsRoster(m) /\ ~done
    /\ ~RosterEvents(m)
    /\ rosterReceived' = Person(m)
    /\ IF phase = "roster"
       THEN EnterInitial
       ELSE UNCHANGED <<phase, pendingTx, eventTimer, asked>>
    /\ UNCHANGED <<asker, rosterTx, readMode, coverVars, done, error, session, source>>
    /\ ConsumerLoops

TakeRosterEvents(m) ==
    /\ m.to = "roster"
    /\ TakeFrame(m)
    /\ IsRoster(m) /\ ~done
    /\ RosterEvents(m)
    /\ rosterReceived' = Person(m)
    /\ asked' = IF phase = "roster" THEN [asked EXCEPT !["aic"] = @ + 1] ELSE asked
    /\ TakeEventRows(m)
    /\ UNCHANGED <<asker, rosterTx, readMode, images, error, session>>
    /\ ConsumerLoops

(* An error to the AIC query starts the fallback; an error to the fallback *)
(* fails the session.                                                      *)
TakeError(m) ==
    /\ m.to \in {"aic", "history"} /\ m.kind = "error"
    /\ TakeFrame(m)
    /\ Awaited(m) /\ ~done
    /\ IF phase = "initial" /\ readMode = "aic"
       THEN AskHistory /\ UNCHANGED <<done, error>>
       ELSE /\ error' = "query" /\ done' = TRUE
            /\ UNCHANGED <<phase, eventTimer, readMode, pendingTx, asked>>
    /\ UNCHANGED <<asker, rosterTx, rosterReceived, coverVars, session, source>>
    /\ ConsumerLoops

TakeEvents(m) ==
    /\ m.to \in {"aic", "history"}
    /\ Events(m) /\ ~Person(m)
    /\ TakeFrame(m)
    /\ Awaited(m) /\ ~done
    /\ phase = "initial"
    /\ TakeEventRows(m)
    /\ UNCHANGED <<asker, rosterTx, rosterReceived, readMode, images, error, session, asked>>
    /\ ConsumerLoops

(* add_thumbnail: the file leaves the window, an image is kept if it was   *)
(* still awaited and decodes.  No phase is asked for: before the cover     *)
(* phase nothing is queued or awaited, so a file completes the collection. *)
TakeFile(m) ==
    /\ m.to \in Cover
    /\ TakeFrame(m)
    /\ images' = IF m.to \in coverWait /\ m.kind = "image" THEN images \union {m.to} ELSE images
    /\ SendCovers(coverQueue, coverWait \ {m.to}, budgetTimer)
    /\ UNCHANGED <<controlVars, error, session, asked, source>>
    /\ ConsumerLoops

(* thumbnail_timed_out, three seconds after the request.                   *)
CoverTimesOut(c) ==
    /\ session # "ended"
    /\ c \in coverWait
    /\ SendCovers(coverQueue, coverWait \ {c}, budgetTimer)
    /\ UNCHANGED <<controlVars, images, error, consumer, session, replies, asked, source>>

(* finish_thumbnails, six seconds into the phase.                          *)
CoverBudgetEnds ==
    /\ session # "ended"
    /\ budgetTimer
    /\ FinishCovers
    /\ UNCHANGED <<controlVars, images, error, consumer, session, replies, asked, source>>

-----------------------------------------------------------------------------
(* The session.                                                            *)

(* A 1350 frame with a negative result or a 1306 frame that is no JSON;    *)
(* the consumer does not ask whether the collection is already complete.   *)
FrameFails ==
    /\ Reading
    /\ error' = "frame" /\ done' = TRUE
    /\ UNCHANGED <<controlVars, coverVars, session, replies, asked, source>>
    /\ ConsumerLoops

(* The peer fails or closes, or the signalling task ends.                  *)
ConnectionCloses ==
    /\ session = "running" /\ ~done
    /\ error' = "closed" /\ done' = TRUE
    /\ UNCHANGED <<controlVars, coverVars, consumer, session, replies, asked, source>>

(* done.wait() returned; leaving the websocket awaits its close handshake. *)
SessionCloses ==
    /\ session = "running" /\ done
    /\ session' = "closing"
    /\ UNCHANGED <<controlVars, coverVars, done, error, consumer, replies, asked, source>>

(* The 50 second budget of main() over run().                              *)
SessionBudgetEnds ==
    /\ session = "running" /\ ~done
    /\ session' = "closing"
    /\ error' = "budget"
    /\ UNCHANGED <<controlVars, coverVars, done, consumer, replies, asked, source>>

(* The finally clause cancels every timer and the consumer.                *)
SessionEnds ==
    /\ session = "closing"
    /\ session' = "ended"
    /\ consumer' = "ended"
    /\ eventTimer' = FALSE /\ budgetTimer' = FALSE
    /\ coverWait' = {}
    /\ UNCHANGED <<phase, asker, pendingTx, rosterTx, rosterReceived, readMode, coverQueue,
                   images, done, error, replies, asked, source>>

-----------------------------------------------------------------------------

TakeReply(m) ==
    \/ IgnoreReply(m) \/ IgnoreTableless(m) \/ TakeRoster(m) \/ TakeRosterEvents(m)
    \/ TakeError(m) \/ TakeEvents(m) \/ TakeFile(m)

CollectorNext ==
    \/ AskRoster \/ RosterDeadline \/ EventReplyDeadline
    \/ \E m \in Message : TakeReply(m)
    \/ \E c \in Cover : CoverTimesOut(c)
    \/ CoverBudgetEnds
    \/ FrameFails \/ ConnectionCloses
    \/ SessionCloses \/ SessionBudgetEnds \/ SessionEnds

CollectorSafety == CollectorInit /\ [][CollectorNext]_collectorVars

(* Timers fire and the coroutine leaves the session.  Nothing is assumed   *)
(* of the HomeBase, nor that the 50 second budget ends anything.           *)
CollectorFairness ==
    /\ WF_collectorVars(AskRoster) /\ WF_collectorVars(RosterDeadline)
    /\ WF_collectorVars(EventReplyDeadline)
    /\ \A c \in Cover : WF_collectorVars(CoverTimesOut(c))
    /\ WF_collectorVars(CoverBudgetEnds)
    /\ WF_collectorVars(SessionCloses) /\ WF_collectorVars(SessionEnds)

CollectorSpec == CollectorSafety /\ CollectorFairness

-----------------------------------------------------------------------------
(* Properties.                                                             *)

(* The types of the variables, and what a complete collection and the      *)
(* cover phase no longer wait for (finish_thumbnails, 650-659; 576-579).  *)
CollectorTypeOK ==
    /\ phase \in {"roster", "initial", "thumbnails"}
    /\ asker \in {"opening", "rosterWait", "over"}
    /\ pendingTx \in Query \union {"none"}
    /\ rosterTx \in BOOLEAN /\ rosterReceived \in BOOLEAN
    /\ eventTimer \in BOOLEAN /\ budgetTimer \in BOOLEAN
    /\ readMode \in {"aic", "history"}
    /\ coverQueue \in SUBSET Cover /\ coverWait \in SUBSET Cover /\ images \in SUBSET Cover
    /\ done \in BOOLEAN
    /\ done /\ error = "none" => coverQueue = {} /\ coverWait = {} /\ ~budgetTimer
    /\ phase = "thumbnails" => ~eventTimer
    /\ error \in {"none", "query", "frame", "closed", "budget"}
    /\ consumer \in {"waiting", "ended"}
    /\ session \in {"running", "closing", "ended"}
    /\ asked \in [Query -> Nat]
    /\ source \in Query \union {"none"}

(* However the roster's deadline races its reply and the AIC error races   *)
(* the reply timer, each query is sent at most once: "one bounded          *)
(* whole-history-table fallback" (docs/UPSTREAM_RELIABILITY).              *)
EachQueryAskedOnce == \A q \in Query : asked[q] <= 1

(* A late or repeated reply to the event query that was given up never     *)
(* passes for the answer awaited: records of an event query are those of   *)
(* the mode reported as databaseReadMode.  A roster reply gives records    *)
(* only if it carries an event table itself (565-576).  A session that     *)
(* ends without an error has read records, whatever raced its timers,      *)
(* unless it was sent a file: one that came before the cover phase         *)
(* completed it (684-721, 673).                                            *)
RecordsMatchReadMode ==
    /\ source \in {"aic", "history"} => source = readMode
    /\ source = "roster" => \E m \in replies : m.to = "roster" /\ Events(m)
    /\ session = "ended" /\ error = "none" => source # "none" \/ \E m \in replies : m.to \in Cover

(* Unanswered covers never hold back the events already read: every cover  *)
(* phase completes on its own timers (644-647), without the session budget.*)
CoversAlwaysComplete == phase = "thumbnails" ~> done \/ session # "running"

(* A HomeBase that ignores the queries is not waited for: within the       *)
(* roster and reply timers the history table is asked for, unless events   *)
(* arrived or the session ended.                                           *)
SilentHomeBaseFallsBack ==
    <>(asked["history"] = 1 \/ source # "none" \/ done \/ session # "running")

=============================================================================
