---------------------- MODULE ProEventCollectorProofs ----------------------
(***************************************************************************)
(* Theorems about ProEventCollector for every set of covers and every      *)
(* window.  None of the safety properties is inductive: CollectorInv says  *)
(* what has been asked in every phase, which transaction is awaited there  *)
(* and which reply the records came from, and when the cover phase has     *)
(* anything to wait for.                                                   *)
(***************************************************************************)
EXTENDS ProEventCollector, TLAPS

(* How often each query was sent follows from the phase, and only the AIC  *)
(* query is timed.                                                         *)
AskedByPhase ==
    /\ asked["roster"] = IF asker = "opening" THEN 0 ELSE 1
    /\ asked["aic"] = IF phase = "roster" THEN 0 ELSE 1
    /\ asked["history"] = IF readMode = "aic" THEN 0 ELSE 1
    /\ rosterTx <=> asker # "opening"
    /\ asker = "opening" => phase = "roster"
    /\ phase = "roster" => readMode = "aic"
    /\ eventTimer => phase = "initial" /\ readMode = "aic"

(* The event transaction awaited is the one of the reported read mode, and *)
(* it is awaited until records were read: its own, or those of a roster    *)
(* reply that carries an event table.                                      *)
AwaitedByPhase ==
    /\ phase = "roster" => pendingTx \in {"none", "roster"}
    /\ phase = "initial" => pendingTx = readMode
    /\ phase = "thumbnails" => pendingTx = "none"
    /\ IF phase = "thumbnails" THEN source \in {readMode, "roster"} ELSE source = "none"
    /\ source = "roster" => \E m \in replies : m.to = "roster" /\ Events(m)

(* Covers are asked for in the cover phase only; a collection is complete  *)
(* in no other, unless a file was sent.                                    *)
CoversAfterRecords ==
    /\ coverQueue # {} \/ coverWait # {} \/ budgetTimer => phase = "thumbnails"
    /\ done /\ error = "none" /\ phase # "thumbnails" => \E m \in replies : m.to \in Cover
    /\ session # "running" => done \/ error # "none"

CollectorInv ==
    /\ CollectorTypeOK
    /\ replies \in SUBSET Message
    /\ AskedByPhase
    /\ AwaitedByPhase
    /\ CoversAfterRecords

LEMMA InitEstablishesCollectorInv == CollectorInit => CollectorInv
<1> SUFFICES ASSUME CollectorInit PROVE CollectorInv
  OBVIOUS
<1> QED  BY DEF CollectorInit, CollectorInv, CollectorTypeOK, Query, AskedByPhase, AwaitedByPhase,
                CoversAfterRecords

(* A reply taken is remembered, and nothing is forgotten.                  *)
LEMMA TakingKeepsMessages ==
  ASSUME replies \in SUBSET Message, NEW m \in Message, TakeFrame(m)
  PROVE  replies' \in SUBSET Message /\ replies \subseteq replies' /\ m \in replies'
BY DEF TakeFrame

(* Filling the window ends the phase or leaves the covers in it.           *)
LEMMA SendingKeepsCovers ==
  ASSUME NEW STATE queue, NEW STATE awaited, NEW STATE budget,
         queue \in SUBSET Cover, awaited \in SUBSET Cover, budget \in BOOLEAN,
         done \in BOOLEAN, done /\ error = "none" => queue = {} /\ awaited = {},
         SendCovers(queue, awaited, budget)
  PROVE  /\ coverQueue' \in SUBSET Cover /\ coverWait' \in SUBSET Cover
         /\ budgetTimer' \in BOOLEAN /\ done' \in BOOLEAN
         /\ done => done'
         /\ done' /\ error = "none" => coverQueue' = {} /\ coverWait' = {} /\ ~budgetTimer'
         /\ queue = {} /\ awaited = {} => coverQueue' = {} /\ coverWait' = {} /\ ~budgetTimer'
<1>1. PICK batch \in SUBSET queue :
        IF queue = {} /\ awaited = {}
        THEN FinishCovers
        ELSE /\ coverQueue' = queue \ batch
             /\ coverWait' = awaited \union batch
             /\ budgetTimer' = budget
             /\ UNCHANGED done
  BY DEF SendCovers
<1>2. CASE queue = {} /\ awaited = {}
  BY <1>1, <1>2 DEF FinishCovers
<1>3. CASE ~(queue = {} /\ awaited = {})
  BY <1>1, <1>3
<1> QED  BY <1>2, <1>3

(* The timers of the queries, and the roster's reply, whatever it is.      *)
LEMMA AskingKeepsCollectorInv ==
  ASSUME CollectorInv,
         AskRoster \/ RosterDeadline \/ EventReplyDeadline \/ \E m \in Message : TakeRoster(m)
  PROVE  CollectorInv'
<1> USE CollectorAssumption DEF CollectorAssumption, CollectorInv
<1>1. CASE AskRoster
  <2>1. /\ asker = "opening" /\ phase = "roster" /\ ~rosterTx
        /\ asker' = "rosterWait" /\ rosterTx' = TRUE
        /\ pendingTx' = "roster" /\ asked' = [asked EXCEPT !["roster"] = @ + 1]
        /\ UNCHANGED <<phase, rosterReceived, eventTimer, readMode, coverQueue, coverWait,
                       budgetTimer, images, done, error, consumer, session, replies, source>>
    BY <1>1 DEF AskRoster, Send, AskedByPhase, coverVars, endVars
  <2>2. CollectorTypeOK'
    BY <2>1 DEF CollectorTypeOK, Query
  <2>3. AskedByPhase'
    BY <2>1 DEF AskedByPhase, CollectorTypeOK, Query
  <2>4. AwaitedByPhase' /\ CoversAfterRecords' /\ (replies \in SUBSET Message)'
    BY <2>1 DEF AwaitedByPhase, CoversAfterRecords
  <2> QED  BY <2>2, <2>3, <2>4
<1>2. ASSUME phase = "roster", EnterInitial, asker # "opening", asker' \in {"rosterWait", "over"},
             rosterReceived' \in BOOLEAN, consumer' \in {"waiting", "ended"},
             replies' \in SUBSET Message, replies \subseteq replies',
             UNCHANGED <<rosterTx, readMode, coverQueue, coverWait, budgetTimer, images, done,
                         error, session, source>>
      PROVE  CollectorInv'
  <2>1. /\ phase' = "initial" /\ eventTimer' = TRUE
        /\ pendingTx' = "aic" /\ asked' = [asked EXCEPT !["aic"] = @ + 1]
        /\ readMode = "aic" /\ asker' # "opening"
    BY <1>2 DEF EnterInitial, Send, AskedByPhase
  <2>2. CollectorTypeOK'
    BY <1>2, <2>1 DEF CollectorTypeOK, Query, CoversAfterRecords
  <2>3. AskedByPhase'
    BY <1>2, <2>1 DEF AskedByPhase, CollectorTypeOK, Query
  <2>4. AwaitedByPhase' /\ CoversAfterRecords'
    BY <1>2, <2>1 DEF AwaitedByPhase, CoversAfterRecords
  <2> QED  BY <1>2, <2>2, <2>3, <2>4
<1>3. ASSUME asker # "opening", asker' \in {"rosterWait", "over"},
             rosterReceived' \in BOOLEAN, consumer' \in {"waiting", "ended"},
             replies' \in SUBSET Message, replies \subseteq replies',
             UNCHANGED <<phase, pendingTx, eventTimer, asked, rosterTx, readMode, coverQueue,
                         coverWait, budgetTimer, images, done, error, session, source>>
      PROVE  CollectorInv'
  <2>1. CollectorTypeOK'
    BY <1>3 DEF CollectorTypeOK
  <2>2. AskedByPhase' /\ AwaitedByPhase' /\ CoversAfterRecords'
    BY <1>3 DEF AskedByPhase, AwaitedByPhase, CoversAfterRecords
  <2> QED  BY <1>3, <2>1, <2>2
<1>4. CASE RosterDeadline
  <2>1. /\ asker = "rosterWait" /\ asker' = "over"
        /\ phase = "roster" => EnterInitial
        /\ phase # "roster" => UNCHANGED <<phase, pendingTx, eventTimer, asked>>
        /\ UNCHANGED <<rosterTx, rosterReceived, readMode, coverQueue, coverWait, budgetTimer,
                       images, done, error, consumer, session, replies, source>>
    BY <1>4 DEF RosterDeadline, coverVars, endVars
  <2> QED  BY <1>2, <1>3, <2>1 DEF CollectorTypeOK
<1>5. ASSUME NEW m \in Message, TakeRoster(m)
      PROVE  CollectorInv'
  <2>1. /\ rosterTx /\ asker' = asker /\ rosterReceived' \in BOOLEAN
        /\ phase = "roster" => EnterInitial
        /\ phase # "roster" => UNCHANGED <<phase, pendingTx, eventTimer, asked>>
        /\ consumer' \in {"waiting", "ended"}
        /\ UNCHANGED <<rosterTx, readMode, coverQueue, coverWait, budgetTimer, images, done,
                       error, session, source>>
    BY <1>5 DEF TakeRoster, IsRoster, Person, ConsumerLoops, coverVars
  <2>2. asker \in {"rosterWait", "over"}
    BY <2>1 DEF AskedByPhase, CollectorTypeOK
  <2> QED  BY <1>2, <1>3, <1>5, <2>1, <2>2, TakingKeepsMessages DEF TakeRoster
<1>6. CASE EventReplyDeadline
  <2>1. /\ eventTimer /\ eventTimer' = FALSE /\ phase = "initial" /\ readMode = "aic"
        /\ UNCHANGED <<phase, asker, rosterTx, rosterReceived, coverQueue, coverWait, budgetTimer,
                       images, done, error, consumer, session, replies, source>>
    BY <1>6 DEF EventReplyDeadline, AskHistory, AskedByPhase, coverVars, endVars
  <2>2. \/ UNCHANGED <<readMode, pendingTx, asked>>
        \/ /\ readMode' = "history" /\ pendingTx' = "history"
           /\ asked' = [asked EXCEPT !["history"] = @ + 1]
    BY <1>6 DEF EventReplyDeadline, AskHistory, Send
  <2>3. CollectorTypeOK'
    <3>1. /\ asked' \in [Query -> Nat]
          /\ readMode' \in {"aic", "history"} /\ pendingTx' \in Query \union {"none"}
      BY <2>2 DEF CollectorTypeOK, Query
    <3>2. eventTimer' \in BOOLEAN
      BY <2>1
    <3>3. /\ done' /\ error' = "none" => coverQueue' = {} /\ coverWait' = {} /\ ~budgetTimer'
          /\ phase' = "thumbnails" => ~eventTimer'
      BY <2>1 DEF CollectorTypeOK
    <3> QED  BY <2>1, <3>1, <3>2, <3>3 DEF CollectorTypeOK
  <2>4. AskedByPhase'
    BY <2>1, <2>2 DEF AskedByPhase, CollectorTypeOK, Query
  <2>5. AwaitedByPhase' /\ CoversAfterRecords' /\ (replies \in SUBSET Message)'
    BY <2>1, <2>2 DEF AwaitedByPhase, CoversAfterRecords
  <2> QED  BY <2>3, <2>4, <2>5
<1> QED  BY <1>1, <1>4, <1>5, <1>6

(* A frame that falls through, and an error to the query awaited.          *)
LEMMA RefusalKeepsCollectorInv ==
  ASSUME CollectorInv, NEW m \in Message, IgnoreReply(m) \/ IgnoreTableless(m) \/ TakeError(m)
  PROVE  CollectorInv'
<1> USE CollectorAssumption DEF CollectorAssumption, CollectorInv
<1>1. /\ replies' \in SUBSET Message /\ replies \subseteq replies'
      /\ consumer' \in {"waiting", "ended"}
      /\ UNCHANGED <<asker, rosterTx, rosterReceived, coverQueue, coverWait, budgetTimer, images,
                     session, source>>
  BY TakingKeepsMessages
     DEF IgnoreReply, IgnoreTableless, TakeError, ConsumerLoops, controlVars, coverVars
<1>2. CASE UNCHANGED <<phase, pendingTx, eventTimer, readMode, done, error, asked>>
  <2>1. CollectorTypeOK'
    BY <1>1, <1>2 DEF CollectorTypeOK
  <2>2. AskedByPhase' /\ AwaitedByPhase' /\ CoversAfterRecords'
    BY <1>1, <1>2 DEF AskedByPhase, AwaitedByPhase, CoversAfterRecords
  <2> QED  BY <1>1, <2>1, <2>2
<1>3. CASE TakeError(m)
  <2>1. /\ ~done /\ phase = "initial" /\ phase' = phase
        /\ \/ /\ readMode = "aic" /\ readMode' = "history" /\ pendingTx' = "history"
              /\ eventTimer' = FALSE /\ asked' = [asked EXCEPT !["history"] = @ + 1]
              /\ UNCHANGED <<done, error>>
           \/ /\ error' = "query" /\ done' = TRUE
              /\ UNCHANGED <<eventTimer, readMode, pendingTx, asked>>
    <3>1. ~done /\ m.to \in {"aic", "history"} /\ m.to = pendingTx
      BY <1>3 DEF TakeError, Awaited, IsRoster
    <3>2. phase = "initial"
      BY <3>1 DEF CollectorTypeOK, AwaitedByPhase
    <3> QED  BY <1>3, <3>1, <3>2 DEF TakeError, AskHistory, Send
  <2>2. CollectorTypeOK'
    <3>1. /\ asked' \in [Query -> Nat]
          /\ readMode' \in {"aic", "history"} /\ pendingTx' \in Query \union {"none"}
      BY <2>1 DEF CollectorTypeOK, Query
    <3>2. eventTimer' \in BOOLEAN /\ done' \in BOOLEAN
      BY <2>1 DEF CollectorTypeOK
    <3>3. error' \in {"none", "query", "frame", "closed", "budget"} /\ ~(done' /\ error' = "none")
      BY <2>1 DEF CollectorTypeOK
    <3> QED  BY <1>1, <2>1, <3>1, <3>2, <3>3 DEF CollectorTypeOK
  <2>3. AskedByPhase'
    BY <1>1, <2>1 DEF AskedByPhase, CollectorTypeOK, Query
  <2>4. AwaitedByPhase' /\ CoversAfterRecords'
    BY <1>1, <2>1 DEF AwaitedByPhase, CoversAfterRecords
  <2> QED  BY <1>1, <2>2, <2>3, <2>4
<1> QED  BY <1>2, <1>3 DEF IgnoreReply, IgnoreTableless, controlVars

(* The event rows of a reply become the records.                           *)
LEMMA RecordsKeepCollectorInv ==
  ASSUME CollectorInv, NEW m \in Message, TakeEvents(m) \/ TakeRosterEvents(m)
  PROVE  CollectorInv'
<1> USE CollectorAssumption DEF CollectorAssumption, CollectorInv
<1>1. /\ ~done /\ phase \in {"roster", "initial"} /\ asker # "opening"
      /\ m.to \in {readMode, "roster"} /\ (m.to = "roster" => Events(m))
      /\ rosterReceived' \in BOOLEAN
      /\ asked' = IF phase = "roster" THEN [asked EXCEPT !["aic"] = @ + 1] ELSE asked
  <2>1. CASE TakeEvents(m)
    <3>1. m.to = pendingTx /\ phase = "initial"
      BY <2>1 DEF TakeEvents, Awaited, IsRoster
    <3> QED  BY <2>1, <3>1 DEF TakeEvents, AwaitedByPhase, AskedByPhase, CollectorTypeOK
  <2>2. CASE TakeRosterEvents(m)
    BY <2>2 DEF TakeRosterEvents, RosterEvents, IsRoster, Person, AskedByPhase
  <2> QED  BY <2>1, <2>2
<1>2. /\ TakeFrame(m) /\ TakeEventRows(m) /\ consumer' \in {"waiting", "ended"}
      /\ UNCHANGED <<asker, rosterTx, readMode, images, error, session>>
  BY DEF TakeEvents, TakeRosterEvents, ConsumerLoops
<1>3. pendingTx' = "none" /\ eventTimer' = FALSE /\ source' = m.to /\ phase' = "thumbnails"
  BY <1>2 DEF TakeEventRows
<1>4. PICK covers \in SUBSET Cover : SendCovers(covers, {}, covers # {})
  BY <1>2 DEF TakeEventRows
<1>5. /\ coverQueue' \in SUBSET Cover /\ coverWait' \in SUBSET Cover
      /\ budgetTimer' \in BOOLEAN /\ done' \in BOOLEAN /\ (done => done')
      /\ done' /\ error = "none" => coverQueue' = {} /\ coverWait' = {} /\ ~budgetTimer'
  <2>1. {} \in SUBSET Cover /\ (covers # {}) \in BOOLEAN /\ done \in BOOLEAN
    BY DEF CollectorTypeOK
  <2> QED  BY <1>1, <1>4, <2>1, SendingKeepsCovers
<1>6. replies' \in SUBSET Message /\ m \in replies'
  BY <1>2, TakingKeepsMessages
<1>7. CollectorTypeOK'
  <2>1. asked' \in [Query -> Nat]
    BY <1>1 DEF CollectorTypeOK, Query
  <2>2. source' \in Query \union {"none"}
    BY <1>1, <1>3 DEF CollectorTypeOK, Query
  <2> QED  BY <1>1, <1>2, <1>3, <1>5, <2>1, <2>2 DEF CollectorTypeOK, Query
<1>8. AskedByPhase'
  BY <1>1, <1>2, <1>3 DEF AskedByPhase, CollectorTypeOK, Query
<1>9. AwaitedByPhase'
  BY <1>1, <1>2, <1>3, <1>6 DEF AwaitedByPhase, Events
<1>10. CoversAfterRecords'
  BY <1>1, <1>2, <1>3, <1>5 DEF CoversAfterRecords
<1> QED  BY <1>6, <1>7, <1>8, <1>9, <1>10

(* Files, and the timers of the cover phase.                               *)
LEMMA CoversKeepCollectorInv ==
  ASSUME CollectorInv,
         \/ \E m \in Message : TakeFile(m)
         \/ \E c \in Cover : CoverTimesOut(c)
         \/ CoverBudgetEnds
  PROVE  CollectorInv'
<1> USE CollectorAssumption DEF CollectorAssumption, CollectorInv
<1>1. ASSUME images' \in SUBSET Cover, consumer' \in {"waiting", "ended"},
             replies' \in SUBSET Message, replies \subseteq replies',
             coverQueue' \in SUBSET Cover, coverWait' \in SUBSET Cover,
             budgetTimer' \in BOOLEAN, done' \in BOOLEAN, done => done',
             done' /\ error = "none" => coverQueue' = {} /\ coverWait' = {} /\ ~budgetTimer',
             \/ phase = "thumbnails"
             \/ /\ coverQueue' = {} /\ coverWait' = {} /\ ~budgetTimer'
                /\ \E m \in replies' : m.to \in Cover,
             UNCHANGED <<controlVars, error, session, asked, source>>
      PROVE  CollectorInv'
  <2>1. CollectorTypeOK'
    BY <1>1 DEF CollectorTypeOK, AskedByPhase, controlVars
  <2>2. AskedByPhase' /\ AwaitedByPhase' /\ CoversAfterRecords'
    BY <1>1 DEF AskedByPhase, AwaitedByPhase, CoversAfterRecords, controlVars, Events
  <2> QED  BY <1>1, <2>1, <2>2
<1>2. ASSUME NEW m \in Message, TakeFile(m)
      PROVE  CollectorInv'
  <2>1. /\ m.to \in Cover /\ SendCovers(coverQueue, coverWait \ {m.to}, budgetTimer)
        /\ images' \in SUBSET Cover /\ consumer' \in {"waiting", "ended"}
        /\ UNCHANGED <<controlVars, error, session, asked, source>>
    BY <1>2 DEF TakeFile, ConsumerLoops, CollectorTypeOK
  <2>2. /\ coverQueue' \in SUBSET Cover /\ coverWait' \in SUBSET Cover
        /\ budgetTimer' \in BOOLEAN /\ done' \in BOOLEAN /\ (done => done')
        /\ done' /\ error = "none" => coverQueue' = {} /\ coverWait' = {} /\ ~budgetTimer'
        /\ coverQueue = {} /\ coverWait \ {m.to} = {} =>
             coverQueue' = {} /\ coverWait' = {} /\ ~budgetTimer'
    <3>1. /\ coverQueue \in SUBSET Cover /\ coverWait \ {m.to} \in SUBSET Cover
          /\ budgetTimer \in BOOLEAN /\ done \in BOOLEAN
          /\ done /\ error = "none" => coverQueue = {} /\ coverWait \ {m.to} = {}
      BY DEF CollectorTypeOK
    <3> QED  BY <2>1, <3>1, SendingKeepsCovers
  <2>3. phase # "thumbnails" => coverQueue = {} /\ coverWait \ {m.to} = {}
    BY DEF CoversAfterRecords
  <2>4. replies' \in SUBSET Message /\ replies \subseteq replies' /\ m \in replies'
    BY <1>2, TakingKeepsMessages DEF TakeFile
  <2> QED  BY <1>1, <2>1, <2>2, <2>3, <2>4
<1>3. ASSUME NEW c \in Cover, CoverTimesOut(c)
      PROVE  CollectorInv'
  <2>1. /\ c \in coverWait /\ SendCovers(coverQueue, coverWait \ {c}, budgetTimer)
        /\ UNCHANGED <<controlVars, images, error, consumer, session, replies, asked, source>>
    BY <1>3 DEF CoverTimesOut
  <2>2. phase = "thumbnails"
    BY <2>1 DEF CoversAfterRecords
  <2>3. /\ coverQueue' \in SUBSET Cover /\ coverWait' \in SUBSET Cover
        /\ budgetTimer' \in BOOLEAN /\ done' \in BOOLEAN /\ (done => done')
        /\ done' /\ error = "none" => coverQueue' = {} /\ coverWait' = {} /\ ~budgetTimer'
    <3>1. /\ coverQueue \in SUBSET Cover /\ coverWait \ {c} \in SUBSET Cover
          /\ budgetTimer \in BOOLEAN /\ done \in BOOLEAN
          /\ done /\ error = "none" => coverQueue = {} /\ coverWait \ {c} = {}
      BY DEF CollectorTypeOK
    <3> QED  BY <2>1, <3>1, SendingKeepsCovers
  <2> QED  BY <1>1, <2>1, <2>2, <2>3 DEF CollectorTypeOK
<1>4. CASE CoverBudgetEnds
  <2>1. /\ budgetTimer /\ phase = "thumbnails" /\ FinishCovers
        /\ UNCHANGED <<controlVars, images, error, consumer, session, replies, asked, source>>
    BY <1>4 DEF CoverBudgetEnds, CoversAfterRecords
  <2> QED  BY <1>1, <2>1 DEF FinishCovers, CollectorTypeOK
<1> QED  BY <1>2, <1>3, <1>4

(* Failures and the end of the session.                                    *)
LEMMA EndingKeepsCollectorInv ==
  ASSUME CollectorInv,
         FrameFails \/ ConnectionCloses \/ SessionCloses \/ SessionBudgetEnds \/ SessionEnds
  PROVE  CollectorInv'
<1> USE DEF CollectorInv
<1>1. /\ UNCHANGED <<phase, asker, pendingTx, rosterTx, rosterReceived, readMode, coverQueue,
                     images, replies, asked, source>>
      /\ coverWait' = coverWait \/ coverWait' = {}
      /\ eventTimer' = eventTimer \/ eventTimer' = FALSE
      /\ budgetTimer' = budgetTimer \/ budgetTimer' = FALSE
      /\ consumer' = consumer \/ consumer' \in {"ended", "waiting"}
  BY DEF FrameFails, ConnectionCloses, SessionCloses, SessionBudgetEnds, SessionEnds,
         ConsumerLoops, controlVars, coverVars
<1>2. \/ done' = TRUE /\ error' \in {"frame", "closed"} /\ session' = session
      \/ done' = done /\ error' = "budget" /\ session' = "closing"
      \/ done' = done /\ error' = error /\ session' = "closing" /\ done
      \/ done' = done /\ error' = error /\ session' = "ended" /\ session = "closing"
  BY DEF FrameFails, ConnectionCloses, SessionCloses, SessionBudgetEnds, SessionEnds
<1>3. CollectorTypeOK'
  <2>1. done' \in BOOLEAN /\ eventTimer' \in BOOLEAN /\ budgetTimer' \in BOOLEAN
    BY <1>1, <1>2 DEF CollectorTypeOK
  <2>2. /\ done' /\ error' = "none" => coverQueue' = {} /\ coverWait' = {} /\ ~budgetTimer'
        /\ phase' = "thumbnails" => ~eventTimer'
    BY <1>1, <1>2 DEF CollectorTypeOK
  <2>3. /\ error' \in {"none", "query", "frame", "closed", "budget"}
        /\ session' \in {"running", "closing", "ended"} /\ consumer' \in {"waiting", "ended"}
        /\ coverWait' \in SUBSET Cover
    BY <1>1, <1>2 DEF CollectorTypeOK
  <2> QED  BY <1>1, <2>1, <2>2, <2>3 DEF CollectorTypeOK
<1>4. AskedByPhase' /\ AwaitedByPhase' /\ CoversAfterRecords'
  BY <1>1, <1>2 DEF AskedByPhase, AwaitedByPhase, CoversAfterRecords, CollectorTypeOK
<1> QED  BY <1>1, <1>3, <1>4

LEMMA CollectorStepKeepsCollectorInv ==
  CollectorInv /\ [CollectorNext]_collectorVars => CollectorInv'
<1> SUFFICES ASSUME CollectorInv, [CollectorNext]_collectorVars PROVE CollectorInv'
  OBVIOUS
<1>1. CASE UNCHANGED collectorVars
  BY <1>1 DEF collectorVars, controlVars, coverVars, endVars, CollectorInv, CollectorTypeOK,
              AskedByPhase, AwaitedByPhase, CoversAfterRecords
<1>2. CASE CollectorNext
  BY <1>2, AskingKeepsCollectorInv, RefusalKeepsCollectorInv, RecordsKeepCollectorInv,
     CoversKeepCollectorInv, EndingKeepsCollectorInv DEF CollectorNext, TakeReply
<1> QED  BY <1>1, <1>2

(* The inductive invariant of an evidence session.                         *)
THEOREM CollectorInvariant == CollectorSafety => []CollectorInv
  BY InitEstablishesCollectorInv, CollectorStepKeepsCollectorInv, PTL DEF CollectorSafety

(* The variables keep their types, and a complete collection awaits        *)
(* nothing.                                                                *)
THEOREM CollectorTypesHold == CollectorSafety => []CollectorTypeOK
<1>1. CollectorInv => CollectorTypeOK
  BY DEF CollectorInv
<1> QED  BY <1>1, CollectorInvariant, PTL

(* Whatever races the roster's deadline and the reply timer, the helper    *)
(* sends each query at most once (send_event_initial, send_event_fallback).*)
THEOREM QueriesAreAskedOnce == CollectorSafety => []EachQueryAskedOnce
<1>1. CollectorInv => EachQueryAskedOnce
  BY DEF CollectorInv, AskedByPhase, EachQueryAskedOnce, Query
<1> QED  BY <1>1, CollectorInvariant, PTL

(* A late or repeated answer to the query given up gives no records, a     *)
(* roster reply gives some only with an event table of its own, and a      *)
(* session that ended without an error has read records unless a file was  *)
(* sent to it (add_response, add_thumbnail).                               *)
THEOREM RecordsAreOfTheReportedMode == CollectorSafety => []RecordsMatchReadMode
<1>1. CollectorInv => RecordsMatchReadMode
  BY DEF CollectorInv, CollectorTypeOK, AwaitedByPhase, CoversAfterRecords,
         RecordsMatchReadMode
<1> QED  BY <1>1, CollectorInvariant, PTL

=============================================================================
