--------------------------- MODULE StationProofs ---------------------------
(***************************************************************************)
(* Theorems about StationRequests and PersonRecovery for every set of      *)
(* requests, files, cameras and records and every limit.  First the        *)
(* requests a station's events answer, then the recovery whose reads are   *)
(* such requests: its steps are steps of StationRequests, so it inherits   *)
(* their properties.                                                       *)
(***************************************************************************)
EXTENDS PersonRecovery, SequenceTheorems, FiniteSetTheorems, TLAPS

(* The product's future of a kind is that of a call of the kind; once a    *)
(* pin was checked there is one for good.                                  *)
SlotsNameTheirKind ==
    /\ \A k \in Kind : slot[k] # None => KindOf[slot[k]] = k
    /\ \A r \in Request : KindOf[r] = "pin" /\ call[r] # "idle" => slot["pin"] # None

(* Only pin checks wait for a future that may be another call's.           *)
CallsAwaitTheirOwn == \A r \in Request : KindOf[r] # "pin" => awaits[r] = r

(* A command is with the bridge only after its call began, is acknowledged *)
(* once, and its call does not wait for the answer before.                 *)
CommandsFollowCalls ==
    /\ \A r \in sent : call[r] \in {"asking", "failed"} /\ r \notin unacknowledged
    /\ \A r \in unacknowledged : call[r] # "idle"

(* A download's future is given pictures of its file only, and a call that *)
(* returned took what its future was given.                                *)
SettledByItsFile ==
    \A r \in Request : KindOf[r] = "image" =>
        /\ future[r] = "done" => FileOf[Head(answer[r])[1]] = FileOf[r]
        /\ call[r] = "returned" => future[r] = "done"

(* A good verdict in the newest pin check's future came while every pin    *)
(* check that runs was running: a check that begins later replaces it.     *)
VerdictIsFresh ==
    /\ slot["pin"] # None
    /\ future[slot["pin"]] = "done"
    /\ Head(answer[slot["pin"]])[1] \in GoodPin
    => \A r \in Request : KindOf[r] = "pin" /\ Running(r) => r \in vouched

StationInv ==
    /\ StationTypeOK
    /\ SlotsNameTheirKind
    /\ CallsAwaitTheirOwn
    /\ CommandsFollowCalls
    /\ BusyMeansRunning
    /\ SettledByItsFile
    /\ VerdictIsFresh
    /\ OpensOnFreshVerdict

-----------------------------------------------------------------------------
(* The queue.                                                              *)

(* One event of each name, each of the model's.                            *)
QueueOK ==
    /\ queue \in Seq(Event)
    /\ \A i, j \in DOMAIN queue : queue[i].key = queue[j].key => i = j

LEMMA QueueWithoutIsQueue ==
  ASSUME QueueOK, NEW key
  PROVE  /\ QueueWithout(key) \in Seq(Event)
         /\ \A i \in 1 .. Len(QueueWithout(key)) : QueueWithout(key)[i].key # key
         /\ \A i, j \in 1 .. Len(QueueWithout(key)) :
                QueueWithout(key)[i].key = QueueWithout(key)[j].key => i = j
<1> DEFINE Found == \E i \in DOMAIN queue : queue[i].key = key
           at == CHOOSE i \in DOMAIN queue : queue[i].key = key
           front == SubSeq(queue, 1, at - 1)
           back == SubSeq(queue, at + 1, Len(queue))
<1>1. Len(queue) \in Nat /\ DOMAIN queue = 1 .. Len(queue)
      /\ \A i \in 1 .. Len(queue) : queue[i] \in Event
  BY LenProperties, ElementOfSeq DEF QueueOK
<1>2. CASE ~Found
  BY <1>1, <1>2 DEF QueueOK, QueueWithout
<1>3. CASE Found
  <2>1. at \in 1 .. Len(queue) /\ queue[at].key = key
    BY <1>1, <1>3
  <2>2. QueueWithout(key) = front \o back
    BY <1>3 DEF QueueWithout
  <2> HIDE DEF at
  <2>3. /\ front \in Seq(Event) /\ Len(front) = at - 1
        /\ \A i \in 1 .. at - 1 : front[i] = queue[i]
    <3>1. \A i \in 1 .. at - 1 : queue[i] \in Event
      BY <1>1, <2>1
    <3>2. at - 1 \in Int /\ 1 \in Int
      BY <2>1
    <3>3. /\ front \in Seq(Event)
          /\ Len(front) = IF 1 <= at - 1 THEN (at - 1) - 1 + 1 ELSE 0
          /\ \A i \in 1 .. (at - 1) - 1 + 1 : front[i] = queue[1 + i - 1]
      BY <3>1, <3>2, SubSeqProperties
    <3> QED  BY <2>1, <3>3
  <2>4. /\ back \in Seq(Event) /\ Len(back) = Len(queue) - at
        /\ \A i \in 1 .. Len(queue) - at : back[i] = queue[at + i]
    <3>1. \A i \in at + 1 .. Len(queue) : queue[i] \in Event
      BY <1>1, <2>1
    <3>2. at + 1 \in Int /\ Len(queue) \in Int
      BY <1>1, <2>1
    <3>3. /\ back \in Seq(Event)
          /\ Len(back) = IF at + 1 <= Len(queue) THEN Len(queue) - (at + 1) + 1 ELSE 0
          /\ \A i \in 1 .. Len(queue) - (at + 1) + 1 : back[i] = queue[(at + 1) + i - 1]
      BY <3>1, <3>2, SubSeqProperties
    <3> HIDE DEF back
    <3>4. Len(back) = Len(queue) - at
      <4>1. Len(back) = IF at + 1 <= Len(queue) THEN Len(queue) - (at + 1) + 1 ELSE 0
        BY <3>3
      <4>2. at \in Nat /\ Len(queue) \in Nat /\ at <= Len(queue)
        BY <1>1, <2>1
      <4> QED  BY <4>1, <4>2
    <3>5. Len(queue) - (at + 1) + 1 = Len(queue) - at
      BY <1>1, <2>1
    <3>6. \A i \in 1 .. Len(queue) - at : (at + 1) + i - 1 = at + i
      BY <1>1, <2>1
    <3> QED  BY <3>3, <3>4, <3>5, <3>6
  <2> HIDE DEF front, back
  <2> DEFINE rest == front \o back
  <2>5. /\ rest \in Seq(Event)
        /\ Len(rest) = Len(front) + Len(back)
        /\ \A i \in 1 .. Len(front) + Len(back) : rest[i] =
              IF i <= Len(front) THEN front[i] ELSE back[i - Len(front)]
    BY <2>3, <2>4, ConcatProperties
  <2> HIDE DEF rest
  <2>6. Len(rest) = Len(queue) - 1
    BY <1>1, <2>1, <2>3, <2>4, <2>5
  <2>7. \A i \in 1 .. Len(rest) : i < at => rest[i] = queue[i]
    BY <1>1, <2>1, <2>3, <2>4, <2>5, <2>6
  <2>8. \A i \in 1 .. Len(rest) : ~(i < at) => rest[i] = queue[i + 1]
    <3> SUFFICES ASSUME NEW i \in 1 .. Len(rest), ~(i < at) PROVE rest[i] = queue[i + 1]
      OBVIOUS
    <3>1. rest[i] = back[i - (at - 1)]
      BY <1>1, <2>1, <2>3, <2>4, <2>5, <2>6
    <3>2. i - (at - 1) \in 1 .. Len(queue) - at /\ at + (i - (at - 1)) = i + 1
      BY <1>1, <2>1, <2>6
    <3>3. back[i - (at - 1)] = queue[at + (i - (at - 1))]
      BY <2>4, <3>2
    <3> QED  BY <3>1, <3>2, <3>3
  <2>9. \A i \in 1 .. Len(rest) : rest[i].key # key
    BY <1>1, <2>1, <2>6, <2>7, <2>8 DEF QueueOK
  <2>10. \A i, j \in 1 .. Len(rest) : rest[i].key = rest[j].key => i = j
    <3> SUFFICES ASSUME NEW i \in 1 .. Len(rest), NEW j \in 1 .. Len(rest),
                        rest[i].key = rest[j].key
                 PROVE  i = j
      OBVIOUS
    <3> DEFINE was(n) == IF n < at THEN n ELSE n + 1
    <3>1. /\ was(i) \in DOMAIN queue /\ rest[i] = queue[was(i)]
          /\ was(j) \in DOMAIN queue /\ rest[j] = queue[was(j)]
      BY <1>1, <2>1, <2>6, <2>7, <2>8
    <3>2. was(i) = was(j)
      <4> HIDE DEF was
      <4> QED  BY <3>1 DEF QueueOK
    <3> QED  BY <2>1, <2>6, <3>2
  <2>11. QueueWithout(key) = rest
    BY <2>2 DEF rest
  <2> QED  BY <2>5, <2>9, <2>10, <2>11
<1> QED  BY <1>2, <1>3

(* Queuing an event keeps one event of each name.                          *)
LEMMA EnqueueKeepsQueue ==
  ASSUME QueueOK, NEW key \in Kind \union {"video"}, NEW by \in Request \union Other,
         NEW number \in 0 .. Chunks, Enqueue(key, by, number)
  PROVE  QueueOK'
<1> DEFINE rest == QueueWithout(key)
           event == [key |-> key, by |-> by, number |-> number]
<1>1. /\ rest \in Seq(Event)
      /\ \A i \in 1 .. Len(rest) : rest[i].key # key
      /\ \A i, j \in 1 .. Len(rest) : rest[i].key = rest[j].key => i = j
  BY QueueWithoutIsQueue
<1>2. event \in Event /\ event.key = key
  BY DEF Event
<1>3. queue' = Append(rest, event)
  BY DEF Enqueue
<1> HIDE DEF rest, event
<1>4. /\ queue' \in Seq(Event)
      /\ Len(queue') = Len(rest) + 1 /\ Len(rest) \in Nat
      /\ \A i \in 1 .. Len(rest) : queue'[i] = rest[i]
      /\ queue'[Len(rest) + 1] = event
  BY <1>1, <1>2, <1>3, AppendProperties, LenProperties
<1>5. DOMAIN queue' = 1 .. Len(rest) + 1
  BY <1>4, LenProperties
<1>6. \A i \in DOMAIN queue' : i = Len(rest) + 1 \/ i \in 1 .. Len(rest)
  BY <1>4, <1>5
<1>7. \A i, j \in DOMAIN queue' : queue'[i].key = queue'[j].key => i = j
  BY <1>1, <1>2, <1>4, <1>6
<1> QED  BY <1>4, <1>7 DEF QueueOK

(* Taking the oldest leaves the others.                                    *)
LEMMA TailKeepsQueue ==
  ASSUME QueueOK, queue # <<>>, queue' = Tail(queue)
  PROVE  QueueOK' /\ Head(queue) \in Event
<1>1. /\ Head(queue) \in Event /\ Tail(queue) \in Seq(Event)
      /\ Len(Tail(queue)) = Len(queue) - 1
      /\ \A i \in 1 .. Len(Tail(queue)) : Tail(queue)[i] = queue[i + 1]
  BY HeadTailProperties DEF QueueOK
<1>2. Len(queue) \in Nat /\ DOMAIN queue = 1 .. Len(queue)
      /\ DOMAIN Tail(queue) = 1 .. Len(Tail(queue))
  BY <1>1, LenProperties DEF QueueOK
<1> QED  BY <1>1, <1>2 DEF QueueOK

-----------------------------------------------------------------------------
(* StationInv is inductive.                                                *)

LEMMA NoVideo == <<>> \in Seq(Part) /\ Len(<<>>) <= MaxChunks
  BY EmptySeq, StationRequestsAssumption DEF StationRequestsAssumption

LEMMA InitEstablishesStationInv == StationInit => StationInv
<1> SUFFICES ASSUME StationInit PROVE StationInv
  OBVIOUS
<1> USE StationRequestsAssumption DEF StationRequestsAssumption, StationInit
<1>1. StationTypeOK
  <2>1. /\ answer \in [Request -> Seq(Part)] /\ video \in Seq(Part) /\ queue \in Seq(Event)
        /\ Len(video) = 0 /\ \A r \in Request : Len(answer[r]) = 0
        /\ queue = <<>>
    BY EmptySeq
  <2>2. DOMAIN queue = {}
    BY <2>1, LenProperties
  <2> QED  BY <2>1, <2>2 DEF StationTypeOK
<1>2. SlotsNameTheirKind /\ CallsAwaitTheirOwn /\ CommandsFollowCalls
  BY DEF SlotsNameTheirKind, CallsAwaitTheirOwn, CommandsFollowCalls
<1>3. BusyMeansRunning /\ SettledByItsFile /\ VerdictIsFresh /\ OpensOnFreshVerdict
  BY DEF BusyMeansRunning, Running, SettledByItsFile, VerdictIsFresh, OpensOnFreshVerdict,
         Kind, QueryKind
<1> QED  BY <1>1, <1>2, <1>3 DEF StationInv

LEMMA BeginKeepsStationInv ==
  ASSUME StationInv, NEW r \in Request, Begin(r)
  PROVE  StationInv'
<1> USE StationRequestsAssumption DEF StationRequestsAssumption, StationInv
<1>1. KindOf[r] \in Kind /\ None \notin Request /\ "pin" \in Kind
      /\ \A s \in Request : KindOf[s] \in Kind
  BY DEF Kind
<1>2. CASE Busy(r)
  <2>1. /\ call[r] = "idle" /\ call' = [call EXCEPT ![r] = "refused"] /\ KindOf[r] # "pin"
        /\ UNCHANGED <<slot, future, answer, awaits, video, opened, sent, unacknowledged, working,
                       part, queue, worker, vouched>>
    BY <1>2 DEF Begin, Busy
  <2>2. StationTypeOK'
    BY <2>1 DEF StationTypeOK
  <2>3. \A s \in Request : Running(s)' <=> Running(s)
    BY <2>1 DEF Running, StationTypeOK
  <2>4. SlotsNameTheirKind' /\ CallsAwaitTheirOwn' /\ CommandsFollowCalls'
    BY <2>1 DEF SlotsNameTheirKind, CallsAwaitTheirOwn, CommandsFollowCalls, StationTypeOK
  <2>5. BusyMeansRunning' /\ SettledByItsFile' /\ VerdictIsFresh' /\ OpensOnFreshVerdict'
    BY <2>1, <2>3 DEF BusyMeansRunning, SettledByItsFile, VerdictIsFresh,
                      OpensOnFreshVerdict, StationTypeOK
  <2> QED  BY <2>2, <2>4, <2>5
<1>3. CASE ~Busy(r)
  <2>1. /\ call[r] = "idle" /\ call' = [call EXCEPT ![r] = "asking"]
        /\ slot' = [slot EXCEPT ![KindOf[r]] = r]
        /\ future' = [future EXCEPT ![r] = "pending"]
        /\ video' \in {video, <<>>}
        /\ sent' = sent \union {r}
        /\ UNCHANGED <<answer, awaits, opened, unacknowledged, working, part, queue, worker,
                       vouched>>
        /\ KindOf[r] # "pin" => slot[KindOf[r]] = None
    BY <1>3 DEF Begin, Busy, Install
  <2>2. StationTypeOK'
    <3>1. video' \in Seq(Part) /\ Len(video') <= MaxChunks
      BY <2>1, NoVideo DEF StationTypeOK
    <3> QED  BY <1>1, <2>1, <3>1 DEF StationTypeOK
  <2>3. Running(r)' /\ ~Running(r)
        /\ \A s \in Request \ {r} : Running(s)' <=> Running(s)
    BY <2>1 DEF Running, StationTypeOK
  <2>4. SlotsNameTheirKind' /\ CallsAwaitTheirOwn'
    BY <1>1, <2>1 DEF SlotsNameTheirKind, CallsAwaitTheirOwn, StationTypeOK
  <2>5. CommandsFollowCalls'
    BY <2>1 DEF CommandsFollowCalls, StationTypeOK
  <2>6. BusyMeansRunning'
    BY <1>1, <2>1, <2>3 DEF BusyMeansRunning, StationTypeOK
  <2>7. SettledByItsFile'
    BY <2>1 DEF SettledByItsFile, StationTypeOK
  <2>8. VerdictIsFresh'
    BY <1>1, <2>1, <2>3 DEF VerdictIsFresh, StationTypeOK
  <2>9. OpensOnFreshVerdict'
    BY <2>1 DEF OpensOnFreshVerdict
  <2> QED  BY <2>2, <2>4, <2>5, <2>6, <2>7, <2>8, <2>9
<1> QED  BY <1>2, <1>3

LEMMA AcknowledgeKeepsStationInv ==
  ASSUME StationInv, NEW r \in Request, Acknowledge(r)
  PROVE  StationInv'
<1> USE StationRequestsAssumption DEF StationRequestsAssumption, StationInv
<1>1. KindOf[r] \in Kind
  BY DEF Kind
<1>2. CASE call[r] = "asking"
  <2>1. /\ r \in unacknowledged /\ unacknowledged' = unacknowledged \ {r}
        /\ call' = [call EXCEPT ![r] = "waiting"]
        /\ awaits' = [awaits EXCEPT ![r] = slot[KindOf[r]]]
        /\ UNCHANGED <<slot, future, answer, video, opened, sent, working, part, queue, worker,
                       vouched>>
    BY <1>2 DEF Acknowledge
  <2>2. \A s \in Request : Running(s)' <=> Running(s)
    BY <1>2, <2>1 DEF Running, StationTypeOK
  <2>3. slot[KindOf[r]] \in Request /\ (KindOf[r] # "pin" => slot[KindOf[r]] = r)
    BY <1>1, <1>2 DEF BusyMeansRunning, Running, SlotsNameTheirKind, StationTypeOK
  <2>4. StationTypeOK'
    BY <2>1, <2>3 DEF StationTypeOK
  <2>5. SlotsNameTheirKind' /\ CallsAwaitTheirOwn' /\ CommandsFollowCalls'
    BY <1>2, <2>1, <2>3 DEF SlotsNameTheirKind, CallsAwaitTheirOwn, CommandsFollowCalls,
                            StationTypeOK
  <2>6. BusyMeansRunning' /\ SettledByItsFile' /\ VerdictIsFresh' /\ OpensOnFreshVerdict'
    BY <2>1, <2>2 DEF BusyMeansRunning, SettledByItsFile, VerdictIsFresh,
                      OpensOnFreshVerdict, StationTypeOK
  <2> QED  BY <2>4, <2>5, <2>6
<1>3. CASE call[r] # "asking"
  <2>1. /\ unacknowledged' = unacknowledged \ {r}
        /\ UNCHANGED <<callVars, sent, working, part, queue, worker, vouched>>
    BY <1>3 DEF Acknowledge, callVars
  <2> QED
    BY <2>1 DEF callVars, StationTypeOK, SlotsNameTheirKind, CallsAwaitTheirOwn,
                CommandsFollowCalls, BusyMeansRunning, Running, SettledByItsFile, VerdictIsFresh,
                OpensOnFreshVerdict
<1> QED  BY <1>2, <1>3

(* However a running call ends, it gives up its kind's future.             *)
LEMMA EndingKeepsStationInv ==
  ASSUME StationInv, NEW r \in Request, Running(r), Release(r),
         NEW end \in {"returned", "failed"}, call' = [call EXCEPT ![r] = end],
         future' \in [Request -> {"none", "pending", "done", "cancelled", "raised"}],
         \A s \in Request : future'[s] = "done" <=> future[s] = "done",
         KindOf[r] = "image" /\ end = "returned" => future[r] = "done",
         opened' \subseteq vouched, sent' \subseteq sent, r \in sent' => end = "failed",
         UNCHANGED <<answer, awaits, unacknowledged, working, part, queue, worker, vouched>>
  PROVE  StationInv'
<1> USE StationRequestsAssumption DEF StationRequestsAssumption, StationInv
<1>1. KindOf[r] \in Kind /\ None \notin Request /\ "pin" \in Kind
      /\ \A s \in Request : KindOf[s] \in Kind
  BY DEF Kind
<1>2. slot' = IF KindOf[r] = "pin" THEN slot ELSE [slot EXCEPT ![KindOf[r]] = None]
  BY DEF Release
<1>3. ~Running(r)' /\ \A s \in Request \ {r} : Running(s)' <=> Running(s)
  BY DEF Running, StationTypeOK
<1>4. StationTypeOK'
  <2>1. video' \in Seq(Part) /\ Len(video') <= MaxChunks
    BY NoVideo DEF Release, StationTypeOK
  <2> QED  BY <1>1, <1>2, <2>1 DEF StationTypeOK
<1>5. SlotsNameTheirKind' /\ CallsAwaitTheirOwn'
  BY <1>1, <1>2 DEF SlotsNameTheirKind, CallsAwaitTheirOwn, Running, StationTypeOK
<1>6. CommandsFollowCalls'
  BY DEF CommandsFollowCalls, StationTypeOK
<1>7. BusyMeansRunning'
  BY <1>1, <1>2, <1>3 DEF BusyMeansRunning, StationTypeOK
<1>8. SettledByItsFile'
  BY DEF SettledByItsFile, StationTypeOK
<1>9. VerdictIsFresh'
  BY <1>1, <1>2, <1>3 DEF VerdictIsFresh, StationTypeOK
<1>10. OpensOnFreshVerdict'
  BY DEF OpensOnFreshVerdict
<1> QED  BY <1>4, <1>5, <1>6, <1>7, <1>8, <1>9, <1>10

LEMMA GiveUpKeepsStationInv ==
  ASSUME StationInv, NEW r \in Request, GiveUp(r)
  PROVE  StationInv'
<1>1. /\ Running(r) /\ Release(r) /\ call' = [call EXCEPT ![r] = "failed"]
      /\ UNCHANGED <<answer, awaits, sent, unacknowledged, working, part, queue, worker, opened,
                     vouched>>
  BY DEF GiveUp, Fail, bridgeVars
<1>2. /\ future' \in [Request -> {"none", "pending", "done", "cancelled", "raised"}]
      /\ \A s \in Request : future'[s] = "done" <=> future[s] = "done"
  BY DEF GiveUp, StationInv, StationTypeOK
<1>3. opened' \subseteq vouched
  BY <1>1 DEF StationInv, OpensOnFreshVerdict
<1> QED  BY <1>1, <1>2, <1>3, EndingKeepsStationInv

LEMMA BridgeRefusesKeepsStationInv ==
  ASSUME StationInv, NEW r \in Request, BridgeRefuses(r)
  PROVE  StationInv'
<1>1. CASE call[r] = "asking"
  <2>1. /\ Running(r) /\ Release(r) /\ call' = [call EXCEPT ![r] = "failed"]
        /\ future' = future /\ sent' \subseteq sent
        /\ UNCHANGED <<answer, awaits, unacknowledged, working, part, queue, worker, opened,
                       vouched>>
    BY <1>1 DEF BridgeRefuses, Fail, Running
  <2>2. opened' \subseteq vouched
    BY <2>1 DEF StationInv, OpensOnFreshVerdict
  <2>3. future' \in [Request -> {"none", "pending", "done", "cancelled", "raised"}]
    BY <2>1 DEF StationInv, StationTypeOK
  <2> QED  BY <2>1, <2>2, <2>3, EndingKeepsStationInv
<1>2. CASE call[r] # "asking"
  <2>1. /\ sent' = sent \ {r}
        /\ UNCHANGED <<callVars, unacknowledged, working, part, queue, worker, vouched>>
    BY <1>2 DEF BridgeRefuses, callVars
  <2> QED
    BY <2>1 DEF callVars, StationInv, StationTypeOK, SlotsNameTheirKind, CallsAwaitTheirOwn,
                CommandsFollowCalls, BusyMeansRunning, Running, SettledByItsFile, VerdictIsFresh,
                OpensOnFreshVerdict
<1> QED  BY <1>1, <1>2

LEMMA ResumeKeepsStationInv ==
  ASSUME StationInv, NEW r \in Request, Resume(r)
  PROVE  StationInv'
<1>1. PICK end \in {"returned", "failed"} :
        /\ call' = [call EXCEPT ![r] = end]
        /\ end = "returned" => future[awaits[r]] = "done"
        /\ opened' \in {opened, opened \union {r}}
        /\ opened' # opened => KindOf[r] = "pin" /\ Verdict(r)
  <2>1. CASE future[awaits[r]] # "done" \/ (KindOf[r] = "pin" /\ future[slot["pin"]] # "done")
    BY <2>1 DEF Resume, Fail
  <2>2. CASE ~(future[awaits[r]] # "done" \/ (KindOf[r] = "pin" /\ future[slot["pin"]] # "done"))
    <3>1. /\ call' = [call EXCEPT ![r] = "returned"]
          /\ opened' = IF KindOf[r] = "pin" /\ Verdict(r) THEN opened \union {r} ELSE opened
      BY <2>2 DEF Resume
    <3> QED  BY <2>2, <3>1
  <2> QED  BY <2>1, <2>2
<1>2. /\ Running(r) /\ Release(r) /\ call[r] = "waiting"
      /\ UNCHANGED <<future, answer, awaits, sent, unacknowledged, working, part, queue, worker,
                     vouched>>
  BY DEF Resume, Fail, Running, bridgeVars
<1>3. KindOf[r] = "image" /\ end = "returned" => future[r] = "done"
  BY <1>1 DEF StationInv, CallsAwaitTheirOwn
<1>4. opened' \subseteq vouched
  <2>1. KindOf[r] = "pin" => slot["pin"] # None
    BY <1>2 DEF StationInv, SlotsNameTheirKind
  <2>2. opened' # opened => r \in vouched
    BY <1>1, <1>2, <2>1 DEF StationInv, VerdictIsFresh, Verdict
  <2> QED  BY <1>1, <2>2 DEF StationInv, OpensOnFreshVerdict
<1>5. r \notin sent
  BY <1>2 DEF StationInv, CommandsFollowCalls
<1>6. future' \in [Request -> {"none", "pending", "done", "cancelled", "raised"}]
  BY <1>2 DEF StationInv, StationTypeOK
<1> QED  BY <1>1, <1>2, <1>3, <1>4, <1>5, <1>6, EndingKeepsStationInv

(* The bridge and the stations change what is under way and the queue.     *)
LEMMA BridgeKeepsStationInv ==
  ASSUME StationInv,
         \/ \E r \in Request : BridgeAccepts(r) \/ StationReplies(r) \/ CameraSends(r)
         \/ \E o \in Other : OtherReplies(o)
  PROVE  StationInv'
<1> USE StationRequestsAssumption DEF StationRequestsAssumption
<1>1. StationInv => QueueOK
  BY DEF StationInv, StationTypeOK, QueueOK
<1>2. ASSUME UNCHANGED <<callVars, worker, vouched>>, QueueOK',
             working' \subseteq Request \union Other, part' \in [Request -> 0 .. Chunks + 1],
             UNCHANGED <<sent, unacknowledged>>
             \/ \E r \in sent : /\ sent' = sent \ {r}
                                /\ unacknowledged' = unacknowledged \union {r}
      PROVE  StationInv'
  <2>1. StationTypeOK' /\ CommandsFollowCalls'
    BY <1>2 DEF StationInv, callVars, StationTypeOK, CommandsFollowCalls, QueueOK
  <2>2. /\ SlotsNameTheirKind' /\ CallsAwaitTheirOwn' /\ BusyMeansRunning' /\ SettledByItsFile'
        /\ VerdictIsFresh' /\ OpensOnFreshVerdict'
    BY <1>2 DEF StationInv, callVars, SlotsNameTheirKind, CallsAwaitTheirOwn, BusyMeansRunning,
                Running, SettledByItsFile, VerdictIsFresh, OpensOnFreshVerdict
  <2> QED  BY <2>1, <2>2 DEF StationInv
<1>3. ASSUME NEW r \in Request, BridgeAccepts(r)
      PROVE  StationInv'
  <2>1. QueueOK'
    BY <1>1, <1>3 DEF BridgeAccepts, QueueOK
  <2>2. working' \subseteq Request \union Other /\ part' \in [Request -> 0 .. Chunks + 1]
    BY <1>3 DEF BridgeAccepts, StationInv, StationTypeOK
  <2> QED  BY <1>2, <1>3, <2>1, <2>2 DEF BridgeAccepts
<1>4. ASSUME NEW r \in Request, StationReplies(r)
      PROVE  StationInv'
  <2>1. KindOf[r] \in Kind /\ 0 \in 0 .. Chunks
    BY DEF Kind
  <2>2. QueueOK'
    BY <1>1, <1>4, <2>1, EnqueueKeepsQueue DEF StationReplies
  <2>3. working' \subseteq Request \union Other /\ part' \in [Request -> 0 .. Chunks + 1]
    BY <1>4 DEF StationReplies, StationInv, StationTypeOK
  <2> QED  BY <1>2, <1>4, <2>2, <2>3 DEF StationReplies
<1>5. ASSUME NEW r \in Request, CameraSends(r)
      PROVE  StationInv'
  <2>1. part[r] \in 0 .. Chunks + 1 /\ part[r] <= Chunks /\ "recording" \in Kind
    BY <1>5 DEF CameraSends, StationInv, StationTypeOK, Kind
  <2>2. QueueOK' /\ working' \subseteq Request \union Other
    <3>1. CASE part[r] < Chunks
      <4>1. Enqueue("video", r, part[r] + 1) /\ working' = working
        BY <1>5, <3>1 DEF CameraSends
      <4>2. part[r] + 1 \in 0 .. Chunks
        BY <2>1, <3>1
      <4> QED  BY <1>1, <4>1, <4>2, EnqueueKeepsQueue DEF StationInv, StationTypeOK
    <3>2. CASE ~(part[r] < Chunks)
      <4>1. Enqueue("recording", r, 0) /\ working' = working \ {r} /\ 0 \in 0 .. Chunks
        BY <1>5, <3>2 DEF CameraSends
      <4> QED  BY <1>1, <2>1, <4>1, EnqueueKeepsQueue DEF StationInv, StationTypeOK
    <3> QED  BY <3>1, <3>2
  <2>3. part' \in [Request -> 0 .. Chunks + 1]
    BY <1>5, <2>1 DEF CameraSends, StationInv, StationTypeOK
  <2> QED  BY <1>2, <1>5, <2>2, <2>3 DEF CameraSends
<1>6. ASSUME NEW o \in Other, OtherReplies(o)
      PROVE  StationInv'
  <2>1. KindOf[o] \in Kind /\ 0 \in 0 .. Chunks
    BY DEF Kind
  <2>2. QueueOK'
    BY <1>1, <1>6, <2>1, EnqueueKeepsQueue DEF OtherReplies
  <2>3. working' \subseteq Request \union Other /\ part' \in [Request -> 0 .. Chunks + 1]
    BY <1>6 DEF OtherReplies, StationInv, StationTypeOK
  <2> QED  BY <1>2, <1>6, <2>2, <2>3 DEF OtherReplies
<1> QED  BY <1>3, <1>4, <1>5, <1>6

(* A value handed to the future of a kind, or none handed to any.          *)
Hands(kind, value) == Waits(kind) /\ Settle(kind, value)

(* Handling an event settles at most one future, that of the event's kind  *)
(* while it is pending, and touches no call.                               *)
LEMMA SettlingKeepsStationInv ==
  ASSUME StationInv, NEW kind \in Kind, NEW value \in Seq(Part), Len(value) <= MaxChunks + 1,
         Hands(kind, value), QueueOK', worker' \in BOOLEAN, video' = video,
         kind = "image" => FileOf[Head(value)[1]] = FileOf[slot["image"]],
         IF kind = "pin" /\ Head(value)[1] \in GoodPin
         THEN vouched' = vouched \union {r \in Request : KindOf[r] = "pin" /\ Running(r)}
         ELSE vouched' = vouched,
         UNCHANGED <<slot, awaits, call, bridgeVars, opened>>
  PROVE  StationInv'
<1> USE StationRequestsAssumption DEF StationRequestsAssumption, StationInv
<1> DEFINE r == slot[kind]
<1>1. r \in Request /\ KindOf[r] = kind /\ future[r] = "pending"
  BY DEF Hands, Waits, SlotsNameTheirKind, StationTypeOK
<1>2. future' = [future EXCEPT ![r] = "done"] /\ answer' = [answer EXCEPT ![r] = value]
  BY DEF Hands, Settle
<1>3. "pin" \in Kind /\ "image" \in Kind
  BY DEF Kind
<1>4. StationTypeOK'
  BY <1>1, <1>2 DEF StationTypeOK, QueueOK, bridgeVars
<1>5. SlotsNameTheirKind' /\ CallsAwaitTheirOwn' /\ CommandsFollowCalls' /\ BusyMeansRunning'
  BY DEF SlotsNameTheirKind, CallsAwaitTheirOwn, CommandsFollowCalls, BusyMeansRunning, Running,
         bridgeVars
<1>6. SettledByItsFile'
  BY <1>1, <1>2, <1>3 DEF SettledByItsFile, StationTypeOK
<1>7. VerdictIsFresh'
  <2>1. CASE kind = "pin"
    BY <1>1, <1>2, <2>1 DEF VerdictIsFresh, Running, StationTypeOK
  <2>2. CASE kind # "pin"
    BY <1>1, <1>2, <1>3, <2>2 DEF VerdictIsFresh, SlotsNameTheirKind, Running, StationTypeOK
  <2> QED  BY <2>1, <2>2
<1>8. OpensOnFreshVerdict'
  BY DEF OpensOnFreshVerdict
<1> QED  BY <1>4, <1>5, <1>6, <1>7, <1>8

(* Handling that settles no call with a value.                             *)
LEMMA IgnoringKeepsStationInv ==
  ASSUME StationInv, QueueOK', worker' \in BOOLEAN,
         video' \in Seq(Part), Len(video') <= MaxChunks,
         future' \in [Request -> {"none", "pending", "done", "cancelled", "raised"}],
         \A s \in Request : future'[s] = "done" <=> future[s] = "done",
         vouched \subseteq vouched', vouched' \subseteq Request,
         UNCHANGED <<answer, slot, awaits, call, bridgeVars, opened>>
  PROVE  StationInv'
<1> USE DEF StationInv
<1>1. StationTypeOK' /\ SlotsNameTheirKind' /\ CallsAwaitTheirOwn' /\ CommandsFollowCalls'
  BY DEF StationTypeOK, SlotsNameTheirKind, CallsAwaitTheirOwn, CommandsFollowCalls, QueueOK,
         bridgeVars
<1>2. BusyMeansRunning' /\ SettledByItsFile' /\ OpensOnFreshVerdict'
  BY DEF BusyMeansRunning, Running, SettledByItsFile, OpensOnFreshVerdict
<1>3. VerdictIsFresh'
  <2>1. "pin" \in Kind
    BY DEF Kind
  <2> QED  BY <2>1 DEF VerdictIsFresh, Running, StationTypeOK
<1> QED  BY <1>1, <1>2, <1>3

(* The future of a kind, when an event finds it pending.                   *)
LEMMA WaitingSlot ==
  ASSUME StationInv, NEW kind \in Kind, Waits(kind)
  PROVE  slot[kind] \in Request /\ future[slot[kind]] = "pending"
  BY DEF Waits, StationInv, StationTypeOK

LEMMA HandleEventKeepsStationInv ==
  ASSUME StationInv, HandleEvent
  PROVE  StationInv'
<1> USE StationRequestsAssumption DEF StationRequestsAssumption
<1> DEFINE event == Head(queue)
           value == <<<<event.by, event.number>>>>
<1>1. QueueOK' /\ event \in Event
      /\ UNCHANGED <<slot, awaits, call, bridgeVars, opened>>
  <2>1. QueueOK
    BY DEF StationInv, StationTypeOK, QueueOK
  <2> QED  BY <2>1, TailKeepsQueue DEF HandleEvent
<1>2. /\ value \in Seq(Part) /\ Len(value) = 1 /\ Head(value)[1] = event.by
      /\ <<event.by, event.number>> \in Part
  BY <1>1 DEF Event, Part
<1>3. /\ worker \in BOOLEAN /\ video \in Seq(Part) /\ Len(video) <= MaxChunks
      /\ Len(video) \in Nat
      /\ future \in [Request -> {"none", "pending", "done", "cancelled", "raised"}]
      /\ vouched \subseteq Request
  BY LenProperties DEF StationInv, StationTypeOK
<1>4. HandleReply(event) \/ HandleChunk(event) \/ HandleFinished(event)
      \/ HandlePinVerified(event)
  BY DEF HandleEvent
<1> HIDE DEF event, value
<1>5. CASE HandleReply(event)
  <2>1. event.key \in Kind /\ event.key # "pin"
    BY <1>5 DEF HandleReply, Kind, QueryKind
  <2>2. CASE SettlesRequest(event)
    <3>1. /\ Settle(event.key, value) /\ UNCHANGED <<video, worker, vouched>>
          /\ Waits(event.key)
          /\ event.key = "image" => FileOf[event.by] = FileOf[slot["image"]]
      BY <1>5, <2>2 DEF HandleReply, SettlesRequest, NamesItsFile, value
    <3>2. Hands(event.key, value)
      BY <3>1 DEF Hands
    <3>3. /\ Len(value) <= MaxChunks + 1 /\ worker' \in BOOLEAN
          /\ event.key = "image" => FileOf[Head(value)[1]] = FileOf[slot["image"]]
          /\ IF event.key = "pin" /\ Head(value)[1] \in GoodPin
             THEN vouched' = vouched \union {r \in Request : KindOf[r] = "pin" /\ Running(r)}
             ELSE vouched' = vouched
      BY <1>2, <1>3, <2>1, <3>1
    <3> QED  BY <1>1, <1>2, <2>1, <3>1, <3>2, <3>3, SettlingKeepsStationInv
  <2>3. CASE ~SettlesRequest(event)
    <3>1. UNCHANGED <<future, answer, video, worker, vouched>>
      BY <1>5, <2>3 DEF HandleReply
    <3> QED  BY <1>1, <1>3, <3>1, IgnoringKeepsStationInv
  <2> QED  BY <2>2, <2>3
<1>6. CASE HandleChunk(event)
  <2>1. /\ video' \in Seq(Part) /\ Len(video') <= MaxChunks
        /\ future' \in [Request -> {"none", "pending", "done", "cancelled", "raised"}]
        /\ \A s \in Request : future'[s] = "done" <=> future[s] = "done"
    <3>1. CASE ~Waits("recording")
      BY <1>3, <1>6, <3>1 DEF HandleChunk
    <3>2. CASE Waits("recording") /\ Len(video) >= MaxChunks
      <4>1. future' = [future EXCEPT ![slot["recording"]] = "raised"] /\ video' = video
        BY <1>6, <3>2 DEF HandleChunk
      <4>2. slot["recording"] \in Request /\ future[slot["recording"]] = "pending"
        BY <3>2, WaitingSlot DEF Kind
      <4> QED  BY <1>3, <4>1, <4>2
    <3>3. CASE Waits("recording") /\ ~(Len(video) >= MaxChunks)
      <4>1. video' = Append(video, <<event.by, event.number>>) /\ future' = future
        BY <1>6, <3>3 DEF HandleChunk
      <4>2. video' \in Seq(Part) /\ Len(video') = Len(video) + 1
        BY <1>2, <1>3, <4>1, AppendProperties
      <4> QED  BY <1>3, <3>3, <4>1, <4>2
    <3> QED  BY <3>1, <3>2, <3>3
  <2>2. UNCHANGED <<answer, worker, vouched>>
    BY <1>6 DEF HandleChunk
  <2> QED  BY <1>1, <1>3, <2>1, <2>2, IgnoringKeepsStationInv
<1>7. CASE HandleFinished(event)
  <2>1. CASE Waits("recording")
    <3>1. Hands("recording", video) /\ UNCHANGED <<video, worker, vouched>>
      BY <1>7, <2>1 DEF HandleFinished, Hands
    <3>2. "recording" \in Kind /\ Len(video) <= MaxChunks + 1
      BY <1>3 DEF Kind
    <3> QED  BY <1>1, <1>3, <3>1, <3>2, SettlingKeepsStationInv
  <2>2. CASE ~Waits("recording")
    <3>1. UNCHANGED <<future, answer, video, worker, vouched>>
      BY <1>7, <2>2 DEF HandleFinished
    <3> QED  BY <1>1, <1>3, <3>1, IgnoringKeepsStationInv
  <2> QED  BY <2>1, <2>2
<1>8. CASE HandlePinVerified(event)
  <2>1. /\ vouched' = IF event.by \in GoodPin
                      THEN vouched \union {r \in Request : KindOf[r] = "pin" /\ Running(r)}
                      ELSE vouched
        /\ video' = video
    BY <1>8 DEF HandlePinVerified
  <2>2. CASE Waits("pin")
    <3>1. Hands("pin", value) /\ worker' = worker
      BY <1>8, <2>2 DEF HandlePinVerified, Hands, value
    <3>2. "pin" \in Kind
      BY DEF Kind
    <3>3. /\ Len(value) <= MaxChunks + 1 /\ worker' \in BOOLEAN
          /\ "pin" = "image" => FileOf[Head(value)[1]] = FileOf[slot["image"]]
          /\ IF "pin" = "pin" /\ Head(value)[1] \in GoodPin
             THEN vouched' = vouched \union {r \in Request : KindOf[r] = "pin" /\ Running(r)}
             ELSE vouched' = vouched
      BY <1>2, <1>3, <2>1, <3>1
    <3> QED  BY <1>1, <1>2, <2>1, <3>1, <3>2, <3>3, SettlingKeepsStationInv
  <2>3. CASE ~Waits("pin")
    <3>1. worker' = FALSE /\ UNCHANGED <<future, answer>>
      BY <1>8, <2>3 DEF HandlePinVerified
    <3>2. vouched \subseteq vouched' /\ vouched' \subseteq Request
      BY <1>3, <2>1
    <3> QED  BY <1>1, <1>3, <2>1, <3>1, <3>2, IgnoringKeepsStationInv
  <2> QED  BY <2>2, <2>3
<1> QED  BY <1>4, <1>5, <1>6, <1>7, <1>8

LEMMA StationStepKeepsStationInv == StationInv /\ [StationNext]_stationVars => StationInv'
<1> SUFFICES ASSUME StationInv, [StationNext]_stationVars PROVE StationInv'
  OBVIOUS
<1>1. CASE UNCHANGED stationVars
  BY <1>1 DEF stationVars, callVars, bridgeVars, StationInv, StationTypeOK, SlotsNameTheirKind,
              CallsAwaitTheirOwn, CommandsFollowCalls, BusyMeansRunning, Running,
              SettledByItsFile, VerdictIsFresh, OpensOnFreshVerdict
<1>2. CASE StationNext
  BY <1>2, BeginKeepsStationInv, AcknowledgeKeepsStationInv, GiveUpKeepsStationInv,
     ResumeKeepsStationInv, BridgeRefusesKeepsStationInv, BridgeKeepsStationInv,
     HandleEventKeepsStationInv DEF StationNext
<1> QED  BY <1>1, <1>2

(* The inductive invariant holds of every behaviour of the station         *)
(* requests (product.py, eufy_security_api/camera.py).                     *)
THEOREM StationInvariant == StationSpec => []StationInv
  BY InitEstablishesStationInv, StationStepKeepsStationInv, PTL DEF StationSpec

(* The variables keep their types: in particular no recording in memory    *)
(* exceeds its limit and no two events of a name are queued.               *)
THEOREM StationTypesHold == StationSpec => []StationTypeOK
<1>1. StationInv => StationTypeOK
  BY DEF StationInv
<1> QED  BY <1>1, StationInvariant, PTL

(* A kind of request that is refused as already running is that of a call  *)
(* that runs, whichever way calls end, time out or are refused.            *)
THEOREM BusyIsRunning == StationSpec => []BusyMeansRunning
<1>1. StationInv => BusyMeansRunning
  BY DEF StationInv
<1> QED  BY <1>1, StationInvariant, PTL

(* A download returns a picture of the file it named, whatever image       *)
(* events are late or meant for somebody else.                             *)
THEOREM DownloadsOwnFile == StationSpec => []ImageIsOfItsFile
<1>1. StationInv => ImageIsOfItsFile
  BY DEF StationInv, SettledByItsFile, ImageIsOfItsFile
<1> QED  BY <1>1, StationInvariant, PTL

(* A safe is opened only by a pin check during which the safe approved a   *)
(* code, however many checks replace one another.                          *)
THEOREM SafeOpensOnFreshVerdict == StationSpec => []OpensOnFreshVerdict
<1>1. StationInv => OpensOnFreshVerdict
  BY DEF StationInv
<1> QED  BY <1>1, StationInvariant, PTL

-----------------------------------------------------------------------------
(* PersonRecovery.                                                         *)

Shown == {p.record : p \in Members(pulses)}

(* The records remembered are those shown: none is forgotten, since        *)
(* MaxSeen is no less than the records young enough to be shown.           *)
SeenAreShown == Members(seen) = Shown /\ Len(seen) = Len(pulses)

RecoveryInv ==
    /\ StationInv
    /\ RecoveryTypeOK
    /\ RecordPulsesItsCameraOnce
    /\ SeenAreShown

(* Whatever the recovery does to a station's requests is a step of         *)
(* StationRequests.                                                        *)
LEMMA RecoveryStepIsStationStep ==
  RecoveryNext => StationNext \/ UNCHANGED stationVars
<1> SUFFICES ASSUME RecoveryNext PROVE StationNext \/ UNCHANGED stationVars
  OBVIOUS
<1>1. Read \subseteq Request
  BY RecoveryAssumption DEF RecoveryAssumption
<1>2. ASSUME NEW r \in Read, ReadStep(r)
      PROVE  Begin(r) \/ GiveUp(r) \/ Resume(r) \/ BridgeRefuses(r)
  BY <1>2 DEF ReadStep, ReadBegins, ReadGivenUp, ReadRefused, ReadReturns
<1>3. ASSUME NEW r \in Request \ Read, OtherCallStep(r)
      PROVE  Begin(r) \/ GiveUp(r) \/ Resume(r) \/ BridgeRefuses(r)
  BY <1>3 DEF OtherCallStep
<1>4. StationStep => StationNext
  BY DEF StationStep, StationNext
<1>5. (\E camera \in Camera : MotionRises(camera) \/ MinutePasses(camera)) \/ CameraSkipped
      \/ (\E record \in Record : PulseEnds(record))
      => UNCHANGED stationVars
  BY DEF MotionRises, MinutePasses, CameraSkipped, PulseEnds
<1> QED  BY <1>1, <1>2, <1>3, <1>4, <1>5 DEF RecoveryNext, StationNext

(* The recovery's behaviours are behaviours of the station requests its    *)
(* reads share with everybody else's (coordinator.py, product.py).         *)
THEOREM RecoveryImplementsStation == RecoverySpec => StationSpec
<1>1. RecoveryInit => StationInit
  BY DEF RecoveryInit
<1>2. [RecoveryNext]_vars => [StationNext]_stationVars
  BY RecoveryStepIsStationStep DEF vars, stationVars
<1> QED  BY <1>1, <1>2, PTL DEF RecoverySpec, StationSpec

(* ... and so keep their properties.                                       *)
THEOREM RecoveryKeepsStationProperties ==
  RecoverySpec => [](BusyMeansRunning /\ ImageIsOfItsFile /\ OpensOnFreshVerdict)
<1>1. StationInv => BusyMeansRunning /\ ImageIsOfItsFile /\ OpensOnFreshVerdict
  BY DEF StationInv, SettledByItsFile, ImageIsOfItsFile
<1> QED  BY <1>1, StationInvariant, RecoveryImplementsStation, PTL

LEMMA TakeNextTypes ==
  ASSUME NEW waiting \in Seq(Camera), TakeNext(waiting)
  PROVE  /\ popped' \in Camera \union {None}
         /\ pending' \in Seq(Camera) /\ Len(pending') <= Len(waiting)
<1>1. Len(waiting) \in Nat
  BY LenProperties
<1>2. CASE waiting = <<>>
  BY <1>2 DEF TakeNext
<1>3. CASE waiting # <<>>
  <2>1. popped' = Head(waiting) /\ pending' = Tail(waiting)
    BY <1>3 DEF TakeNext
  <2> QED  BY <1>1, <1>3, <2>1, HeadTailProperties
<1> QED  BY <1>2, <1>3

LEMMA InitEstablishesRecoveryInv == RecoveryInit => RecoveryInv
<1> SUFFICES ASSUME RecoveryInit PROVE RecoveryInv
  OBVIOUS
<1> USE RecoveryAssumption DEF RecoveryAssumption, RecoveryInit
<1>1. StationInv
  BY InitEstablishesStationInv
<1>2. /\ pending \in Seq(Camera) /\ seen \in Seq(Record) /\ Len(seen) = 0 /\ Len(pending) = 0
      /\ pulses \in Seq([camera : Camera, record : Record]) /\ Len(pulses) = 0
      /\ DOMAIN pulses = {} /\ DOMAIN seen = {}
  BY EmptySeq, LenProperties
<1>3. \A r \in Read : Running(r) <=> reading = r
  BY StationRequestsAssumption DEF StationRequestsAssumption, StationInit, Running
<1>4. RecoveryTypeOK
  BY <1>1, <1>2, <1>3 DEF StationInv, RecoveryTypeOK
<1>5. Members(pulses) = {} /\ Members(seen) = {} /\ Shown = {}
  BY <1>2 DEF Members, Shown
<1>6. RecordPulsesItsCameraOnce
  BY <1>2, <1>5, FS_EmptySet DEF RecordPulsesItsCameraOnce, Shown
<1>7. SeenAreShown
  BY <1>2, <1>5 DEF SeenAreShown
<1> QED  BY <1>1, <1>4, <1>6, <1>7 DEF RecoveryInv

LEMMA MembersOfAppend ==
  ASSUME NEW S, NEW s \in Seq(S), NEW e \in S
  PROVE  /\ Members(s) \subseteq S
         /\ Members(Append(s, e)) = Members(s) \union {e}
         /\ Append(s, e) \in Seq(S) /\ Len(Append(s, e)) = Len(s) + 1
<1> DEFINE t == Append(s, e)
<1>1. Len(s) \in Nat /\ DOMAIN s = 1 .. Len(s) /\ \A i \in 1 .. Len(s) : s[i] \in S
  BY LenProperties, ElementOfSeq
<1>2. /\ t \in Seq(S) /\ Len(t) = Len(s) + 1
      /\ \A i \in 1 .. Len(s) : t[i] = s[i]
      /\ t[Len(s) + 1] = e
  BY AppendProperties
<1> HIDE DEF t
<1>3. DOMAIN t = 1 .. Len(s) + 1
  BY <1>2, LenProperties
<1>4. Members(t) = Members(s) \union {e}
  <2>1. ASSUME NEW i \in DOMAIN t PROVE t[i] \in Members(s) \union {e}
    <3>1. i = Len(s) + 1 \/ i \in 1 .. Len(s)
      BY <1>1, <1>3
    <3> QED  BY <1>1, <1>2, <3>1 DEF Members
  <2>2. \A i \in DOMAIN s : i \in DOMAIN t /\ t[i] = s[i]
    BY <1>1, <1>2, <1>3
  <2>3. Len(s) + 1 \in DOMAIN t
    BY <1>1, <1>3
  <2> QED  BY <1>2, <2>1, <2>2, <2>3 DEF Members
<1> QED  BY <1>1, <1>2, <1>4 DEF Members, t

(* A pulse shows a record never shown before; all that were are still      *)
(* remembered.                                                             *)
LEMMA PulseShowsNewRecord ==
  ASSUME RecoveryInv, NEW record \in Record, Qualifies(record), Pulse(record)
  PROVE  /\ seen' \in Seq(Record) /\ Len(seen') <= MaxSeen
         /\ resets' \subseteq Record
         /\ pulses' \in Seq([camera : Camera, record : Record])
         /\ RecordPulsesItsCameraOnce' /\ SeenAreShown'
<1> USE RecoveryAssumption DEF RecoveryAssumption
<1> DEFINE pulse == [camera |-> popped, record |-> record]
<1>1. pulse \in [camera : Camera, record : Record] /\ pulse.record = record
      /\ pulse.camera = CameraOf[record]
  BY DEF Qualifies, OwnRecord
<1>2. /\ seen \in Seq(Record) /\ Len(seen) \in Nat
      /\ pulses \in Seq([camera : Camera, record : Record]) /\ Len(pulses) \in Nat
      /\ Len(seen) = Len(pulses) /\ Members(seen) = Shown /\ resets \subseteq Record
  BY LenProperties DEF RecoveryInv, RecoveryTypeOK, SeenAreShown
<1>3. record \notin Shown
  BY <1>2 DEF Qualifies, NewRecord
<1>4. pulses' = Append(pulses, pulse) /\ resets' = resets \union {record}
  BY DEF Pulse
<1> HIDE DEF pulse
<1>5. /\ pulses' \in Seq([camera : Camera, record : Record])
      /\ Members(pulses) \subseteq [camera : Camera, record : Record]
      /\ Members(pulses') = Members(pulses) \union {pulse}
      /\ Len(pulses') = Len(pulses) + 1
  <2> DEFINE P == [camera : Camera, record : Record]
  <2>1. pulse \in P /\ pulses \in Seq(P) /\ pulses' = Append(pulses, pulse)
    BY <1>1, <1>2, <1>4
  <2>2. /\ pulses' \in Seq(P) /\ Members(pulses) \subseteq P
        /\ Members(pulses') = Members(pulses) \union {pulse}
        /\ Len(pulses') = Len(pulses) + 1
    <3> HIDE DEF P
    <3> QED  BY <2>1, MembersOfAppend
  <2> QED  BY <2>2
<1>6. Shown' = Shown \union {record}
  BY <1>1, <1>5 DEF Shown
<1>7. Shown \subseteq Record /\ IsFiniteSet(Shown) /\ Cardinality(Shown) = Len(pulses)
  <2>1. Shown \subseteq Record
    BY <1>5 DEF Shown
  <2> QED  BY <2>1, FS_Subset DEF Shown, RecoveryInv, RecordPulsesItsCameraOnce
<1>8. Cardinality(Shown') = Len(pulses) + 1
  BY <1>2, <1>3, <1>6, <1>7, FS_AddElement
<1>9. Len(pulses) + 1 <= MaxSeen
  <2>1. Shown' \subseteq Record
    BY <1>6, <1>7
  <2>2. Cardinality(Shown') <= Cardinality(Record) /\ Cardinality(Record) \in Nat
    BY <2>1, FS_Subset, FS_CardinalityType
  <2> QED  BY <1>2, <1>8, <2>2
<1>10. /\ Append(seen, record) \in Seq(Record)
       /\ Len(Append(seen, record)) = Len(pulses) + 1
       /\ Members(Append(seen, record)) = Members(seen) \union {record}
  BY <1>2, MembersOfAppend
<1>11. seen' = Append(seen, record)
  BY <1>2, <1>9, <1>10 DEF Pulse, Remember
<1>12. SeenAreShown'
  <2>1. Members(seen)' = Members(seen') /\ Len(seen') = Len(pulses')
    BY <1>5, <1>10, <1>11 DEF Members
  <2> QED  BY <1>2, <1>6, <1>10, <1>11, <2>1 DEF SeenAreShown
<1>13. RecordPulsesItsCameraOnce'
  <2>1. \A p \in Members(pulses)' : p.camera = CameraOf[p.record]
    BY <1>1, <1>5 DEF RecoveryInv, RecordPulsesItsCameraOnce, Members
  <2> QED  BY <1>5, <1>8, <2>1 DEF RecordPulsesItsCameraOnce, Shown
<1> QED  BY <1>2, <1>4, <1>5, <1>9, <1>10, <1>11, <1>12, <1>13

(* Steps that take the recovery's variables along.                         *)
LEMMA RecoveryStepKeepsRecoveryInv ==
  RecoveryInv /\ [RecoveryNext]_vars => RecoveryInv'
<1> SUFFICES ASSUME RecoveryInv, [RecoveryNext]_vars PROVE RecoveryInv'
  OBVIOUS
<1> USE RecoveryAssumption DEF RecoveryAssumption
<1>1. StationInv'
  BY RecoveryStepIsStationStep, StationStepKeepsStationInv DEF RecoveryInv, vars, stationVars
<1>2. /\ pending \in Seq(Camera) /\ Len(pending) \in Nat /\ Len(pending) <= MaxPending
      /\ popped \in Camera \union {None} /\ reading \in Read \union {None}
      /\ recent \subseteq Camera /\ None \notin Read
      /\ \A r \in Read : Running(r) <=> reading = r
      /\ call \in [Request -> {"idle", "asking", "waiting", "returned", "failed", "refused"}]
  <2>1. None \notin Read
    BY StationRequestsAssumption DEF StationRequestsAssumption
  <2>2. Len(pending) \in Nat
    BY LenProperties DEF RecoveryInv, RecoveryTypeOK
  <2> QED  BY <2>1, <2>2 DEF RecoveryInv, RecoveryTypeOK, StationTypeOK
\* what is left to show, in three parts: the loop, its read and its pulses
<1> DEFINE LoopOK == /\ pending \in Seq(Camera) /\ Len(pending) <= MaxPending
                     /\ popped \in Camera \union {None} /\ recent \subseteq Camera
           ReadOK == /\ reading \in Read \union {None}
                     /\ \A r \in Read : Running(r) <=> reading = r
           PulsesOK == /\ seen \in Seq(Record) /\ Len(seen) <= MaxSeen /\ resets \subseteq Record
                       /\ pulses \in Seq([camera : Camera, record : Record])
                       /\ RecordPulsesItsCameraOnce /\ SeenAreShown
<1>3. LoopOK /\ ReadOK /\ PulsesOK
  BY DEF RecoveryInv, RecoveryTypeOK
<1>4. LoopOK' /\ ReadOK' /\ PulsesOK' => RecoveryInv'
  BY <1>1 DEF RecoveryInv, RecoveryTypeOK, StationInv
<1>5. UNCHANGED <<seen, pulses>> /\ resets' \subseteq resets => PulsesOK'
  <2> SUFFICES ASSUME UNCHANGED <<seen, pulses>>, resets' \subseteq resets PROVE PulsesOK'
    OBVIOUS
  <2>1. Members(seen)' = Members(seen) /\ Members(pulses)' = Members(pulses)
    BY DEF Members
  <2>2. Shown' = Shown
    BY <2>1 DEF Shown
  <2>3. RecordPulsesItsCameraOnce' /\ SeenAreShown'
    BY <1>3, <2>1, <2>2 DEF RecordPulsesItsCameraOnce, SeenAreShown
  <2> QED  BY <1>3, <2>3
<1>6. UNCHANGED <<recent, pending, popped>> => LoopOK'
  BY <1>3
<1>7. GoesOn => LoopOK' /\ reading' = None
  <2> SUFFICES ASSUME GoesOn PROVE LoopOK' /\ reading' = None
    OBVIOUS
  <2>1. TakeNext(pending) /\ recent' = recent /\ reading' = None
    BY DEF GoesOn
  <2>2. /\ popped' \in Camera \union {None} /\ pending' \in Seq(Camera)
        /\ Len(pending') <= Len(pending)
    BY <1>2, <2>1, TakeNextTypes
  <2>3. Len(pending') \in Nat
    BY <2>2, LenProperties
  <2> QED  BY <1>2, <2>1, <2>2, <2>3
<1>8. ASSUME NEW r \in Request, NEW state, call' = [call EXCEPT ![r] = state]
      PROVE  \A s \in Read \ {r} : Running(s)' <=> Running(s)
  BY <1>2, <1>8 DEF Running
<1>9. call' = call => \A s \in Read : Running(s)' <=> Running(s)
  BY DEF Running
<1>10. ASSUME NEW r \in Read, ReadStep(r)
       PROVE  RecoveryInv'
  <2> HIDE DEF PulsesOK
  <2>1. CASE ReadBegins(r)
    <3>1. /\ reading = None /\ call[r] = "idle" /\ PulsesOK'
          /\ Busy(r) => GoesOn /\ call' = [call EXCEPT ![r] = "refused"]
          /\ ~Busy(r) => /\ call' = [call EXCEPT ![r] = "asking"] /\ reading' = r
                        /\ UNCHANGED <<recent, pending, popped>>
      BY <1>5, <2>1 DEF ReadBegins, Pausing, Begin, NoPulse
    <3>2. \A s \in Read : ~Running(s)
      BY <1>2, <3>1
    <3>3. CASE Busy(r)
      BY <1>2, <1>4, <1>7, <1>8, <3>1, <3>2, <3>3 DEF Running
    <3>4. CASE ~Busy(r)
      <4>1. Running(r)' /\ \A s \in Read \ {r} : ~Running(s)'
        BY <1>2, <1>8, <3>1, <3>2, <3>4 DEF Running
      <4> QED  BY <1>4, <1>6, <3>1, <3>4, <4>1
    <3> QED  BY <3>3, <3>4
  <2>2. CASE ReadGivenUp(r) \/ ReadReturns(r)
    <3>1. /\ Running(r) /\ GoesOn
          /\ \E end \in {"returned", "failed"} : call' = [call EXCEPT ![r] = end]
      BY <2>2 DEF ReadGivenUp, ReadReturns, GiveUp, Resume, Fail, Running
    <3>2. reading = r /\ \A s \in Read \ {r} : ~Running(s)
      BY <1>2, <3>1
    <3>3. ReadOK' /\ LoopOK'
      <4>1. \A s \in Read \ {r} : ~Running(s)'
        BY <1>8, <3>1, <3>2
      <4>2. ~Running(r)'
        BY <1>2, <3>1 DEF Running
      <4> QED  BY <1>2, <1>7, <3>1, <4>1, <4>2
    <3>4. PulsesOK'
      <4>1. CASE NoPulse
        BY <1>5, <4>1 DEF NoPulse
      <4>2. CASE \E record \in Answered(r) : Qualifies(record) /\ Pulse(record)
        BY <4>2, PulseShowsNewRecord DEF Answered, PulsesOK
      <4> QED  BY <2>2, <4>1, <4>2 DEF ReadGivenUp, ReadReturns
    <3> QED  BY <1>4, <3>3, <3>4
  <2>3. CASE ReadRefused(r)
    <3>1. r \in sent /\ BridgeRefuses(r) /\ PulsesOK' /\ call[r] \in {"asking", "failed"}
      BY <1>5, <2>3 DEF ReadRefused, NoPulse, BridgeRefuses, RecoveryInv, StationInv,
                        CommandsFollowCalls
    <3>2. CASE reading = r
      <4>1. Running(r) /\ \A s \in Read \ {r} : ~Running(s)
        BY <1>2, <3>2
      <4>2. call' = [call EXCEPT ![r] = "failed"]
        BY <3>1, <4>1 DEF BridgeRefuses, Fail, Running
      <4>3. \A s \in Read : ~Running(s)'
        BY <1>2, <1>8, <4>1, <4>2 DEF Running
      <4>4. popped' = None /\ reading' = None /\ UNCHANGED <<recent, pending>>
        BY <2>3, <3>2 DEF ReadRefused
      <4> QED  BY <1>2, <1>4, <3>1, <4>3, <4>4
    <3>3. CASE reading # r
      <4>1. call' = call
        BY <1>2, <3>1, <3>3 DEF BridgeRefuses, Running
      <4>2. UNCHANGED <<recent, pending, popped, reading>>
        BY <2>3, <3>3 DEF ReadRefused
      <4> QED  BY <1>2, <1>4, <1>6, <1>9, <3>1, <4>1, <4>2
    <3> QED  BY <3>2, <3>3
  <2> QED  BY <1>10, <2>1, <2>2, <2>3 DEF ReadStep
<1>11. ASSUME UNCHANGED recoveryVars, \A s \in Read : Running(s)' <=> Running(s)
       PROVE  RecoveryInv'
  <2>1. UNCHANGED <<recent, pending, popped, reading, seen, resets, pulses>>
    BY <1>11 DEF recoveryVars
  <2> QED  BY <1>2, <1>4, <1>5, <1>6, <1>11, <2>1
<1>12. ASSUME NEW r \in Request \ Read, OtherCallStep(r)
       PROVE  RecoveryInv'
  <2>1. call' = call \/ \E end \in {"asking", "returned", "failed", "refused"} :
                            call' = [call EXCEPT ![r] = end]
    BY <1>12 DEF OtherCallStep, Begin, GiveUp, Resume, Fail, BridgeRefuses
  <2>2. \A s \in Read : Running(s)' <=> Running(s)
    BY <1>8, <1>9, <2>1
  <2> QED  BY <1>11, <1>12, <2>2 DEF OtherCallStep
<1>13. ASSUME StationStep
       PROVE  RecoveryInv'
  <2>1. ASSUME NEW r \in Request, Acknowledge(r)
        PROVE  \A s \in Read : Running(s)' <=> Running(s)
    BY <1>2, <2>1 DEF Acknowledge, Running
  <2>2. (\E r \in Request : BridgeAccepts(r) \/ StationReplies(r) \/ CameraSends(r))
        \/ (\E o \in Other : OtherReplies(o)) \/ HandleEvent
        => call' = call
    BY DEF BridgeAccepts, StationReplies, CameraSends, OtherReplies, HandleEvent, callVars
  <2> QED  BY <1>9, <1>11, <1>13, <2>1, <2>2 DEF StationStep
<1>14. ASSUME NEW camera \in Camera, MotionRises(camera)
       PROVE  RecoveryInv'
  <2>1. call' = call /\ UNCHANGED <<reading, seen, resets, pulses>>
        /\ recent' = recent \union {camera} /\ Len(pending) < MaxPending
    BY <1>14 DEF MotionRises, stationVars, callVars
  <2>2. /\ Enqueued(camera) \in Seq(Camera) /\ Len(Enqueued(camera)) <= MaxPending
        /\ Len(Enqueued(camera)) \in Nat
    BY <1>2, <2>1, AppendProperties DEF Enqueued
  <2>3. LoopOK'
    <3>1. CASE popped = None
      <4>1. TakeNext(Enqueued(camera))
        BY <1>14, <3>1 DEF MotionRises
      <4>2. /\ popped' \in Camera \union {None} /\ pending' \in Seq(Camera)
            /\ Len(pending') <= Len(Enqueued(camera))
        BY <2>2, <4>1, TakeNextTypes
      <4>3. Len(pending') \in Nat
        BY <4>2, LenProperties
      <4> QED  BY <1>2, <2>1, <2>2, <4>2, <4>3
    <3>2. CASE popped # None
      BY <1>2, <1>14, <2>1, <2>2, <3>2 DEF MotionRises
    <3> QED  BY <3>1, <3>2
  <2> QED  BY <1>2, <1>4, <1>5, <1>9, <2>1, <2>3
<1>15. ASSUME \/ \E camera \in Camera : MinutePasses(camera)
              \/ \E record \in Record : PulseEnds(record)
       PROVE  RecoveryInv'
  <2>1. /\ call' = call /\ UNCHANGED <<reading, seen, pulses, pending, popped>>
        /\ recent' \subseteq recent /\ resets' \subseteq resets
    BY <1>15 DEF MinutePasses, PulseEnds, stationVars, callVars
  <2> QED  BY <1>2, <1>4, <1>5, <1>9, <2>1
<1>16. CASE CameraSkipped
  <2>1. /\ call' = call /\ GoesOn /\ UNCHANGED <<seen, resets, pulses>> /\ reading = None
    BY <1>16 DEF CameraSkipped, Pausing, NoPulse, stationVars, callVars
  <2> QED  BY <1>2, <1>4, <1>5, <1>7, <1>9, <2>1
<1>17. CASE UNCHANGED vars
  BY <1>9, <1>11, <1>17 DEF vars, stationVars, callVars
<1> QED
  BY <1>10, <1>12, <1>13, <1>14, <1>15, <1>16, <1>17 DEF RecoveryNext

(* The inductive invariant of the recovery.                                *)
THEOREM RecoveryInvariant == RecoverySpec => []RecoveryInv
  BY InitEstablishesRecoveryInv, RecoveryStepKeepsRecoveryInv, PTL DEF RecoverySpec

(* The variables keep their types, and the recovery reads one record set   *)
(* at a time: a read of its that runs is the one its task awaits.          *)
THEOREM RecoveryTypesHold == RecoverySpec => []RecoveryTypeOK
<1>1. RecoveryInv => RecoveryTypeOK
  BY DEF RecoveryInv
<1> QED  BY <1>1, RecoveryInvariant, PTL

(* A record pulses its own camera, and once, whoever's answer settled the  *)
(* read it was found in (coordinator.py's _recover_record_people).         *)
THEOREM PulsesAreOwnAndOnce == RecoverySpec => []RecordPulsesItsCameraOnce
<1>1. RecoveryInv => RecordPulsesItsCameraOnce
  BY DEF RecoveryInv
<1> QED  BY <1>1, RecoveryInvariant, PTL

=============================================================================
