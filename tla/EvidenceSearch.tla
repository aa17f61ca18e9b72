--------------------------- MODULE EvidenceSearch ---------------------------
(***************************************************************************)
(* EufySecurityDataUpdateCoordinator.search_evidence (coordinator.py) with *)
(* the normalisation and joining of evidence.py: the rows of the account   *)
(* index, of the HomeBase Pro's AIC view and of a HomeBase's own database, *)
(* read by several searches at once, merged into one newest-first list,    *)
(* and the bounded table of raw rows that the media requests look up.      *)
(* The AIC query of a Pro is served by a helper process of the bridge      *)
(* (station.ts of the vendored client), one at a time for each station: it *)
(* ends by itself or is killed after 60 seconds, whether or not the query  *)
(* it was started for is still awaited.                                    *)
(*                                                                         *)
(* A row stands for one description of one recording.  It keeps what the   *)
(* search and the snapshot refresh tell apart: whether it names its camera *)
(* by serial or by channel, the label it carries, its start (0 is none),   *)
(* whether it holds a record id and an image of its own.  An id stands for *)
(* event_id, a digest of the row's source and identity.  The inventory is  *)
(* loaded and the bridge available: without them a search returns nothing  *)
(* but a warning.                                                          *)
(***************************************************************************)
EXTENDS Naturals, SequencesExt, FiniteSetsExt

CONSTANTS
    Search,           \* searches that may run at the same time
    Station,
    Pro,              \* stations of model T9000
    Aic, Local,       \* stations that advertise the AIC and the local query
    Camera,
    Home,             \* camera -> its station
    Slot,             \* camera -> its channel at that station
    Name,             \* camera -> its current name
    Rows,             \* the rows of all the indexes and the Pro's latest updates
    RecordCap,        \* rows kept for media requests (2000 in the code)
    MaxResults,       \* rows of a result
    MaxSearches,      \* bound: searches of a behaviour
    None

ASSUME EvidenceAssumption ==
    /\ Pro \union Aic \union Local \subseteq Station
    /\ Home \in [Camera -> Station]
    /\ {RecordCap, MaxResults} \subseteq Nat \ {0} /\ MaxSearches \in Nat
    /\ IsFiniteSet(Station) /\ IsFiniteSet(Rows) /\ None \notin Search
    /\ \A row \in Rows :
          /\ row = [id |-> row.id, source |-> row.source, camera |-> row.camera,
                    start |-> row.start, label |-> row.label, known |-> row.known,
                    named |-> row.named, thumb |-> row.thumb, latest |-> None]
          /\ {row.id, row.start} \subseteq Nat /\ row.id # None
          /\ row.source \in {"cloud", "aic", "local", "update"}
          /\ row.camera \in Camera /\ row.known \subseteq {"serial", "slot"}
          /\ {row.named, row.thumb} \subseteq BOOLEAN
    /\ \A row, other \in Rows : row.id = other.id =>      \* the digest covers the start
          row.start = other.start /\ (row.source = other.source => row = other)

VARIABLES
    search,           \* per search: where it is, its rows, its result
    task,             \* per search and station: query_station
    proLock,          \* _pro_evidence_lock is held
    helper,           \* per Pro: the search its running helper was started for
    answer,           \* per Pro: a helper's answer is on its way to the client
    records,          \* _evidence_records, oldest first
    begun             \* history: searches begun

proVars == <<proLock, helper, answer>>
searchVars == <<search, task, proVars, records, begun>>

Source == {"hybrid", "cloud", "latest", "local"}
RowsOf(source, station) ==
    {row \in Rows : row.source = source /\ Home[row.camera] = station}

-----------------------------------------------------------------------------
(* Rows, evidence.py.                                                      *)

Conflicts(row, update) == row.named /\ update.named /\ row.id # update.id

SameCamera(row, update) ==
    /\ row.camera = update.camera
    /\ \/ {"serial"} \subseteq row.known \intersect update.known
       \/ "serial" \notin row.known /\ {"slot"} \subseteq row.known \intersect update.known

(* join_aic_event_data: the newest update of the row's camera, unless its  *)
(* record id says that it is another recording's.                          *)
LatestUpdate(row, updates) ==
    LET fits == {u \in updates : /\ ~Conflicts(row, u)
                                 /\ (row.named /\ u.named) \/ SameCamera(row, u)}
    IN  IF fits = {} THEN None ELSE CHOOSE u \in fits : TRUE

(* The only camera of the station at the row's channel is its camera.      *)
Matched(row) ==
    \/ "serial" \in row.known
    \/ /\ "slot" \in row.known
       /\ \A c \in Camera : Home[c] = Home[row.camera] /\ Slot[c] = Slot[row.camera]
                                => c = row.camera

(* A joined AIC row: with the camera's current name when it was matched.   *)
Joined(row, updates) ==
    [row EXCEPT !.source = "aic", !.latest = LatestUpdate(row, updates),
                !.label = IF Matched(row) THEN Name[row.camera] ELSE row.label,
                !.known = IF Matched(row) THEN row.known \union {"serial"} ELSE row.known]

(* Without a record_list the latest updates are the recordings.            *)
JoinAicEventData(histories, updates) ==
    {Joined(row, updates) : row \in IF histories = {} THEN updates ELSE histories}

HasThumbnail(row) == row.thumb \/ (row.latest # None /\ row.latest.thumb)

AnyUpdateIsTheRecord(row) == row.latest # None              \* defect

(* same_record of aic_thumbnail_sources; equal paths at equal times are    *)
(* the row's own image.                                                    *)
UpdateIsTheRecord(row) ==
    /\ row.latest # None
    /\ row.named /\ row.latest.named
    /\ row.latest.id = row.id

(* evidence_thumbnail: the id of the recording whose image is returned.    *)
ImageOf(row) ==
    IF row.thumb THEN row.id
    ELSE IF UpdateIsTheRecord(row) /\ row.latest.thumb THEN row.latest.id
    ELSE None

(* The elements of S by a strict total order.                              *)
Ordered(S, Before(_, _)) ==
    [n \in 1 .. Cardinality(S) |->
        CHOOSE x \in S : Cardinality({y \in S : Before(y, x)}) = n - 1]

NewestFirst(rows) ==
    Ordered(rows, LAMBDA x, y : x.start > y.start \/ (x.start = y.start /\ x.id > y.id))

RememberWithin(kept, row) ==                               \* defect: the cap is off by one
    LET known == {i \in DOMAIN kept : kept[i].id = row.id} # {}
    IN  IF known THEN kept
        ELSE IF Len(kept) > RecordCap THEN Append(Tail(kept), row) ELSE Append(kept, row)

(* _remember_evidence: a dict, so a known id keeps its place; the oldest   *)
(* places are dropped.                                                     *)
Remember(kept, row) ==
    LET at == {i \in DOMAIN kept : kept[i].id = row.id}
        with == IF at = {} THEN Append(kept, row) ELSE [kept EXCEPT ![Min(at)] = row]
    IN  IF Len(with) > RecordCap THEN Tail(with) ELSE with

RememberAll(rows) == records' = FoldLeft(Remember, records, rows)

(* _evidence: the retained row of an event, or KeyError.                   *)
Retained(id) == \E i \in DOMAIN records : records[i].id = id
RetainedRow(id) == records[CHOOSE i \in DOMAIN records : records[i].id = id]

-----------------------------------------------------------------------------
(* Merging, coordinator.py and event_merge_key.                            *)

MergeKey(row) == <<row.label, row.start>>

Priority(source) ==                                        \* 0: account and hybrid
    IF source = "aic" THEN 2 ELSE IF source = "local" THEN 1 ELSE 0

EventOf(row) == [row |-> row, source |-> row.source, thumb |-> HasThumbnail(row)]

MergeFirstWins(merged, row) ==                             \* defect
    IF \E i \in DOMAIN merged : MergeKey(merged[i].row) = MergeKey(row)
    THEN merged ELSE Append(merged, EventOf(row))

(* The better source's row stays, becomes "hybrid" and gains the flags.    *)
MergeRow(merged, row) ==
    LET same == {i \in DOMAIN merged : MergeKey(merged[i].row) = MergeKey(row)}
        current == merged[Min(same)]
        wins == Priority(row.source) > Priority(current.source)
    IN  IF same = {} THEN Append(merged, EventOf(row))
        ELSE [merged EXCEPT ![Min(same)] =
                 [row |-> IF wins THEN row ELSE current.row, source |-> "hybrid",
                  thumb |-> current.thumb \/ HasThumbnail(row)]]

(* A stable sort by start, newest first, cut to the requested length.      *)
MergedEvents(rows) ==
    LET merged == FoldLeft(LAMBDA m, row : MergeRow(m, row), <<>>, rows)
        start(i) == merged[i].row.start
        order == Ordered(DOMAIN merged,
                    LAMBDA i, j : start(i) > start(j) \/ (start(i) = start(j) /\ i < j))
        sorted == [n \in DOMAIN order |-> merged[order[n]]]
    IN  SubSeq(sorted, 1, Min({MaxResults, Len(sorted)}))

-----------------------------------------------------------------------------
(* Searches.                                                               *)

NoTask == [at |-> "none", step |-> "none", rows |-> <<>>, warned |-> FALSE]
Idle == [at |-> "idle", source |-> "none", events |-> <<>>, warned |-> {}, result |-> <<>>]

SearchInit ==
    /\ search = [w \in Search |-> Idle]
    /\ task = [w \in Search |-> [s \in Station |-> NoTask]]
    /\ proLock = FALSE
    /\ helper = [s \in Pro |-> None]
    /\ answer = [s \in Pro |-> FALSE]
    /\ records = <<>>
    /\ begun = 0

(* What query_station does when the AIC view was not used or has failed:   *)
(* "latest" never reads a HomeBase's own database, and a Pro has none.     *)
AfterAic(source, s, warned) ==
    IF source # "latest" /\ s \in Local \ Pro
    THEN [NoTask EXCEPT !.at = "waiting", !.step = "local", !.warned = warned]
    ELSE [NoTask EXCEPT !.at = "done", !.warned = warned]

Queries(source) ==
    [s \in Station |->
        IF s \in Aic THEN [NoTask EXCEPT !.at = "waiting", !.step = "aic"]
        ELSE AfterAic(source, s, FALSE)]

(* search_evidence begins with the account index, except for "local".      *)
BeginSearch(w, source) ==
    /\ search[w].at = "idle"
    /\ begun < MaxSearches
    /\ begun' = begun + 1
    /\ search' = [search EXCEPT ![w].at = IF source = "local" THEN "stations" ELSE "account",
                                ![w].source = source]
    /\ task' = IF source = "local" THEN [task EXCEPT ![w] = Queries(source)] ELSE task
    /\ UNCHANGED <<proVars, records>>

Merge(w, rows, warned) ==
    [search EXCEPT ![w].at = "merged", ![w].events = rows, ![w].warned = warned,
                   ![w].result = MergedEvents(rows)]

(* The account index answers, or fails and leaves a warning; "cloud" reads *)
(* nothing else, the others start one query for every station.             *)
AccountEnds(w, rows, warned) ==
    /\ search[w].at = "account"
    /\ RememberAll(rows)
    /\ IF search[w].source = "cloud"
       THEN search' = Merge(w, rows, warned) /\ UNCHANGED task
       ELSE /\ search' = [search EXCEPT ![w].at = "stations", ![w].events = rows,
                                        ![w].warned = warned]
            /\ task' = [task EXCEPT ![w] = Queries(search[w].source)]
    /\ UNCHANGED <<proVars, begun>>

AccountAnswers(w) ==
    \E rows \in SUBSET {row \in Rows : row.source = "cloud"} :
        AccountEnds(w, NewestFirst(rows), {})

AccountFails(w) == AccountEnds(w, <<>>, {"account"})

Asking(w, s) == task[w][s].at = "asking"
ProQuery(s, step) == s \in Pro /\ step = "aic"
AskingAPro(w) == \E s \in Station : Asking(w, s) /\ ProQuery(s, task[w][s].step)

(* _pro_evidence_lock belongs to the coordinator, the semaphore to a       *)
(* search: it lets one HomeBase query of the search run at a time.         *)
LockFree(w, s) ==
    IF ProQuery(s, task[w][s].step)
    THEN ~proLock
    ELSE \A t \in Station : Asking(w, t) => ProQuery(t, task[w][t].step)

(* A query that ends leaves its `async with`.                              *)
LeavesLock(w, s) == proLock' = (proLock /\ ~ProQuery(s, task[w][s].step))

(* The client's station object keeps one future per kind of query.         *)
AlreadyRunning(w, s) ==
    \E v \in Search : Asking(v, s) /\ task[v][s].step = task[w][s].step

(* By the client, or by the bridge while a helper of the station runs.     *)
Refused(w, s) ==
    \/ AlreadyRunning(w, s)
    \/ ProQuery(s, task[w][s].step) /\ helper[s] # None

FailSilently(w, s) ==                                      \* defect
    IF task[w][s].step = "aic" THEN AfterAic(search[w].source, s, FALSE)
    ELSE [NoTask EXCEPT !.at = "done", !.warned = task[w][s].warned]

(* A query that failed leaves a warning; after a failed AIC query the      *)
(* HomeBase's own database is read.                                        *)
AfterFailure(w, s) ==
    IF task[w][s].step = "aic" THEN AfterAic(search[w].source, s, TRUE)
    ELSE [NoTask EXCEPT !.at = "done", !.warned = TRUE]

(* The lock is acquired and the query sent; when it is refused the lock is *)
(* released again.  The bridge spawns the helper of a Pro.                 *)
QueryStation(w, s) ==
    /\ task[w][s].at = "waiting"
    /\ LockFree(w, s)
    /\ task' = IF Refused(w, s)
               THEN [task EXCEPT ![w][s] = AfterFailure(w, s)]
               ELSE [task EXCEPT ![w][s].at = "asking"]
    /\ IF ProQuery(s, task[w][s].step) /\ ~Refused(w, s)
       THEN proLock' = TRUE /\ helper' = [helper EXCEPT ![s] = w]
       ELSE UNCHANGED <<proLock, helper>>
    /\ UNCHANGED <<search, answer, records, begun>>

Answered(w, s, rows) ==
    /\ RememberAll(rows)
    /\ task' = [task EXCEPT ![w][s].at = "done", ![w][s].rows = rows]
    /\ LeavesLock(w, s)
    /\ UNCHANGED <<search, helper, begun>>

(* The event settles the future that waits, even with the answer to an     *)
(* earlier query that was given up; the windows are not told apart.        *)
AicAnswers(w, s) ==
    /\ Asking(w, s) /\ task[w][s].step = "aic"
    /\ IF s \in Pro THEN answer[s] /\ answer' = [answer EXCEPT ![s] = FALSE]
                     ELSE UNCHANGED answer
    /\ \E histories \in SUBSET RowsOf("aic", s), updates \in SUBSET RowsOf("update", s) :
          /\ \A c \in Camera : Cardinality({u \in updates : u.camera = c}) <= 1
          /\ Answered(w, s, NewestFirst(JoinAicEventData(histories, updates)))

LocalAnswers(w, s) ==
    /\ Asking(w, s) /\ task[w][s].step = "local"
    /\ UNCHANGED answer
    /\ \E rows \in SUBSET RowsOf("local", s) : Answered(w, s, NewestFirst(rows))

(* An error of the bridge or of the station, the loss of the connection,   *)
(* or the query's own timeout; a helper that runs is not told.             *)
QueryFails(w, s) ==
    /\ Asking(w, s)
    /\ task' = [task EXCEPT ![w][s] = AfterFailure(w, s)]
    /\ LeavesLock(w, s)
    /\ UNCHANGED <<search, helper, answer, records, begun>>

(* The helper exits, fails or is killed; an answer becomes an event.  At   *)
(* most one is on its way: a helper's session takes seconds.               *)
HelperEnds(s) ==
    /\ helper[s] # None
    /\ helper' = [helper EXCEPT ![s] = None]
    /\ answer' \in {answer, [answer EXCEPT ![s] = TRUE]}
    /\ UNCHANGED <<search, task, proLock, records, begun>>

(* The event finds no future of the station's AIC query.                   *)
AnswerIsDropped(s) ==
    /\ answer[s]
    /\ \A w \in Search : Asking(w, s) => task[w][s].step # "aic"
    /\ answer' = [answer EXCEPT ![s] = FALSE]
    /\ UNCHANGED <<search, task, proLock, helper, records, begun>>

(* asyncio.wait returns with every station or after 70 seconds: what is    *)
(* pending is cancelled and reported, what is done is taken in any order.  *)
(* A cancelled query leaves its lock; its helper runs on.                  *)
CollectStations(w) ==
    LET done == {s \in Station : task[w][s].at = "done"}
        rowsOf(s) == task[w][s].rows
        warned == {s \in done : task[w][s].warned} \union (Station \ done)
    IN  /\ search[w].at = "stations"
        /\ \E order \in SetToSeqs(done) :
              search' = Merge(w, FoldLeft(LAMBDA rows, s : rows \o rowsOf(s),
                                          search[w].events, order),
                              search[w].warned \union warned)
        /\ task' = [task EXCEPT ![w] = [s \in Station |-> NoTask]]
        /\ proLock' = (proLock /\ ~AskingAPro(w))
        /\ UNCHANGED <<helper, answer, records, begun>>

(* The caller takes the result.                                            *)
SearchReturns(w) ==
    /\ search[w].at = "merged"
    /\ search' = [search EXCEPT ![w] = Idle]
    /\ UNCHANGED <<task, proVars, records, begun>>

GivenUp(w) ==
    [search EXCEPT ![w] = IF search[w].at = "account" THEN Idle
                          ELSE [Idle EXCEPT !.at = "abandoned", !.source = search[w].source]]

CallerLeavesLock(w) ==                 \* defect: the lock is the search's, not its query's
    /\ search[w].at \in {"account", "stations"}
    /\ search' = GivenUp(w)
    /\ proLock' = (proLock /\ ~AskingAPro(w))
    /\ UNCHANGED <<task, helper, answer, records, begun>>

(* The caller is cancelled, by its own timeout or with its request.  A     *)
(* cancelled asyncio.wait cancels nothing: the station queries run on with *)
(* their locks, and what they find is remembered and goes nowhere.         *)
CallerGivesUp(w) ==
    /\ search[w].at \in {"account", "stations"}
    /\ search' = GivenUp(w)
    /\ UNCHANGED <<task, proVars, records, begun>>

AbandonedEnds(w) ==
    /\ search[w].at = "abandoned"
    /\ \A s \in Station : task[w][s].at = "done"
    /\ search' = [search EXCEPT ![w] = Idle]
    /\ task' = [task EXCEPT ![w] = [s \in Station |-> NoTask]]
    /\ UNCHANGED <<proVars, records, begun>>

SearchStep(w) ==
    \/ AccountAnswers(w) \/ AccountFails(w)
    \/ \E s \in Station : \/ QueryStation(w, s) \/ AicAnswers(w, s)
                          \/ LocalAnswers(w, s) \/ QueryFails(w, s)
    \/ CollectStations(w) \/ AbandonedEnds(w)

-----------------------------------------------------------------------------
(* Properties.                                                             *)

(* Where each search and station query can be, what is known of the Pros'  *)
(* helpers, and that the table of raw rows stays within its bound.         *)
SearchTypeOK ==
    /\ \A w \in Search :
          /\ search[w].at \in {"idle", "account", "stations", "merged", "abandoned"}
          /\ Len(search[w].result) <= MaxResults
          /\ \A s \in Station : /\ task[w][s].at \in {"none", "waiting", "asking", "done"}
                                /\ task[w][s].at # "none"
                                      <=> search[w].at \in {"stations", "abandoned"}
    /\ proLock \in BOOLEAN
    /\ helper \in [Pro -> Search \union {None}] /\ answer \in [Pro -> BOOLEAN]
    /\ Len(records) <= RecordCap
    /\ \A i, j \in DOMAIN records : i # j => records[i].id # records[j].id

(* A result for the collected rows: the newest recordings of them, each    *)
(* once, shown by one of the rows that describe it: an account row only    *)
(* where there is no other.                                                *)
LosesNothing(events, result) ==
    LET keys == {MergeKey(events[j]) : j \in DOMAIN events}
        shown == {MergeKey(result[i].row) : i \in DOMAIN result}
        alike(row) == {j \in DOMAIN events : MergeKey(events[j]) = MergeKey(row)}
        better(row) == {j \in alike(row) : Priority(events[j].source) > 0}
    IN  /\ Cardinality(shown) = Len(result)
        /\ Len(result) = Min({MaxResults, Cardinality(keys)})
        /\ \A left \in keys \ shown, i \in DOMAIN result : left[2] <= result[i].row.start
        /\ \A i \in DOMAIN result :
              LET row == result[i].row
              IN  /\ \E j \in alike(row) : events[j] = row
                  /\ Priority(row.source) = 0 => better(row) = {}
                  /\ result[i].thumb <=> \E j \in alike(row) : HasThumbnail(events[j])

(* Nothing a source has delivered is lost and no duplicate stays, in       *)
(* whatever order the sources were merged and however many describe a      *)
(* recording; the account's short row never hides a HomeBase's or a Pro's, *)
(* and the result says that a recording has a thumbnail exactly when one   *)
(* of its rows has.  A search that lost a station keeps the rest.  Nothing *)
(* is said of the Pro's row over a HomeBase's: a merged row is "hybrid",   *)
(* which ranks as an account row, so a third row may displace the Pro's.   *)
MergeLosesNothing ==
    \A w \in Search :
        search[w].at = "merged" => LosesNothing(search[w].events, search[w].result)

(* Overlapping searches never collide at a Pro: a query that gets its lock *)
(* is refused as already running only behind a helper whose query was      *)
(* cancelled or has failed, never behind one that is still awaited, though *)
(* the queries of a search that was given up run on.                       *)
ProRefusedOnlyForGivenUp ==
    \A w \in Search, s \in Pro :
        task[w][s].at = "waiting" /\ LockFree(w, s) /\ Refused(w, s) =>
            helper[s] # None /\ ~Asking(helper[s], s)

(* A search never hides that a station is missing: every station it had to *)
(* read has answered it, or is reported in the warnings, by its model when *)
(* its queries failed and in a count when they were cancelled.             *)
FailureIsReported ==
    [][\A w \in Search : search[w].at = "stations" /\ search'[w].at = "merged" =>
          LET answered(s, step) == task[w][s].at = "done" /\ task[w][s].step = step
              read(s) == IF s \in Aic THEN answered(s, "aic")
                         ELSE s \in Local \ Pro /\ search[w].source # "latest"
                                  => answered(s, "local")
          IN  \A s \in Station : read(s) \/ s \in search'[w].warned]_searchVars
=============================================================================
