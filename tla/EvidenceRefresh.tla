-------------------------- MODULE EvidenceRefresh --------------------------
(***************************************************************************)
(* refresh_latest_snapshots (coordinator.py) on top of EvidenceSearch: one *)
(* refresh at a time searches the evidence, chooses an event for every     *)
(* camera, downloads the thumbnails concurrently and gives them to the     *)
(* cameras.  Other searches run beside it and share the table of raw rows, *)
(* the Pro lock and the stations: the panel's, and the serial-scoped ones  *)
(* of recover_missing, which give up after 35 seconds; what those add to   *)
(* the refresh's own choice is not part of the model.                      *)
(*                                                                         *)
(* A picture keeps the id of the row whose image it is and its time, 0 for *)
(* none.                                                                   *)
(***************************************************************************)
EXTENDS EvidenceSearch

CONSTANTS
    Refresher,        \* the search that belongs to the refresh
    OtherSources,     \* what the other searches read
    Alike,            \* <<name, label>>: equal, or one contained in the other
    Doorbells         \* names and labels that contain "doorbell"

ASSUME RefreshAssumption ==
    /\ Refresher \in Search
    /\ OtherSources \subseteq Source
    /\ \A row \in Rows : <<row.label, row.label>> \in Alike

VARIABLES
    refreshing,       \* _snapshot_refresh_lock and where the refresh is
    job,              \* per camera: its download
    picture,          \* per camera: the picture on show
    lastEvent         \* _last_snapshot_event_ids

refreshVars == <<searchVars, refreshing, job, picture, lastEvent>>

NoJob == [at |-> "none", event |-> None]
NoJobs == [c \in Camera |-> NoJob]
NoPicture == [id |-> None, time |-> 0]

RefreshInit ==
    /\ SearchInit
    /\ refreshing = "no"
    /\ job = NoJobs
    /\ picture = [c \in Camera |-> NoPicture]
    /\ lastEvent = [c \in Camera |-> None]

-----------------------------------------------------------------------------
(* Which event a camera is given.                                          *)

(* index_event: only events with a thumbnail; the first of a serial, of a  *)
(* channel and of a label stays.  evidence_identity reads the retained row *)
(* and finds nothing when it was dropped.                                  *)
Indexed(result) == {i \in DOMAIN result : result[i].thumb}

KnownBy(row) ==
    LET kept == RetainedRow(row.id)
    IN  IF ~Retained(row.id) THEN {}
        ELSE kept.known \union (IF kept.latest = None THEN {} ELSE kept.latest.known)

NamedBySerial(row, c) == "serial" \in KnownBy(row) /\ row.camera = c

NamedBySlot(row, c) ==
    /\ "slot" \in KnownBy(row)
    /\ Home[row.camera] = Home[c] /\ Slot[row.camera] = Slot[c]

BySerial(result, c) == {i \in Indexed(result) : NamedBySerial(result[i].row, c)}
BySlot(result, c) == {i \in Indexed(result) : NamedBySlot(result[i].row, c)}
ByName(result, c) == {i \in Indexed(result) : <<Name[c], result[i].row.label>> \in Alike}

Labels(result) == {result[i].row.label : i \in Indexed(result)}

(* The only doorbell of the account takes the only doorbell label.         *)
OnlyDoorbell(result, c) ==
    /\ {d \in Camera : Name[d] \in Doorbells} = {c}
    /\ Cardinality(Labels(result) \cap Doorbells) = 1

ByKind(result, c) ==
    {i \in Indexed(result) : OnlyDoorbell(result, c) /\ result[i].row.label \in Doorbells}

FirstEvent(result, at) == IF at = {} THEN None ELSE result[Min(at)]

ChosenByNameFirst(result, c) ==                            \* defect
    FirstEvent(result, IF ByName(result, c) # {} THEN ByName(result, c) ELSE BySerial(result, c))

(* By serial, by channel, by name, and for an only doorbell by its kind.   *)
Chosen(result, c) ==
    FirstEvent(result, IF BySerial(result, c) # {} THEN BySerial(result, c)
                       ELSE IF BySlot(result, c) # {} THEN BySlot(result, c)
                       ELSE IF ByName(result, c) # {} THEN ByName(result, c)
                       ELSE ByKind(result, c))

(* The picture on show is at least as new as the event, or is the event's. *)
NotNewer(event, c) ==
    /\ event.row.start > 0
    /\ picture[c].time > 0
    /\ event.row.start <= picture[c].time

Unchanged(event, c) ==
    picture[c].id # None /\ (NotNewer(event, c) \/ lastEvent[c] = event.row.id)

-----------------------------------------------------------------------------
(* The refresh.                                                            *)

(* A second refresh is refused while the lock is held.                     *)
RefreshBegins ==
    /\ refreshing = "no"
    /\ refreshing' = "searching"
    /\ \E source \in {"cloud", "latest"} : BeginSearch(Refresher, source)
    /\ UNCHANGED <<job, picture, lastEvent>>

(* The events are chosen and the downloads begin with the retained rows.   *)
RefreshSelects ==
    LET result == search[Refresher].result
        event(c) == Chosen(result, c)
        wanted == {c \in Camera : event(c) # None}
        fresh == {c \in wanted : ~Unchanged(event(c), c)}
    IN  /\ refreshing = "searching"
        /\ SearchReturns(Refresher)
        /\ refreshing' = "downloading"
        /\ job' = [c \in Camera |-> IF c \in fresh THEN [at |-> "queued", event |-> event(c)]
                                                   ELSE NoJob]
        /\ lastEvent' = [c \in Camera |-> IF c \in wanted \ fresh THEN event(c).row.id
                                                                  ELSE lastEvent[c]]
        /\ UNCHANGED picture

(* An exception that no download handles ends the refresh without result.  *)
RefreshFails ==
    /\ refreshing' = "no"
    /\ job' = NoJobs
    /\ UNCHANGED <<picture, lastEvent>>

(* download_thumbnail begins: _evidence raises KeyError for a row that     *)
(* was dropped since, which is not handled, and else reads the row anew.   *)
DownloadBegins(c) ==
    /\ job[c].at = "queued"
    /\ IF Retained(job[c].event.row.id)
       THEN /\ job' = [job EXCEPT ![c].at = "asking",
                                 ![c].event.row = RetainedRow(job[c].event.row.id)]
            /\ UNCHANGED <<refreshing, picture, lastEvent>>
       ELSE RefreshFails
    /\ UNCHANGED searchVars

(* The image arrives, or none is there or is delivered in time.            *)
DownloadEnds(c) ==
    /\ job[c].at = "asking"
    /\ \E at \in {"failed"} \union (IF ImageOf(job[c].event.row) = None THEN {} ELSE {"got"}) :
          job' = [job EXCEPT ![c].at = at]
    /\ UNCHANGED <<searchVars, refreshing, picture, lastEvent>>

(* The bridge refuses the download: FailedCommandException is neither a    *)
(* ValueError nor a RuntimeError nor a TimeoutError.                       *)
DownloadIsRefused(c) ==
    /\ job[c].at = "asking"
    /\ RefreshFails
    /\ UNCHANGED searchVars

RefreshApplies ==
    LET got == {c \in Camera : job[c].at = "got"}
        event(c) == job[c].event.row
    IN  /\ refreshing = "downloading"
        /\ \A c \in Camera : job[c].at \notin {"queued", "asking"}
        /\ refreshing' = "no"
        /\ picture' = [c \in Camera |->
               IF c \in got THEN [id |-> ImageOf(event(c)), time |-> event(c).start]
               ELSE picture[c]]
        /\ lastEvent' = [c \in Camera |-> IF c \in got THEN event(c).id ELSE lastEvent[c]]
        /\ job' = NoJobs
        /\ UNCHANGED searchVars

(* The maintenance loop gives a refresh ten minutes.                       *)
RefreshTimesOut ==
    /\ refreshing = "downloading"
    /\ refreshing' = "no"
    /\ job' = NoJobs
    /\ UNCHANGED <<searchVars, picture, lastEvent>>

-----------------------------------------------------------------------------
OtherSearch ==
    \E w \in Search \ {Refresher} :
        \/ \E source \in OtherSources : BeginSearch(w, source)
        \/ SearchReturns(w) \/ CallerGivesUp(w)

EvidenceNext ==
    \/ OtherSearch /\ UNCHANGED <<refreshing, job, picture, lastEvent>>
    \/ \E w \in Search : SearchStep(w) /\ UNCHANGED <<refreshing, job, picture, lastEvent>>
    \/ \E s \in Pro : /\ HelperEnds(s) \/ AnswerIsDropped(s)
                      /\ UNCHANGED <<refreshing, job, picture, lastEvent>>
    \/ RefreshBegins \/ RefreshSelects \/ RefreshApplies \/ RefreshTimesOut
    \/ \E c \in Camera : DownloadBegins(c) \/ DownloadEnds(c) \/ DownloadIsRefused(c)

EvidenceSpec == RefreshInit /\ [][EvidenceNext]_refreshVars

-----------------------------------------------------------------------------
(* Properties.                                                             *)

(* A camera is offered its own newest stored image: when the result holds  *)
(* an event with a thumbnail that a retained row ties to the camera by its *)
(* serial or its channel, the camera downloads the newest event its best   *)
(* identity names and no other camera's.                                   *)
OffersTheOwnNewest ==
    [][refreshing = "searching" /\ refreshing' = "downloading" =>
          LET result == search[Refresher].result
              tied(c, known) == {i \in DOMAIN result :
                  result[i].thumb /\ result[i].row.camera = c /\ known \in KnownBy(result[i].row)}
          IN  \A c \in Camera : job'[c].at = "queued" =>
                  LET row == job'[c].event.row
                      best == IF tied(c, "serial") # {} THEN tied(c, "serial")
                              ELSE tied(c, "slot")
                  IN  best # {} => /\ row.camera = c
                                   /\ \A i \in best : result[i].row.start <= row.start
      ]_refreshVars

(* A picture is dated by the recording whose image it is: the image of a   *)
(* newer latest update, which the join attaches to an older recording of   *)
(* the same camera, never passes as the older recording's.                 *)
PictureIsDatedByItsRecording ==
    \A c \in Camera, row \in Rows : picture[c].id = row.id => picture[c].time = row.start

=============================================================================
