SPECIFICATION EvidenceSpec
CONSTANTS
    pro = pro base = base gate = gate dock = dock None = None
    Search = {"refresh", "other"}
    Refresher = "refresh"
    OtherSources = {"hybrid"}
    Station = {pro, base}
    Pro = {pro}
    Aic = {pro}
    Local = {pro, base}
    Camera = {gate, dock}
    Home <- MCHome
    Slot <- MCSlot
    Name <- MCName
    Rows <- MCRows
    Alike <- MCAlike
    Doorbells = {"gate dock"}
    RecordCap = 3
    MaxResults = 3
    MaxSearches = 2
INVARIANTS SearchTypeOK MergeLosesNothing ProRefusedOnlyForGivenUp PictureIsDatedByItsRecording
PROPERTIES FailureIsReported OffersTheOwnNewest
CHECK_DEADLOCK FALSE
