\* Overview: both live sources and three clicks.  Curation: two admins and two revisions.
\* Checkout: two orders, two visits and four requests.
SPECIFICATION ConsoleSpec
CONSTANTS
    Suppliers = {khommo, vietshare}
    NoSource = NoSource
    MaxClicks = 3
    Editors = {ann, bob}
    Patient = {ann}
    ListingIds = {l1, l2}
    Contents = {"hidden", "incomplete"}
    Offers = {o1, o2}
    MaxRevision = 2
    MaxInFlight = 1
    NoSave = NoSave
    Keys = {k1, k2}
    MaxMounts = 2
    MaxRequests = 4
    None = None
CONSTRAINT SmallOrAlone
INVARIANTS
    PanelIsOfSelection SyncedMeansPublished UntoldOrderIsPending OneOrderPerCycle ShownFinalIsFinal
PROPERTIES OverviewSettles NoUpdateIsLost EditsSurviveAnswers
\* The last visit may be over, the last click answered.
CHECK_DEADLOCK FALSE
