\* Every touch sent, skipped or deleted: the model may stop.
CHECK_DEADLOCK FALSE
SPECIFICATION FairSpec
CONSTANTS
    Touches = {t1}
    MaxDrafts = 2
    MaxPackets = 2
    MaxFaults = 1
    BccConfigured = TRUE
    NoDraft = NoDraft
INVARIANTS
    RecordedWasMailed
    StampsAreCurrent
    SendsLeaveACopy
PROPERTIES
    BodyEditsSurvive
    NoSecondDraft
    SendsAreRecorded
