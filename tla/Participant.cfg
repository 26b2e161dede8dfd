SPECIFICATION LateSpec
CONSTANTS
    m1 = m1
    m2 = m2
    late = late
    NoMsg = NoMsg
    Msgs <- MC_Msgs
    MaxRetries = 1
    MaxPending = 1
    BatchSize = 1
    HistorySize = 2
    AcksOnNet = TRUE
    SendsOnNet = FALSE
CHECK_DEADLOCK FALSE
INVARIANTS
    DeliveryTypeOK
    Tracked
    OutcomeIsTrue
    RingIsRecent
PROPERTIES
    Settles
