SPECIFICATION FairInvokeSpec
CONSTANTS
    m1 = m1
    m2 = m2
    NoMsg = NoMsg
    Msgs <- MC_Msgs
    MaxRetries = 1
    MaxPending = 1
    BatchSize = 1
    AcksOnNet = FALSE
    SendsOnNet = TRUE
CHECK_DEADLOCK FALSE
INVARIANTS
    InvokeTypeOK
    AnswerIsRight
PROPERTIES
    CallAnswered
