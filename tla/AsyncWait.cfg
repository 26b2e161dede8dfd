SPECIFICATION FairSpec
CONSTANTS
    c1 = c1
    c2 = c2
    c3 = c3
    NoCall = NoCall
    Calls <- MC_Calls
    HighCalls <- MC_High
    NestedCalls <- MC_Nested
INVARIANTS
    TypeOK
    NoUseAfterReturn
    FailureHasReason
    CancelReleases
PROPERTIES
    ImplementsBlockingCall
    CallReturns
