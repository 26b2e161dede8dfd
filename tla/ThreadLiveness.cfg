SPECIFICATION FairSpec
CONSTANTS
    m1 = m1
    m2 = m2
    m3 = m3
    m4 = m4
    p1 = p1
    p2 = p2
    w1 = w1
    w2 = w2
    Owner = Owner
    ExitMsg = ExitMsg
    NoMsg = NoMsg
    NoThread = NoThread
    Messages <- MC_Messages3
    HighMsgs <- MC_High
    Producers <- MC_OneProducer
    Workers <- MC_Workers
    MaxQueueSize = 1
    FullPolicies <- TimeoutOnly
    HasIdleHandler = FALSE
PROPERTIES
    AcceptedSettles
    ExitReturns
    DispatchReturns
