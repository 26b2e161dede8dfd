SPECIFICATION Spec
CONSTANTS
    A = A
    B = B
    wait = wait
    callback = callback
    future = future
    h1 = h1
    h2 = h2
    
    Null = Null
    Cleanup = Cleanup
    ExitMsg = ExitMsg
    Clients <- MC_Clients
    WaitRequests <- MC_Wait
    CallbackRequests <- MC_Callback
    FutureRequests <- MC_Future
    Handles <- MC_Handles
    MaxFailedInits = 1
    StrictShutdown = TRUE
SYMMETRY Symmetry
INVARIANTS
    TypeOK
    TransferIsSafe
    NothingLeaks
    RefCountExact
    ServedBeforeCleanup
