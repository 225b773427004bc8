SPECIFICATION FairSpec
CONSTANTS
    Thread = {t1, t2}
    Endpoint <- MCEndpoint
    MaxServices = 2
INVARIANTS NoOrphanService
PROPERTIES  ShutdownCallReturns
CHECK_DEADLOCK FALSE
