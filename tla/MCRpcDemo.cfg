SPECIFICATION Spec
CONSTANTS
    c1 = c1
    c2 = c2
    Clients <- MCClients
    Requests <- MCRequests
    QueueCap = 1
    ExpectedJobs = 3
    MaxCalls = 3
ACTION_CONSTRAINT FirstCallIsC1
INVARIANTS StoreInv
PROPERTIES AtMostOnce ServerOutlivesCalls EveryCallReturns
CHECK_DEADLOCK FALSE
