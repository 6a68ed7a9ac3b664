CONSTANTS
    MaxRetries = 2
    QueueLen = 3
SPECIFICATION Spec
INVARIANTS RadioOwned FailIsEarned LeaseIsReal RetryBudget
PROPERTIES CallResultHolds ObserverContract CallReturns LinkRetried
\* A refused connect request leaves phy_connect waiting for ever.
CHECK_DEADLOCK FALSE
