CONSTANTS
    MaxRetries = 1
    QueueLen = 3
SPECIFICATION Spec
INVARIANTS AtMostMaxRetries
\* A refused connect request leaves phy_connect waiting for ever.
CHECK_DEADLOCK FALSE
