SPECIFICATION Spec
CONSTANTS
    k1 = k1
    k2 = k2
    NoLimit = NoLimit
    WindowSeconds = 1
    MaxClock = 5
    AccessKeys <- MCAccessKeys
    RequestsPerSecondLimit <- MCRequestsPerSecondLimit
    EndpointLimits <- MCEndpointLimits
INVARIANTS
    TypeOK
    RateNeverExceeded
    QueuesFaithful
PROPERTIES
    ImplementsSlidingWindow
