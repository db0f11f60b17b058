----------------------- MODULE MCRequestRateLimiter -----------------------
\* Two databases: k1 has a per-second limit, a limit of its own for GET_TARGET
\* with a longer window and one for OTHER; k2 limits only LIST_TARGETS, to none.
EXTENDS RequestRateLimiter, TLC

CONSTANTS k1, k2

Limit(max, window) == [max_requests |-> max, window_seconds |-> window]

MCAccessKeys == {k1, k2}

MCRequestsPerSecondLimit == (k1 :> 2) @@ (k2 :> NoLimit)

MCEndpointLimits ==
    (k1 :> ("GET_TARGET" :> Limit(2, 3) @@ "GET_DUPLICATES" :> NoLimit
            @@ "LIST_TARGETS" :> NoLimit @@ "OTHER" :> Limit(1, 2)))
    @@ (k2 :> ("GET_TARGET" :> NoLimit @@ "GET_DUPLICATES" :> NoLimit
               @@ "LIST_TARGETS" :> Limit(0, 1) @@ "OTHER" :> NoLimit))
=============================================================================
