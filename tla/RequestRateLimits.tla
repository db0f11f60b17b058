------------------------- MODULE RequestRateLimits -------------------------
(***************************************************************************)
(* The limits a cloud database puts on VWS requests, and the buckets a     *)
(* request is counted in: mock_vws/request_rate_limits.py and the first    *)
(* half of RequestRateLimiter.validate.  A limit of None is NoLimit.       *)
(***************************************************************************)
EXTENDS Naturals

CONSTANTS
    AccessKeys,               \* server access keys of the cloud databases
    RequestsPerSecondLimit,   \* CloudDatabase.requests_per_second_limit
    EndpointLimits,           \* CloudDatabase.request_rate_limits
    WindowSeconds,            \* _WINDOW_SECONDS, in ticks of the clock
    NoLimit                   \* None

RateLimitedEndpoint == {"GET_TARGET", "GET_DUPLICATES", "LIST_TARGETS", "OTHER"}

BucketNames == RateLimitedEndpoint \cup {"ALL_ENDPOINTS"}

RequestRateLimit == [max_requests : Nat, window_seconds : Nat]

ASSUME LimitsAssumption ==
    /\ WindowSeconds \in Nat
    /\ NoLimit \notin Nat
    /\ NoLimit \notin RequestRateLimit
    /\ RequestsPerSecondLimit \in [AccessKeys -> Nat \cup {NoLimit}]
    /\ EndpointLimits \in
         [AccessKeys -> [RateLimitedEndpoint -> RequestRateLimit \cup {NoLimit}]]

Methods == {"GET", "POST", "PUT", "DELETE"}
Paths == {"/targets", "/targets/{id}", "/duplicates/{id}", "/summary"}

\* The endpoint group of a request, by its method and the shape of its path.
EndpointOf(method, path) ==
    CASE method = "GET" /\ path = "/targets" -> "LIST_TARGETS"
      [] method = "GET" /\ path = "/targets/{id}" -> "GET_TARGET"
      [] method = "GET" /\ path = "/duplicates/{id}" -> "GET_DUPLICATES"
      [] OTHER -> "OTHER"

\* Endpoints without a limit of their own share the limit and the bucket of OTHER.
ForEndpoint(key, endpoint) ==
    IF EndpointLimits[key][endpoint] # NoLimit THEN endpoint ELSE "OTHER"

LimitOf(key, bucket) ==
    IF bucket # "ALL_ENDPOINTS" THEN EndpointLimits[key][bucket]
    ELSE IF RequestsPerSecondLimit[key] = NoLimit THEN NoLimit
    ELSE [max_requests |-> RequestsPerSecondLimit[key],
          window_seconds |-> WindowSeconds]

\* The buckets a request is counted in: the one of all endpoints and the one
\* of its own endpoint group, each only where a limit is set.
Buckets(key, endpoint) ==
    {b \in {"ALL_ENDPOINTS", ForEndpoint(key, endpoint)} : LimitOf(key, b) # NoLimit}
=============================================================================
