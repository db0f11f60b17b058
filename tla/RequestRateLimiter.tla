------------------------- MODULE RequestRateLimiter -------------------------
(***************************************************************************)
(* RequestRateLimiter of _services_validators/request_rate_validators.py.  *)
(* Each bucket of each access key keeps a queue of request times.  One     *)
(* call of validate is one step: it holds the limiter's lock from reading  *)
(* the clock to the last append, whichever thread of the server calls it.  *)
(***************************************************************************)
EXTENDS RequestRateLimits, Integers, Sequences

CONSTANT MaxClock   \* bound on the clock; ticks, never decreasing

ASSUME MaxClockAssumption == MaxClock \in Nat

VARIABLES
    clock,          \* self._time_function, time.monotonic
    request_times,  \* self._request_times, an absent key being an empty queue
    accepted,       \* history: every accepted request since the last removal
    response        \* the answer to the last request

vars == <<clock, request_times, accepted, response>>

NoHistory == [b \in BucketNames |-> <<>>]

Response == [key : AccessKeys, endpoint : RateLimitedEndpoint,
             result : {"accepted", "TooManyRequests"}]

Init ==
    /\ clock = 0
    /\ request_times = [key \in AccessKeys |-> NoHistory]
    /\ accepted = [key \in AccessKeys |-> NoHistory]
    /\ response = NoLimit

-----------------------------------------------------------------------------
\* Mutant: a request expires only once it is older than the window.
ExpiredLate(times, window_start) ==
    CHOOSE n \in 0 .. Len(times) :
        /\ \A i \in 1 .. n : times[i] < window_start
        /\ n < Len(times) => times[n + 1] >= window_start

\* How many times the loop pops: the length of the longest prefix of times
\* that are not after window_start.
Expired(times, window_start) ==
    CHOOSE n \in 0 .. Len(times) :
        /\ \A i \in 1 .. n : times[i] <= window_start
        /\ n < Len(times) => times[n + 1] > window_start

PopExpired(times, window_start) ==
    SubSeq(times, Expired(times, window_start) + 1, Len(times))

Popped(key, bucket) ==
    PopExpired(request_times[key][bucket],
               clock - LimitOf(key, bucket).window_seconds)

\* Mutant: one request too many before the limit is reached.
ExhaustedOneLater(key, bucket) ==
    Len(Popped(key, bucket)) > LimitOf(key, bucket).max_requests

Exhausted(key, bucket) ==
    Len(Popped(key, bucket)) >= LimitOf(key, bucket).max_requests

\* The buckets whose queues the loop reaches: it raises at the first one that
\* is exhausted, and the bucket of all endpoints comes first.
Examined(key, endpoint) ==
    {b \in Buckets(key, endpoint) :
        b # "ALL_ENDPOINTS" /\ "ALL_ENDPOINTS" \in Buckets(key, endpoint)
            => ~Exhausted(key, "ALL_ENDPOINTS")}

Accept(key, endpoint) ==
    /\ \A b \in Buckets(key, endpoint) : ~Exhausted(key, b)
    /\ request_times' = [request_times EXCEPT ![key] =
         [b \in BucketNames |-> IF b \in Buckets(key, endpoint)
                                THEN Append(Popped(key, b), clock) ELSE @[b]]]
    /\ accepted' = [accepted EXCEPT ![key] =
         [b \in BucketNames |-> IF b \in Buckets(key, endpoint)
                                THEN Append(@[b], clock) ELSE @[b]]]
    /\ response' = [key |-> key, endpoint |-> endpoint, result |-> "accepted"]
    /\ UNCHANGED clock

\* Mutant: a rejected request counts against the limits it was not over.
RejectCounting(key, endpoint) ==
    /\ \E b \in Buckets(key, endpoint) : Exhausted(key, b)
    /\ request_times' = [request_times EXCEPT ![key] =
         [b \in BucketNames |->
            IF b \in Buckets(key, endpoint) /\ ~Exhausted(key, b)
            THEN Append(Popped(key, b), clock) ELSE @[b]]]
    /\ response' = [key |-> key, endpoint |-> endpoint, result |-> "TooManyRequests"]
    /\ UNCHANGED <<clock, accepted>>

\* TooManyRequestsError: nothing is counted, but expired times have been popped.
Reject(key, endpoint) ==
    /\ \E b \in Buckets(key, endpoint) : Exhausted(key, b)
    /\ request_times' = [request_times EXCEPT ![key] =
         [b \in BucketNames |-> IF b \in Examined(key, endpoint)
                                THEN Popped(key, b) ELSE @[b]]]
    /\ response' = [key |-> key, endpoint |-> endpoint, result |-> "TooManyRequests"]
    /\ UNCHANGED <<clock, accepted>>

\* validate_request_rate
Validate(key, method, path) ==
    Accept(key, EndpointOf(method, path)) \/ Reject(key, EndpointOf(method, path))

\* Mutant: the entry of the key goes, where the buckets' queues should be empty.
RemoveEntry(key) ==
    /\ request_times' = [request_times EXCEPT ![key] = <<>>]
    /\ UNCHANGED <<clock, accepted, response>>

\* remove_database, called when a cloud database leaves the target manager.
RemoveDatabase(key) ==
    /\ request_times' = [request_times EXCEPT ![key] = NoHistory]
    /\ accepted' = [accepted EXCEPT ![key] = NoHistory]
    /\ UNCHANGED <<clock, response>>

\* The limiter lives in the memory of one app instance and is lost with it.
Restart ==
    /\ request_times' = [key \in AccessKeys |-> NoHistory]
    /\ accepted' = [key \in AccessKeys |-> NoHistory]
    /\ UNCHANGED <<clock, response>>

Tick ==
    /\ clock < MaxClock
    /\ clock' = clock + 1
    /\ UNCHANGED <<request_times, accepted, response>>

Next ==
    \/ \E key \in AccessKeys, method \in Methods, path \in Paths :
          Validate(key, method, path)
    \/ \E key \in AccessKeys : RemoveDatabase(key)
    \/ Restart
    \/ Tick

Spec == Init /\ [][Next]_vars

-----------------------------------------------------------------------------
Histories == [AccessKeys -> [BucketNames -> Seq(Nat)]]

\* Types: the clock and the queues hold ticks, the response names a request.
TypeOK ==
    /\ clock \in 0 .. MaxClock
    /\ request_times \in Histories
    /\ accepted \in Histories
    /\ response \in Response \cup {NoLimit}

\* However a client spreads its requests over time, threads and endpoints, a
\* bucket never accepts more than max_requests within window_seconds: the
\* request accepted max_requests places later comes a whole window later.
RateNeverExceeded ==
    \A key \in AccessKeys : \A b \in BucketNames :
        LimitOf(key, b) # NoLimit =>
            LET max    == LimitOf(key, b).max_requests
                window == LimitOf(key, b).window_seconds
                times  == accepted[key][b]
            IN  \A i \in 1 .. Len(times) :
                   i + max <= Len(times) => times[i + max] >= times[i] + window

\* The queue of a bucket is the tail of what it accepted, and every accepted
\* request it has dropped had left the window when it was dropped.
QueueIsRecentHistory(key, b) ==
    LET times == accepted[key][b]
        queue == request_times[key][b]
        gone  == Len(times) - Len(queue)
    IN  /\ gone >= 0
        /\ \A i \in 1 .. Len(queue) : queue[i] = times[gone + i]
        /\ \A i \in 1 .. gone :
              times[i] + LimitOf(key, b).window_seconds <= clock

AcceptedInOrder(key, b) ==
    LET times == accepted[key][b]
    IN  /\ \A i \in 1 .. Len(times) : times[i] <= clock
        /\ \A i, j \in 1 .. Len(times) : i <= j => times[i] <= times[j]

\* A bucket without a limit is never counted in.
Uncounted(key, b) == accepted[key][b] = <<>> /\ request_times[key][b] = <<>>

\* The inductive invariant: the queues hold enough of the past to decide.
QueuesFaithful ==
    \A key \in AccessKeys : \A b \in BucketNames :
        IF LimitOf(key, b) = NoLimit THEN Uncounted(key, b)
        ELSE QueueIsRecentHistory(key, b) /\ AcceptedInOrder(key, b)

\* The limiter accepts and rejects exactly as one that never forgets a
\* request: popping, the shared OTHER bucket and rejected requests never
\* make it reject too much or too little.
Abstract == INSTANCE SlidingWindow
ImplementsSlidingWindow == Abstract!Spec
=============================================================================
