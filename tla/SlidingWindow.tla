--------------------------- MODULE SlidingWindow ---------------------------
(***************************************************************************)
(* What a rolling-window rate limit promises, with nothing ever forgotten: *)
(* the limiter remembers the time of every request it accepted, and        *)
(* accepts one more exactly when each limit that applies has room for it.  *)
(* RequestRateLimiter, which keeps short queues, is shown to implement it. *)
(***************************************************************************)
EXTENDS RequestRateLimits, Sequences

CONSTANT MaxClock   \* bound on the clock

VARIABLES
    clock,      \* time.monotonic, in ticks
    accepted,   \* accepted[key][bucket]: times of the accepted requests, in order
    response    \* the answer to the last request

vars == <<clock, accepted, response>>

NoHistory == [b \in BucketNames |-> <<>>]

Response == [key : AccessKeys, endpoint : RateLimitedEndpoint,
             result : {"accepted", "TooManyRequests"}]

Init ==
    /\ clock = 0
    /\ accepted = [key \in AccessKeys |-> NoHistory]
    /\ response = NoLimit

\* Fewer than max_requests accepted requests lie in (clock - window, clock]:
\* the max_requests-th most recent one, if there is one, has left the window.
HasRoom(key, bucket) ==
    LET history == accepted[key][bucket]
        limit   == LimitOf(key, bucket)
    IN  \/ Len(history) < limit.max_requests
        \/ /\ limit.max_requests > 0
           /\ history[Len(history) + 1 - limit.max_requests]
                + limit.window_seconds <= clock

Accept(key, endpoint) ==
    /\ \A b \in Buckets(key, endpoint) : HasRoom(key, b)
    /\ accepted' = [accepted EXCEPT ![key] =
         [b \in BucketNames |->
            IF b \in Buckets(key, endpoint) THEN Append(@[b], clock) ELSE @[b]]]
    /\ response' = [key |-> key, endpoint |-> endpoint, result |-> "accepted"]
    /\ UNCHANGED clock

Reject(key, endpoint) ==
    /\ \E b \in Buckets(key, endpoint) : ~HasRoom(key, b)
    /\ response' = [key |-> key, endpoint |-> endpoint, result |-> "TooManyRequests"]
    /\ UNCHANGED <<clock, accepted>>

Forget(key) ==
    /\ accepted' = [accepted EXCEPT ![key] = NoHistory]
    /\ UNCHANGED <<clock, response>>

ForgetAll ==
    /\ accepted' = [key \in AccessKeys |-> NoHistory]
    /\ UNCHANGED <<clock, response>>

Tick ==
    /\ clock < MaxClock
    /\ clock' = clock + 1
    /\ UNCHANGED <<accepted, response>>

Next ==
    \/ \E key \in AccessKeys, endpoint \in RateLimitedEndpoint :
          Accept(key, endpoint) \/ Reject(key, endpoint)
    \/ \E key \in AccessKeys : Forget(key)
    \/ ForgetAll
    \/ Tick

Spec == Init /\ [][Next]_vars
=============================================================================
