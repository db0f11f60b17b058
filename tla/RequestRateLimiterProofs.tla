---------------------- MODULE RequestRateLimiterProofs ----------------------
(***************************************************************************)
(* Theorems about RequestRateLimiter, for every set of databases and every *)
(* choice of limits.                                                       *)
(***************************************************************************)
EXTENDS RequestRateLimiter, SequenceTheorems, WellFoundedInduction, TLAPS

\* The endpoint groups and the buckets are closed under the lookups.
LEMMA BucketsType ==
    ASSUME NEW key \in AccessKeys
    PROVE  /\ \A e \in RateLimitedEndpoint : Buckets(key, e) \subseteq BucketNames
           /\ \A b \in BucketNames : LimitOf(key, b) # NoLimit =>
                 LimitOf(key, b) \in RequestRateLimit
  BY LimitsAssumption
     DEF Buckets, ForEndpoint, BucketNames, RateLimitedEndpoint, LimitOf,
         RequestRateLimit

LEMMA EndpointOfType ==
    \A m \in Methods, p \in Paths : EndpointOf(m, p) \in RateLimitedEndpoint
  BY DEF EndpointOf, RateLimitedEndpoint, Methods, Paths

\* The loop pops exactly the longest expired prefix, and such a prefix exists.
LEMMA PopExpiredIsSuffix ==
    ASSUME NEW times \in Seq(Nat), NEW start \in Int
    PROVE  /\ Expired(times, start) \in 0 .. Len(times)
           /\ \A i \in 1 .. Expired(times, start) : times[i] <= start
           /\ Expired(times, start) < Len(times) =>
                 times[Expired(times, start) + 1] > start
           /\ PopExpired(times, start) \in Seq(Nat)
           /\ Len(PopExpired(times, start)) = Len(times) - Expired(times, start)
           /\ \A i \in 1 .. Len(PopExpired(times, start)) :
                 PopExpired(times, start)[i] = times[Expired(times, start) + i]
<1> DEFINE Stops == {n \in Nat : n <= Len(times)
                                 /\ (n < Len(times) => times[n + 1] > start)}
<1>1. Len(times) \in Nat /\ \A i \in 1 .. Len(times) : times[i] \in Nat
  BY LenProperties, ElementOfSeq
<1>2. PICK n \in Stops : \A m \in Stops : ~(<<m, n>> \in OpToRel(<, Nat))
  <2>1. Len(times) \in Stops
    BY <1>1
  <2>2. Stops \subseteq Nat /\ Stops # {}
    BY <2>1
  <2>3. QED
    BY <2>2, NatLessThanWellFounded, WFMin
<1>3. \A m \in Stops : ~(m < n)
  BY <1>2 DEF OpToRel
<1>4. \A i \in 1 .. n : times[i] <= start
  <2>1. SUFFICES ASSUME NEW i \in 1 .. n, times[i] > start PROVE FALSE
    BY <1>1
  <2>2. i - 1 \in Stops /\ i - 1 < n
    BY <1>1, <2>1
  <2>3. QED
    BY <2>2, <1>3
<1>5. \E k \in 0 .. Len(times) : /\ \A i \in 1 .. k : times[i] <= start
                                 /\ k < Len(times) => times[k + 1] > start
  BY <1>1, <1>4
<1>6. /\ Expired(times, start) \in 0 .. Len(times)
      /\ \A i \in 1 .. Expired(times, start) : times[i] <= start
      /\ Expired(times, start) < Len(times) =>
            times[Expired(times, start) + 1] > start
  BY <1>5 DEF Expired
<1>7. QED
  <2> DEFINE k == Expired(times, start)
  <2>1. \A i \in (k + 1) .. Len(times) : times[i] \in Nat
    BY <1>1, <1>6
  <2>2. /\ SubSeq(times, k + 1, Len(times)) \in Seq(Nat)
        /\ Len(SubSeq(times, k + 1, Len(times))) =
             IF k + 1 <= Len(times) THEN Len(times) - (k + 1) + 1 ELSE 0
        /\ \A i \in 1 .. Len(times) - (k + 1) + 1 :
             SubSeq(times, k + 1, Len(times))[i] = times[(k + 1) + i - 1]
    <3> HIDE DEF k
    <3>1. k + 1 \in Int /\ Len(times) \in Int
      BY <1>1, <1>6 DEF k
    <3>2. QED
      BY <2>1, <3>1, SubSeqProperties
  <2>3. PopExpired(times, start) = SubSeq(times, k + 1, Len(times))
    BY DEF PopExpired
  <2>4. Len(PopExpired(times, start)) = Len(times) - k
    <3> HIDE DEF k
    <3> QED BY <1>1, <1>6, <2>2, <2>3 DEF k
  <2>5. \A i \in 1 .. Len(PopExpired(times, start)) :
           PopExpired(times, start)[i] = times[k + i]
    <3> SUFFICES ASSUME NEW i \in 1 .. Len(times) - k
                 PROVE  PopExpired(times, start)[i] = times[k + i]
      BY <2>4
    <3>1. k \in Nat /\ Len(times) \in Nat
      BY <1>1, <1>6
    <3>2. i \in 1 .. Len(times) - (k + 1) + 1 /\ (k + 1) + i - 1 = k + i
      <4> HIDE DEF k
      <4> QED BY <3>1
    <3>3. QED
      BY <2>2, <2>3, <3>2
  <2>6. QED
    BY <1>6, <2>2, <2>3, <2>4, <2>5

-----------------------------------------------------------------------------
\* The clock, the queues, the history and the response have their types in
\* every reachable state.
LEMMA AppendTyped ==
    ASSUME NEW key \in AccessKeys, NEW H \in Histories,
           NEW S \in SUBSET BucketNames, NEW Q,
           \A b \in S : Q[b] \in Seq(Nat), clock \in Nat
    PROVE  /\ [H EXCEPT ![key] =
                 [b \in BucketNames |-> IF b \in S THEN Append(Q[b], clock)
                                        ELSE @[b]]] \in Histories
           /\ [H EXCEPT ![key] =
                 [b \in BucketNames |-> IF b \in S THEN Q[b] ELSE @[b]]]
                 \in Histories
<1>1. \A b \in S : Append(Q[b], clock) \in Seq(Nat)
  BY AppendProperties
<1>2. QED
  BY <1>1 DEF Histories

LEMMA PoppedType ==
    ASSUME TypeOK, NEW key \in AccessKeys, NEW b \in BucketNames,
           LimitOf(key, b) # NoLimit
    PROVE  Popped(key, b) \in Seq(Nat)
<1>1. request_times[key][b] \in Seq(Nat)
  BY DEF TypeOK, Histories
<1>2. clock - LimitOf(key, b).window_seconds \in Int
  BY BucketsType, MaxClockAssumption DEF TypeOK, RequestRateLimit
<1>3. QED
  BY <1>1, <1>2, PopExpiredIsSuffix DEF Popped

LEMMA TypePreserved == TypeOK /\ [Next]_vars => TypeOK'
<1> SUFFICES ASSUME TypeOK, [Next]_vars PROVE TypeOK'
  OBVIOUS
<1> USE MaxClockAssumption
<1>0. clock \in Nat /\ NoHistory \in [BucketNames -> Seq(Nat)]
  BY EmptySeq DEF TypeOK, NoHistory
<1>1. ASSUME NEW key \in AccessKeys, NEW e \in RateLimitedEndpoint, Accept(key, e)
      PROVE  TypeOK'
  <2> DEFINE Q == [b \in BucketNames |-> Popped(key, b)]
             H == [b \in BucketNames |-> accepted[key][b]]
  <2>1. Buckets(key, e) \in SUBSET BucketNames
    BY BucketsType
  <2>2. \A b \in Buckets(key, e) : Q[b] \in Seq(Nat) /\ H[b] \in Seq(Nat)
    BY <2>1, PoppedType DEF Buckets, TypeOK, Histories
  <2>3. request_times' = [request_times EXCEPT ![key] =
          [b \in BucketNames |-> IF b \in Buckets(key, e)
                                 THEN Append(Q[b], clock) ELSE @[b]]]
    BY <1>1, <2>1 DEF Accept
  <2>4. accepted' = [accepted EXCEPT ![key] =
          [b \in BucketNames |-> IF b \in Buckets(key, e)
                                 THEN Append(H[b], clock) ELSE @[b]]]
    BY <1>1, <2>1 DEF Accept
  <2>5. request_times' \in Histories
    <3> HIDE DEF Q
    <3>1. request_times \in Histories
      BY DEF TypeOK
    <3>2. QED
      BY <1>0, <2>1, <2>2, <2>3, <3>1, AppendTyped, ZenonT(30)
  <2>6. accepted' \in Histories
    <3> HIDE DEF H
    <3>1. accepted \in Histories
      BY DEF TypeOK
    <3>2. QED
      BY <1>0, <2>1, <2>2, <2>4, <3>1, AppendTyped, ZenonT(30)
  <2>7. QED
    BY <1>1, <2>5, <2>6 DEF TypeOK, Accept, Response
<1>2. ASSUME NEW key \in AccessKeys, NEW e \in RateLimitedEndpoint, Reject(key, e)
      PROVE  TypeOK'
  <2> DEFINE Q == [b \in BucketNames |-> Popped(key, b)]
  <2>1. Examined(key, e) \in SUBSET BucketNames
    BY BucketsType DEF Examined
  <2>2. \A b \in Examined(key, e) : Q[b] \in Seq(Nat)
    BY <2>1, PoppedType DEF Examined, Buckets
  <2>3. request_times' = [request_times EXCEPT ![key] =
          [b \in BucketNames |-> IF b \in Examined(key, e)
                                 THEN Q[b] ELSE @[b]]]
    BY <1>2, <2>1 DEF Reject
  <2>4. request_times' \in Histories
    <3> HIDE DEF Q
    <3>1. request_times \in Histories
      BY DEF TypeOK
    <3>2. QED
      BY <1>0, <2>1, <2>2, <2>3, <3>1, AppendTyped, ZenonT(30)
  <2>5. QED
    BY <1>2, <2>4 DEF TypeOK, Reject, Response
<1>3. ASSUME NEW key \in AccessKeys, RemoveDatabase(key) PROVE TypeOK'
  BY <1>0, <1>3 DEF TypeOK, RemoveDatabase, Histories
<1>4. CASE Restart
  BY <1>0, <1>4 DEF TypeOK, Restart, Histories
<1>5. CASE Tick
  BY <1>5 DEF TypeOK, Tick
<1>6. CASE UNCHANGED vars
  BY <1>6 DEF TypeOK, vars
<1>7. QED
  BY <1>1, <1>2, <1>3, <1>4, <1>5, <1>6, EndpointOfType DEF Next, Validate

LEMMA InitTypeOK == Init => TypeOK
  BY MaxClockAssumption, EmptySeq DEF Init, TypeOK, Histories, NoHistory

\* The queues always hold request times: no order of requests, removals and
\* restarts takes the limiter's state out of its types.
THEOREM TypeCorrect == Spec => []TypeOK
  BY InitTypeOK, TypePreserved, PTL DEF Spec

-----------------------------------------------------------------------------
\* What is left of times without the first of them, which are out of the window.
IsLeft(left, times, first, W, now) ==
    /\ Len(times) = first + Len(left)
    /\ \A i \in 1 .. Len(left) : left[i] = times[first + i]
    /\ \A i \in 1 .. first : times[i] + W <= now

InOrder(times) ==
    \A i, j \in 1 .. Len(times) : i <= j => times[i] <= times[j]

InWindowAfter(times, first, W, now) ==
    \A i \in 1 .. Len(times) : i > first => times[i] + W > now

\* Popping the tail of an ordered history leaves exactly its part that is
\* still in the window.
LEMMA PopKeepsWindow ==
    ASSUME NEW times \in Seq(Nat), NEW old \in Seq(Nat),
           NEW W \in Nat, NEW now \in Nat, NEW was \in Nat,
           IsLeft(old, times, was, W, now), InOrder(times)
    PROVE  \E gone \in Nat : /\ IsLeft(PopExpired(old, now - W), times, gone, W, now)
                             /\ InWindowAfter(times, gone, W, now)
<1>len. Len(times) = was + Len(old)
  BY DEF IsLeft
<1>0. /\ Len(times) = was + Len(old)
      /\ \A i \in 1 .. Len(old) : old[i] = times[was + i]
      /\ \A i \in 1 .. was : times[i] + W <= now
      /\ \A i, j \in 1 .. Len(times) : i <= j => times[i] <= times[j]
  BY DEF IsLeft, InOrder
<1>1. PICK cut \in Nat, queue \in Seq(Nat) :
        /\ queue = PopExpired(old, now - W)
        /\ cut <= Len(old)
        /\ \A i \in 1 .. cut : old[i] <= now - W
        /\ cut < Len(old) => old[cut + 1] > now - W
        /\ Len(queue) = Len(old) - cut
        /\ \A i \in 1 .. Len(queue) : queue[i] = old[cut + i]
  <2>1. now - W \in Int
    OBVIOUS
  <2>2. Expired(old, now - W) \in Nat
    BY <2>1, PopExpiredIsSuffix, LenProperties
  <2>3. Expired(old, now - W) <= Len(old)
    BY <2>1, PopExpiredIsSuffix, LenProperties
  <2>4. QED
    BY <2>1, <2>2, <2>3, PopExpiredIsSuffix
<1>2. \A i \in 1 .. Len(times) : times[i] \in Nat
  BY LenProperties
<1>3. Len(times) \in Nat /\ Len(old) \in Nat /\ Len(queue) \in Nat
  BY LenProperties
<1>4. Len(times) = (was + cut) + Len(queue)
  <2>1. Len(queue) = Len(old) - cut
    BY <1>1
  <2>2. QED
    BY <1>len, <1>3, <2>1
<1>5. \A i \in 1 .. Len(queue) : queue[i] = times[(was + cut) + i]
  <2> SUFFICES ASSUME NEW i \in 1 .. Len(queue)
               PROVE  queue[i] = times[(was + cut) + i]
    OBVIOUS
  <2>1. queue[i] = old[cut + i] /\ cut + i \in 1 .. Len(old)
    BY <1>1, <1>3
  <2>2. old[cut + i] = times[was + (cut + i)]
    BY <1>0, <2>1
  <2>3. was + (cut + i) = (was + cut) + i
    BY <1>3
  <2>4. QED
    BY <2>1, <2>2, <2>3
<1>6. \A i \in 1 .. (was + cut) : times[i] + W <= now
  <2> SUFFICES ASSUME NEW i \in 1 .. (was + cut), i > was
               PROVE  times[i] + W <= now
    BY <1>0
  <2>1. i - was \in 1 .. cut /\ i - was \in 1 .. Len(old)
    BY <1>1, <1>3
  <2>2. old[i - was] = times[was + (i - was)] /\ old[i - was] <= now - W
    BY <1>0, <2>1, <1>1
  <2>3. was + (i - was) = i /\ times[i] \in Nat
    BY <1>0, <1>1, <1>2, <1>3
  <2>4. QED
    BY <2>2, <2>3
<1>7. \A i \in 1 .. Len(times) : i > was + cut => times[i] + W > now
  <2> SUFFICES ASSUME NEW i \in 1 .. Len(times), i > was + cut
               PROVE  times[i] + W > now
    OBVIOUS
  <2>1. cut + 1 \in 1 .. Len(old)
    BY <1>0, <1>1, <1>3
  <2>2. times[was + (cut + 1)] > now - W
    <3>1. old[cut + 1] = times[was + (cut + 1)]
      BY <1>0, <2>1
    <3>2. cut < Len(old)
      BY <2>1, <1>3
    <3>3. QED
      BY <3>1, <3>2, <1>1
  <2>3. was + (cut + 1) \in 1 .. Len(times) /\ was + (cut + 1) <= i
    BY <1>0, <2>1, <1>3
  <2>4. times[was + (cut + 1)] <= times[i]
    BY <1>0, <2>3
  <2>5. times[was + (cut + 1)] \in Nat /\ times[i] \in Nat
    BY <2>3, <1>2
  <2>6. \A x, y \in Nat : x > now - W /\ x <= y => y + W > now
    OBVIOUS
  <2>7. QED
    BY <2>2, <2>4, <2>5, <2>6
<1>8. was + cut \in Nat
  OBVIOUS
<1>9. /\ IsLeft(queue, times, was + cut, W, now)
      /\ InWindowAfter(times, was + cut, W, now)
  BY <1>4, <1>5, <1>6, <1>7 DEF IsLeft, InWindowAfter
<1>10. QED
  BY <1>1, <1>8, <1>9

\* In every state, what popping leaves of a faithful queue is what a request
\* made now has to be weighed against.
LEMMA PoppedIsWindow ==
    ASSUME TypeOK, NEW key \in AccessKeys, NEW b \in BucketNames,
           LimitOf(key, b) # NoLimit,
           QueueIsRecentHistory(key, b), AcceptedInOrder(key, b)
    PROVE  \E gone \in Nat :
             /\ Len(accepted[key][b]) = gone + Len(Popped(key, b))
             /\ \A i \in 1 .. Len(Popped(key, b)) :
                   Popped(key, b)[i] = accepted[key][b][gone + i]
             /\ \A i \in 1 .. gone :
                   accepted[key][b][i] + LimitOf(key, b).window_seconds <= clock
             /\ \A i \in 1 .. Len(accepted[key][b]) : i > gone =>
                   accepted[key][b][i] + LimitOf(key, b).window_seconds > clock
<1>1. LimitOf(key, b).window_seconds \in Nat /\ clock \in Nat
  BY BucketsType, MaxClockAssumption DEF TypeOK, RequestRateLimit
<1>2. request_times[key][b] \in Seq(Nat) /\ accepted[key][b] \in Seq(Nat)
  BY DEF TypeOK, Histories
<1>3. \E was \in Nat :
         /\ Len(accepted[key][b]) = was + Len(request_times[key][b])
         /\ \A i \in 1 .. Len(request_times[key][b]) :
               request_times[key][b][i] = accepted[key][b][was + i]
         /\ \A i \in 1 .. was :
               accepted[key][b][i] + LimitOf(key, b).window_seconds <= clock
  <2> DEFINE gone == Len(accepted[key][b]) - Len(request_times[key][b])
  <2>1. gone \in Nat
    BY <1>2, LenProperties DEF QueueIsRecentHistory
  <2>2. Len(accepted[key][b]) = gone + Len(request_times[key][b])
    BY <1>2, LenProperties
  <2>3. QED
    BY <2>1, <2>2 DEF QueueIsRecentHistory
<1>4. \A i, j \in 1 .. Len(accepted[key][b]) :
         i <= j => accepted[key][b][i] <= accepted[key][b][j]
  BY DEF AcceptedInOrder
<1> DEFINE times == accepted[key][b]
           old == request_times[key][b]
           W == LimitOf(key, b).window_seconds
           left == Popped(key, b)
<1>5. left = PopExpired(old, clock - W)
  BY DEF Popped
<1>6. \E was \in Nat : IsLeft(old, times, was, W, clock)
  BY <1>3 DEF IsLeft
<1>7. /\ times \in Seq(Nat) /\ old \in Seq(Nat) /\ W \in Nat /\ clock \in Nat
      /\ InOrder(times)
  BY <1>1, <1>2, <1>4 DEF InOrder
<1> HIDE DEF times, old, W, left
<1>8. PICK gone \in Nat : /\ IsLeft(left, times, gone, W, clock)
                         /\ InWindowAfter(times, gone, W, clock)
  BY <1>5, <1>6, <1>7, PopKeepsWindow
<1>9. QED
  BY <1>8 DEF times, W, left, IsLeft, InWindowAfter

-----------------------------------------------------------------------------
\* What the invariant says of one bucket.
BucketInv(key, b) ==
    /\ LimitOf(key, b) = NoLimit => Uncounted(key, b)
    /\ LimitOf(key, b) # NoLimit =>
          /\ QueueIsRecentHistory(key, b)
          /\ AcceptedInOrder(key, b)
          /\ \A i \in 1 .. Len(accepted[key][b]) :
                i + LimitOf(key, b).max_requests <= Len(accepted[key][b]) =>
                   accepted[key][b][i + LimitOf(key, b).max_requests]
                     >= accepted[key][b][i] + LimitOf(key, b).window_seconds

BucketsInv == \A key \in AccessKeys : \A b \in BucketNames : BucketInv(key, b)

LEMMA BucketsInvMeaning == BucketsInv <=> QueuesFaithful /\ RateNeverExceeded
  BY DEF BucketsInv, BucketInv, QueuesFaithful, RateNeverExceeded

LEMMA BucketUntouched ==
    ASSUME NEW key \in AccessKeys, NEW b \in BucketNames, BucketInv(key, b),
           accepted'[key][b] = accepted[key][b],
           request_times'[key][b] = request_times[key][b],
           UNCHANGED clock
    PROVE  BucketInv(key, b)'
  BY DEF BucketInv, Uncounted, QueueIsRecentHistory, AcceptedInOrder

LEMMA BucketCounted ==
    ASSUME TypeOK, NEW key \in AccessKeys, NEW b \in BucketNames,
           BucketInv(key, b), LimitOf(key, b) # NoLimit, ~Exhausted(key, b),
           accepted'[key][b] = Append(accepted[key][b], clock),
           request_times'[key][b] = Append(Popped(key, b), clock),
           UNCHANGED clock
    PROVE  BucketInv(key, b)'
<1>1. QueueIsRecentHistory(key, b) /\ AcceptedInOrder(key, b)
  BY DEF BucketInv
<1>2. PICK gone \in Nat :
        /\ Len(accepted[key][b]) = gone + Len(Popped(key, b))
        /\ \A i \in 1 .. Len(Popped(key, b)) :
              Popped(key, b)[i] = accepted[key][b][gone + i]
        /\ \A i \in 1 .. gone :
              accepted[key][b][i] + LimitOf(key, b).window_seconds <= clock
  BY <1>1, PoppedIsWindow
<1>3. /\ LimitOf(key, b).window_seconds \in Nat
      /\ LimitOf(key, b).max_requests \in Nat
      /\ clock \in Nat
  BY BucketsType, MaxClockAssumption DEF TypeOK, RequestRateLimit
<1>4. accepted[key][b] \in Seq(Nat) /\ Popped(key, b) \in Seq(Nat)
  BY PoppedType DEF TypeOK, Histories
<1>5. Len(Popped(key, b)) < LimitOf(key, b).max_requests
  BY <1>3, <1>4, LenProperties DEF Exhausted
<1>6. /\ \A i \in 1 .. Len(accepted[key][b]) : accepted[key][b][i] <= clock
      /\ \A i, j \in 1 .. Len(accepted[key][b]) :
            i <= j => accepted[key][b][i] <= accepted[key][b][j]
      /\ \A i \in 1 .. Len(accepted[key][b]) :
            i + LimitOf(key, b).max_requests <= Len(accepted[key][b]) =>
               accepted[key][b][i + LimitOf(key, b).max_requests]
                 >= accepted[key][b][i] + LimitOf(key, b).window_seconds
  BY <1>1 DEF AcceptedInOrder, BucketInv
<1> DEFINE times == accepted[key][b]
           queue == Popped(key, b)
           T == Append(times, clock)
           Q == Append(queue, clock)
           W == LimitOf(key, b).window_seconds
           max == LimitOf(key, b).max_requests
<1>7. /\ T \in Seq(Nat) /\ Len(T) = Len(times) + 1
      /\ \A i \in 1 .. Len(times) : T[i] = times[i]
      /\ T[Len(times) + 1] = clock
  BY <1>3, <1>4, AppendProperties
<1>8. /\ Q \in Seq(Nat) /\ Len(Q) = Len(queue) + 1
      /\ \A i \in 1 .. Len(queue) : Q[i] = queue[i]
      /\ Q[Len(queue) + 1] = clock
  BY <1>3, <1>4, AppendProperties
<1>9. /\ Len(T) = gone + Len(Q)
      /\ \A i \in 1 .. Len(Q) : Q[i] = T[gone + i]
      /\ \A i \in 1 .. gone : T[i] + W <= clock
      /\ \A i \in 1 .. Len(T) : T[i] <= clock
      /\ \A i, j \in 1 .. Len(T) : i <= j => T[i] <= T[j]
      /\ \A i \in 1 .. Len(T) : i + max <= Len(T) => T[i + max] >= T[i] + W
  <2> HIDE DEF times, queue, T, Q, W, max
  <2>1. /\ times \in Seq(Nat) /\ queue \in Seq(Nat)
        /\ W \in Nat /\ max \in Nat /\ clock \in Nat
        /\ Len(times) = gone + Len(queue) /\ Len(queue) < max
        /\ \A i \in 1 .. Len(queue) : queue[i] = times[gone + i]
        /\ \A i \in 1 .. gone : times[i] + W <= clock
        /\ \A i \in 1 .. Len(times) : times[i] <= clock
        /\ \A i, j \in 1 .. Len(times) : i <= j => times[i] <= times[j]
        /\ \A i \in 1 .. Len(times) :
              i + max <= Len(times) => times[i + max] >= times[i] + W
    BY <1>2, <1>3, <1>4, <1>5, <1>6 DEF times, queue, W, max
  <2>2. Len(times) \in Nat /\ Len(queue) \in Nat
    BY <2>1, LenProperties
  <2>3. Len(T) = Len(times) + 1 /\ max \in Nat
    BY <2>1, <1>7
  <2>4. Len(T) = gone + Len(Q)
    BY <2>1, <2>2, <1>7, <1>8
  <2>5. \A i \in 1 .. Len(times) : times[i] \in Nat
    BY <2>1, LenProperties
  <2>6. \A i \in 1 .. Len(Q) : Q[i] = T[gone + i]
    <3> SUFFICES ASSUME NEW i \in 1 .. Len(Q) PROVE Q[i] = T[gone + i]
      OBVIOUS
    <3>1. CASE i = Len(queue) + 1
      BY <2>1, <3>1, <2>2, <1>7, <1>8
    <3>2. CASE i \in 1 .. Len(queue)
      <4>1. gone + i \in 1 .. Len(times)
        BY <2>1, <3>2, <2>2
      <4>2. QED
        BY <2>1, <3>2, <4>1, <1>7, <1>8
    <3>3. i = Len(queue) + 1 \/ i \in 1 .. Len(queue)
      BY <2>1, <2>2, <1>8
    <3>4. QED
      BY <2>1, <3>1, <3>2, <3>3
  <2>7. \A i \in 1 .. gone : T[i] + W <= clock
    BY <2>1, <2>2, <1>7
  <2>8. \A i \in 1 .. Len(T) : T[i] <= clock /\ T[i] \in Nat
    <3> SUFFICES ASSUME NEW i \in 1 .. Len(T)
                 PROVE  T[i] <= clock /\ T[i] \in Nat
      OBVIOUS
    <3>1. CASE i = Len(times) + 1
      BY <2>1, <3>1, <1>7
    <3>2. CASE i \in 1 .. Len(times)
      BY <2>1, <2>5, <3>2, <1>7
    <3>3. i = Len(times) + 1 \/ i \in 1 .. Len(times)
      BY <2>2, <1>7
    <3>4. QED
      BY <3>1, <3>2, <3>3
  <2>9. \A i, j \in 1 .. Len(T) : i <= j => T[i] <= T[j]
    <3> SUFFICES ASSUME NEW i \in 1 .. Len(T), NEW j \in 1 .. Len(T), i <= j
                 PROVE  T[i] <= T[j]
      OBVIOUS
    <3>1. CASE j = Len(times) + 1
      BY <2>1, <3>1, <1>7, <2>8
    <3>2. CASE j \in 1 .. Len(times)
      <4>1. i \in 1 .. Len(times)
        BY <2>1, <3>2, <2>2, <1>7
      <4>2. times[i] <= times[j]
        BY <2>1, <3>2, <4>1
      <4>3. T[i] = times[i] /\ T[j] = times[j]
        BY <3>2, <4>1, <1>7
      <4>4. QED
        BY <3>2, <4>1, <4>2, <4>3
    <3>3. j = Len(times) + 1 \/ j \in 1 .. Len(times)
      BY <2>2, <2>3
    <3>4. QED
      BY <2>1, <3>1, <3>2, <3>3
  <2>10. \A i \in 1 .. Len(T) : i + max <= Len(T) => T[i + max] >= T[i] + W
    <3> SUFFICES ASSUME NEW i \in 1 .. Len(T), i + max <= Len(T)
                 PROVE  T[i + max] >= T[i] + W
      OBVIOUS
    <3>1. CASE i + max = Len(times) + 1
      <4>1. i \in 1 .. gone
        BY <2>1, <3>1, <2>2
      <4>2. T[i + max] = clock /\ T[i] + W <= clock
        BY <2>1, <3>1, <4>1, <1>7, <2>7
      <4>3. QED
        BY <2>1, <4>2
    <3>2. CASE i + max <= Len(times)
      <4>1. i \in 1 .. Len(times) /\ i + max \in 1 .. Len(times)
        BY <2>1, <3>2, <2>2
      <4>2. times[i + max] >= times[i] + W
        BY <2>1, <3>2, <4>1
      <4>3. T[i + max] = times[i + max] /\ T[i] = times[i]
        BY <2>1, <4>1, <1>7
      <4>4. QED
        BY <2>1, <4>2, <4>3
    <3>3. i + max = Len(times) + 1 \/ i + max <= Len(times)
      BY <2>2, <2>3
    <3>4. QED
      BY <3>1, <3>2, <3>3
  <2>11. QED
    BY <2>4, <2>6, <2>7, <2>8, <2>9, <2>10
<1>10. Len(T) - Len(Q) = gone
  <2>1. Len(T) \in Nat /\ Len(Q) \in Nat
    BY <1>7, <1>8, LenProperties
  <2> HIDE DEF T, Q
  <2>2. QED
    BY <2>1, <1>9
<1>11. accepted'[key][b] = T /\ request_times'[key][b] = Q
  OBVIOUS
<1> HIDE DEF times, queue, T, Q
<1>12. QueueIsRecentHistory(key, b)' /\ AcceptedInOrder(key, b)'
  BY <1>9, <1>10, <1>11 DEF QueueIsRecentHistory, AcceptedInOrder
<1>13. QED
  BY <1>9, <1>11, <1>12 DEF BucketInv

LEMMA BucketPopped ==
    ASSUME TypeOK, NEW key \in AccessKeys, NEW b \in BucketNames,
           BucketInv(key, b), LimitOf(key, b) # NoLimit,
           accepted'[key][b] = accepted[key][b],
           request_times'[key][b] = Popped(key, b),
           UNCHANGED clock
    PROVE  BucketInv(key, b)'
<1>1. QueueIsRecentHistory(key, b) /\ AcceptedInOrder(key, b)
  BY DEF BucketInv
<1>2. PICK gone \in Nat :
        /\ Len(accepted[key][b]) = gone + Len(Popped(key, b))
        /\ \A i \in 1 .. Len(Popped(key, b)) :
              Popped(key, b)[i] = accepted[key][b][gone + i]
        /\ \A i \in 1 .. gone :
              accepted[key][b][i] + LimitOf(key, b).window_seconds <= clock
  BY <1>1, PoppedIsWindow
<1>3. Len(accepted[key][b]) \in Nat /\ Len(Popped(key, b)) \in Nat
  BY PoppedType, LenProperties DEF TypeOK, Histories
<1>4. Len(accepted[key][b]) - Len(Popped(key, b)) = gone
  BY <1>2, <1>3
<1>5. QueueIsRecentHistory(key, b)'
  BY <1>2, <1>4 DEF QueueIsRecentHistory
<1>6. QED
  BY <1>5 DEF BucketInv, AcceptedInOrder

LEMMA BucketEmptied ==
    ASSUME NEW key \in AccessKeys, NEW b \in BucketNames,
           accepted'[key][b] = <<>>, request_times'[key][b] = <<>>
    PROVE  BucketInv(key, b)'
<1>1. Len(accepted'[key][b]) = 0 /\ Len(request_times'[key][b]) = 0
  BY EmptySeq
<1>2. QED
  BY <1>1 DEF BucketInv, Uncounted, QueueIsRecentHistory, AcceptedInOrder

LEMMA BucketAged ==
    ASSUME TypeOK, NEW key \in AccessKeys, NEW b \in BucketNames,
           BucketInv(key, b), Tick
    PROVE  BucketInv(key, b)'
<1>1. CASE LimitOf(key, b) = NoLimit
  BY <1>1 DEF BucketInv, Uncounted, Tick
<1>2. CASE LimitOf(key, b) # NoLimit
  <2>1. /\ LimitOf(key, b).window_seconds \in Nat
        /\ clock \in Nat /\ clock' = clock + 1
        /\ accepted' = accepted /\ request_times' = request_times
    BY <1>2, BucketsType, MaxClockAssumption DEF TypeOK, RequestRateLimit, Tick
  <2>2. /\ accepted[key][b] \in Seq(Nat) /\ request_times[key][b] \in Seq(Nat)
    BY DEF TypeOK, Histories
  <2>3. /\ \A i \in 1 .. Len(accepted[key][b]) : accepted[key][b][i] \in Nat
        /\ Len(accepted[key][b]) \in Nat /\ Len(request_times[key][b]) \in Nat
    BY <2>2, LenProperties
  <2>4. QueueIsRecentHistory(key, b)'
    <3> DEFINE gone == Len(accepted[key][b]) - Len(request_times[key][b])
    <3>1. /\ gone >= 0
          /\ \A i \in 1 .. Len(request_times[key][b]) :
                request_times[key][b][i] = accepted[key][b][gone + i]
          /\ \A i \in 1 .. gone :
                accepted[key][b][i] + LimitOf(key, b).window_seconds <= clock
      BY <1>2 DEF BucketInv, QueueIsRecentHistory
    <3>2. \A i \in 1 .. gone : i \in 1 .. Len(accepted[key][b])
      BY <2>3
    <3>3. \A i \in 1 .. gone :
             accepted[key][b][i] + LimitOf(key, b).window_seconds <= clock + 1
      <4> SUFFICES ASSUME NEW i \in 1 .. gone
                   PROVE  accepted[key][b][i] + LimitOf(key, b).window_seconds
                            <= clock + 1
        OBVIOUS
      <4>1. accepted[key][b][i] \in Nat
        BY <3>2, <2>3
      <4>2. accepted[key][b][i] + LimitOf(key, b).window_seconds <= clock
        BY <3>1
      <4> HIDE DEF gone
      <4>3. QED
        BY <4>1, <4>2, <2>1
    <3>4. QED
      BY <3>1, <3>3, <2>1 DEF QueueIsRecentHistory
  <2>5. AcceptedInOrder(key, b)'
    <3>1. /\ \A i \in 1 .. Len(accepted[key][b]) : accepted[key][b][i] <= clock
          /\ \A i, j \in 1 .. Len(accepted[key][b]) :
                i <= j => accepted[key][b][i] <= accepted[key][b][j]
      BY <1>2 DEF BucketInv, AcceptedInOrder
    <3>2. \A i \in 1 .. Len(accepted[key][b]) : accepted[key][b][i] <= clock + 1
      BY <2>1, <2>3, <3>1
    <3>3. QED
      BY <2>1, <3>1, <3>2 DEF AcceptedInOrder
  <2>6. QED
    BY <1>2, <2>1, <2>4, <2>5 DEF BucketInv
<1>3. QED
  BY <1>1, <1>2

LEMMA BucketsPreserved == TypeOK /\ BucketsInv /\ [Next]_vars => BucketsInv'
<1> SUFFICES ASSUME TypeOK, BucketsInv, [Next]_vars,
                    NEW k \in AccessKeys, NEW b \in BucketNames
             PROVE  BucketInv(k, b)'
  BY DEF BucketsInv
<1>0. BucketInv(k, b)
  BY DEF BucketsInv
<1>1. ASSUME NEW key \in AccessKeys, NEW e \in RateLimitedEndpoint, Accept(key, e)
      PROVE  BucketInv(k, b)'
  <2>1. CASE k = key /\ b \in Buckets(key, e)
    <3>1. LimitOf(k, b) # NoLimit /\ ~Exhausted(k, b)
      BY <1>1, <2>1 DEF Accept, Buckets
    <3>2. /\ accepted'[k][b] = Append(accepted[k][b], clock)
          /\ request_times'[k][b] = Append(Popped(k, b), clock)
          /\ UNCHANGED clock
      BY <1>1, <2>1 DEF Accept, TypeOK, Histories
    <3>3. QED
      BY <1>0, <3>1, <3>2, BucketCounted
  <2>2. CASE ~(k = key /\ b \in Buckets(key, e))
    <3>1. /\ accepted'[k][b] = accepted[k][b]
          /\ request_times'[k][b] = request_times[k][b]
          /\ UNCHANGED clock
      BY <1>1, <2>2 DEF Accept, TypeOK, Histories
    <3>2. QED
      BY <1>0, <3>1, BucketUntouched
  <2>3. QED
    BY <2>1, <2>2
<1>2. ASSUME NEW key \in AccessKeys, NEW e \in RateLimitedEndpoint, Reject(key, e)
      PROVE  BucketInv(k, b)'
  <2>1. CASE k = key /\ b \in Examined(key, e)
    <3>1. LimitOf(k, b) # NoLimit
      BY <2>1 DEF Examined, Buckets
    <3>2. /\ accepted'[k][b] = accepted[k][b]
          /\ request_times'[k][b] = Popped(k, b)
          /\ UNCHANGED clock
      BY <1>2, <2>1 DEF Reject, TypeOK, Histories
    <3>3. QED
      BY <1>0, <3>1, <3>2, BucketPopped
  <2>2. CASE ~(k = key /\ b \in Examined(key, e))
    <3>1. /\ accepted'[k][b] = accepted[k][b]
          /\ request_times'[k][b] = request_times[k][b]
          /\ UNCHANGED clock
      BY <1>2, <2>2 DEF Reject, TypeOK, Histories
    <3>2. QED
      BY <1>0, <3>1, BucketUntouched
  <2>3. QED
    BY <2>1, <2>2
<1>3. ASSUME NEW key \in AccessKeys, RemoveDatabase(key)
      PROVE  BucketInv(k, b)'
  <2>1. CASE k = key
    BY <1>3, <2>1, BucketEmptied DEF RemoveDatabase, NoHistory, TypeOK, Histories
  <2>2. CASE k # key
    <3>1. /\ accepted'[k][b] = accepted[k][b]
          /\ request_times'[k][b] = request_times[k][b]
          /\ UNCHANGED clock
      BY <1>3, <2>2 DEF RemoveDatabase, TypeOK, Histories
    <3>2. QED
      BY <1>0, <3>1, BucketUntouched
  <2>3. QED
    BY <2>1, <2>2
<1>4. CASE Restart
  BY <1>4, BucketEmptied DEF Restart, NoHistory
<1>5. CASE Tick
  BY <1>0, <1>5, BucketAged
<1>6. CASE UNCHANGED vars
  BY <1>0, <1>6, BucketUntouched DEF vars
<1>7. QED
  BY <1>1, <1>2, <1>3, <1>4, <1>5, <1>6, EndpointOfType DEF Next, Validate

LEMMA InitBuckets == Init => BucketsInv
<1> SUFFICES ASSUME Init, NEW k \in AccessKeys, NEW b \in BucketNames
             PROVE  BucketInv(k, b)
  BY DEF BucketsInv
<1>1. accepted[k][b] = <<>> /\ request_times[k][b] = <<>>
  BY DEF Init, NoHistory
<1>2. Len(accepted[k][b]) = 0 /\ Len(request_times[k][b]) = 0
  BY <1>1, EmptySeq
<1>3. QED
  BY <1>1, <1>2 DEF BucketInv, Uncounted, QueueIsRecentHistory, AcceptedInOrder

\* A bucket never accepts more than max_requests within its window, however
\* requests are spread over threads, endpoints and time.
THEOREM RateLimitHolds == Spec => []RateNeverExceeded
<1>1. TypeOK /\ BucketsInv /\ [Next]_vars => (TypeOK /\ BucketsInv)'
  BY TypePreserved, BucketsPreserved
<1>2. Init => TypeOK /\ BucketsInv
  BY InitTypeOK, InitBuckets
<1>3. BucketsInv => RateNeverExceeded
  BY BucketsInvMeaning
<1>4. QED
  BY <1>1, <1>2, <1>3, PTL DEF Spec

\* The queues always hold enough of the past to decide.
THEOREM QueuesStayFaithful == Spec => []QueuesFaithful
<1>1. TypeOK /\ BucketsInv /\ [Next]_vars => (TypeOK /\ BucketsInv)'
  BY TypePreserved, BucketsPreserved
<1>2. Init => TypeOK /\ BucketsInv
  BY InitTypeOK, InitBuckets
<1>3. BucketsInv => QueuesFaithful
  BY BucketsInvMeaning
<1>4. QED
  BY <1>1, <1>2, <1>3, PTL DEF Spec

-----------------------------------------------------------------------------
\* The instance looks limits and buckets up in the same way.
LEMMA SameLookups ==
    ASSUME NEW key \in AccessKeys
    PROVE  /\ \A e : Abstract!Buckets(key, e) = Buckets(key, e)
           /\ \A b : Abstract!LimitOf(key, b) = LimitOf(key, b)
           /\ Abstract!BucketNames = BucketNames
  BY DEF Abstract!Buckets, Buckets, Abstract!LimitOf, LimitOf,
         Abstract!ForEndpoint, ForEndpoint, Abstract!BucketNames, BucketNames,
         Abstract!RateLimitedEndpoint, RateLimitedEndpoint

\* The queue is exhausted exactly when the whole history leaves no room.
LEMMA ExhaustedMeansNoRoom ==
    ASSUME TypeOK, BucketsInv, NEW key \in AccessKeys, NEW b \in BucketNames,
           LimitOf(key, b) # NoLimit
    PROVE  Exhausted(key, b) <=> ~Abstract!HasRoom(key, b)
<1> DEFINE times == accepted[key][b]
           queue == Popped(key, b)
           W == LimitOf(key, b).window_seconds
           max == LimitOf(key, b).max_requests
<1>1. PICK gone \in Nat :
        /\ Len(times) = gone + Len(queue)
        /\ \A i \in 1 .. gone : times[i] + W <= clock
        /\ \A i \in 1 .. Len(times) : i > gone => times[i] + W > clock
  <2>1. QueueIsRecentHistory(key, b) /\ AcceptedInOrder(key, b)
    BY DEF BucketsInv, BucketInv
  <2>2. QED
    BY <2>1, PoppedIsWindow
<1>2. W \in Nat /\ max \in Nat /\ clock \in Nat
  BY BucketsType, MaxClockAssumption DEF TypeOK, RequestRateLimit
<1>3. Len(times) \in Nat /\ Len(queue) \in Nat
  BY PoppedType, LenProperties DEF TypeOK, Histories
<1>4. \A i \in 1 .. Len(times) : times[i] \in Nat
  <2>1. times \in Seq(Nat)
    BY DEF TypeOK, Histories
  <2>2. QED
    BY <2>1, LenProperties
<1>5. Exhausted(key, b) <=> Len(queue) >= max
  BY DEF Exhausted
<1>6. Abstract!HasRoom(key, b) <=>
        \/ Len(times) < max
        \/ max > 0 /\ times[Len(times) + 1 - max] + W <= clock
  BY SameLookups DEF Abstract!HasRoom
<1> HIDE DEF times, queue, W, max
<1>7. CASE Len(queue) < max
  <2>1. ~(Len(queue) >= max)
    BY <1>2, <1>3, <1>7
  <2>2. ASSUME ~(Len(times) < max)
        PROVE  max > 0 /\ times[Len(times) + 1 - max] + W <= clock
    <3>1. Len(times) + 1 - max \in 1 .. gone /\ max > 0
      BY <1>1, <1>2, <1>3, <1>7, <2>2
    <3>2. QED
      BY <3>1, <1>1
  <2>3. QED
    BY <2>1, <2>2, <1>5, <1>6
<1>8. CASE Len(queue) >= max
  <2>1. ~(Len(times) < max)
    BY <1>1, <1>2, <1>3, <1>8
  <2>2. ASSUME max > 0 PROVE ~(times[Len(times) + 1 - max] + W <= clock)
    <3>1. /\ Len(times) + 1 - max \in 1 .. Len(times)
          /\ Len(times) + 1 - max > gone
      BY <1>1, <1>2, <1>3, <1>8, <2>2
    <3>2. times[Len(times) + 1 - max] + W > clock
      BY <3>1, <1>1
    <3>3. times[Len(times) + 1 - max] \in Nat
      BY <3>1, <1>4
    <3>4. QED
      BY <3>2, <3>3, <1>2
  <2>3. QED
    BY <2>1, <2>2, <1>5, <1>6, <1>8
<1>9. QED
  BY <1>2, <1>3, <1>7, <1>8

LEMMA StepRefines ==
    TypeOK /\ BucketsInv /\ [Next]_vars => [Abstract!Next]_(Abstract!vars)
<1> SUFFICES ASSUME TypeOK, BucketsInv, [Next]_vars
             PROVE  [Abstract!Next]_(Abstract!vars)
  OBVIOUS
<1>0. \A key \in AccessKeys, e \in RateLimitedEndpoint :
         \A b \in Buckets(key, e) :
            /\ b \in BucketNames
            /\ Exhausted(key, b) <=> ~Abstract!HasRoom(key, b)
  BY BucketsType, ExhaustedMeansNoRoom DEF Buckets
<1>00. Abstract!RateLimitedEndpoint = RateLimitedEndpoint
  BY DEF Abstract!RateLimitedEndpoint, RateLimitedEndpoint
<1>1. ASSUME NEW key \in AccessKeys, NEW e \in RateLimitedEndpoint, Accept(key, e)
      PROVE  Abstract!Accept(key, e)
  BY <1>0, <1>1, SameLookups DEF Accept, Abstract!Accept
<1>2. ASSUME NEW key \in AccessKeys, NEW e \in RateLimitedEndpoint, Reject(key, e)
      PROVE  Abstract!Reject(key, e)
  BY <1>0, <1>2, SameLookups DEF Reject, Abstract!Reject
<1>3. ASSUME NEW key \in AccessKeys, RemoveDatabase(key) PROVE Abstract!Forget(key)
  BY <1>3, SameLookups
     DEF RemoveDatabase, Abstract!Forget, NoHistory, Abstract!NoHistory
<1>4. ASSUME Restart PROVE Abstract!ForgetAll
  BY <1>4, SameLookups
     DEF Restart, Abstract!ForgetAll, NoHistory, Abstract!NoHistory
<1>5. ASSUME Tick PROVE Abstract!Tick
  BY <1>5 DEF Tick, Abstract!Tick
<1>6. ASSUME UNCHANGED vars PROVE UNCHANGED Abstract!vars
  BY <1>6 DEF vars, Abstract!vars
<1>7. QED
  BY <1>00, <1>1, <1>2, <1>3, <1>4, <1>5, <1>6, EndpointOfType
     DEF Next, Validate, Abstract!Next

\* The limiter accepts and rejects exactly as one that never forgets a
\* request it accepted.
THEOREM Refinement == Spec => ImplementsSlidingWindow
<1>1. Init => Abstract!Init
  BY SameLookups DEF Init, Abstract!Init, NoHistory, Abstract!NoHistory,
                     Abstract!BucketNames, BucketNames,
                     Abstract!RateLimitedEndpoint, RateLimitedEndpoint
<1>2. TypeOK /\ BucketsInv /\ [Next]_vars => (TypeOK /\ BucketsInv)'
  BY TypePreserved, BucketsPreserved
<1>3. Init => TypeOK /\ BucketsInv
  BY InitTypeOK, InitBuckets
<1>4. QED
  BY <1>1, <1>2, <1>3, StepRefines, PTL
     DEF Spec, ImplementsSlidingWindow, Abstract!Spec
=============================================================================
