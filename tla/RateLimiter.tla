---------------------------- MODULE RateLimiter ----------------------------
(***************************************************************************)
(* apps/api-server/src/rate_limit.rs: a sliding window of request times    *)
(* per bucket and client.  A request reads the clock, then waits for the   *)
(* mutex, then is let through or refused in one critical section: other    *)
(* requests, with later times, can be served in between.                   *)
(*                                                                         *)
(* A key is the pair of a bucket of paths and a client; /health and        *)
(* /metrics touch no state and are left out.  The list of a key is a bag   *)
(* of times: the code counts its entries and compares each of them with    *)
(* the clock, whatever their order.                                        *)
(***************************************************************************)
EXTENDS Integers, FiniteSets

F == INSTANCE Functions

CONSTANTS Threads,       \* requests that can be in progress at a time
          Buckets,       \* groups of paths
          Clients,       \* IP addresses
          Unknown,       \* the client of requests without a valid IP
          BaseLimit,     \* requests per window and key, by bucket
          Divisor,       \* UNKNOWN_LIMIT_DIVISOR
          Window,        \* WINDOW_SECS
          MaxEntries,    \* entries above which the map is pruned
          MaxTime,       \* bound: the clock stops here
          MaxRequests    \* bound: requests let through or waiting, over all keys

WindowKeys == Buckets \X (Clients \cup {Unknown})

Times == 0..MaxTime

ASSUME LimiterAssumption ==
    /\ Threads # {} /\ IsFiniteSet(Threads)
    /\ BaseLimit \in [Buckets -> Nat \ {0}]
    /\ Divisor \in Nat \ {0} /\ Window \in Nat \ {0}
    /\ MaxEntries \in Nat /\ MaxTime \in Nat /\ MaxRequests \in Nat

VARIABLES windows,   \* the map: from the keys in it, how often each time is listed
          request,   \* per thread: [key, at] while it waits for the mutex
          now,
          passed     \* history: how many requests of a key and time passed

limiterVars == <<windows, request, now, passed>>

NoRequest == [key |-> << >>, at |-> 0]

Limit(key) ==
    LET base == BaseLimit[key[1]]
    IN  IF key[2] # Unknown THEN base
        ELSE IF base \div Divisor = 0 THEN 1 ELSE base \div Divisor

NoTimes == [t \in Times |-> 0]

LimiterTypeOK ==
    /\ DOMAIN windows \subseteq WindowKeys
    /\ \A k \in DOMAIN windows : windows[k] \in [Times -> Nat]
    /\ request \in [Threads -> [key : WindowKeys, at : Times] \cup {NoRequest}]
    /\ now \in Times
    /\ passed \in [WindowKeys -> [Times -> Nat]]

LimiterInit == /\ windows = << >>
               /\ request = [t \in Threads |-> NoRequest]
               /\ now = 0
               /\ passed = [k \in WindowKeys |-> NoTimes]

-----------------------------------------------------------------------------
(* Faults: single slips in the code below, for mutation runs *)

Recent_DropsTooSoon(k, at) ==
    [t \in Times |-> IF at + 1 < t + Window /\ k \in DOMAIN windows THEN windows[k][t] ELSE 0]

-----------------------------------------------------------------------------
(* One request *)

Listed(k) == IF k \in DOMAIN windows THEN windows[k] ELSE NoTimes

\* Times of key k older than the window are dropped; duration_since is zero
\* for a time ahead of the reader's.
Recent(k, at) == [t \in Times |-> IF at < t + Window THEN Listed(k)[t] ELSE 0]

WithTimes(k, times) ==
    [key \in DOMAIN windows \cup {k} |-> IF key = k THEN times ELSE windows[key]]

\* Keys without times go when the map is too large.
Pruned(map) ==
    IF Cardinality(DOMAIN map) > MaxEntries
    THEN [key \in {k \in DOMAIN map : map[k] # NoTimes} |-> map[key]]
    ELSE map

Size(times) == F!FoldFunction(+, 0, times)

HasRoom(times, k) == Size(times) < Limit(k)

Total == F!FoldFunction(+, 0, [k \in WindowKeys |-> Size(passed[k])])
         + Cardinality({t \in Threads : request[t] # NoRequest})

\* `let now = Instant::now()`, before the mutex is asked for.
Arrive(thread, k) ==
    /\ request[thread] = NoRequest
    /\ Total < MaxRequests
    /\ request' = [request EXCEPT ![thread] = [key |-> k, at |-> now]]
    /\ UNCHANGED <<windows, now, passed>>

Pass(thread) ==
    LET k == request[thread].key
        at == request[thread].at
    IN  /\ request[thread] # NoRequest
        /\ HasRoom(Recent(k, at), k)
        /\ windows' = Pruned(WithTimes(k, [Recent(k, at) EXCEPT ![at] = @ + 1]))
        /\ passed' = [passed EXCEPT ![k][at] = @ + 1]
        /\ request' = [request EXCEPT ![thread] = NoRequest]
        /\ UNCHANGED now

\* 429.  The entry is pruned of old times all the same.
Refuse(thread) ==
    LET k == request[thread].key
        at == request[thread].at
    IN  /\ request[thread] # NoRequest
        /\ ~HasRoom(Recent(k, at), k)
        /\ windows' = WithTimes(k, Recent(k, at))
        /\ request' = [request EXCEPT ![thread] = NoRequest]
        /\ UNCHANGED <<now, passed>>

Tick == /\ now < MaxTime
        /\ now' = now + 1
        /\ UNCHANGED <<windows, request, passed>>

LimiterNext == \/ \E t \in Threads, k \in WindowKeys : Arrive(t, k)
               \/ \E t \in Threads : Pass(t) \/ Refuse(t)
               \/ Tick

LimiterSpec == LimiterInit /\ [][LimiterNext]_limiterVars

-----------------------------------------------------------------------------
(* Properties *)

\* Requests of key k let through with a time in the window that starts at s.
InWindow(k, s) ==
    F!FoldFunctionOnSet(+, 0, passed[k], {t \in Times : s <= t /\ t < s + Window})

\* However requests overtake each other between reading the clock and taking
\* the mutex (lines 66-69), a window holds at most as many requests above the
\* limit as there are others in progress.
OverrunIsBounded ==
    \A k \in WindowKeys, s \in Times :
        InWindow(k, s) <= Limit(k) + Cardinality(Threads) - 1

-----------------------------------------------------------------------------
(* What the code's comments say and the code does not do, see README.md *)

\* "Limits (per rolling 60-second window)" (line 3).
LimitPerRollingWindow ==
    \A k \in WindowKeys, s \in Times : InWindow(k, s) <= Limit(k)

\* "Stale IPs are pruned when the map exceeds 50,000 entries" (line 18): after
\* a request that found the map too large, every key has a recent request.
StaleClientsArePruned ==
    [][\A t \in Threads : Pass(t) /\ Cardinality(DOMAIN windows) > MaxEntries =>
         \A k \in DOMAIN windows' :
            \E at \in Times : windows'[k][at] > 0 /\ now < at + Window]_limiterVars
=============================================================================
