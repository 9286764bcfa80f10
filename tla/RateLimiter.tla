----------------------------- MODULE RateLimiter -----------------------------
(***************************************************************************)
(* The sliding-window limiter of one client: RateLimiter.check and its Lua *)
(* script (app/redis_utils/rate_limiter.py) and the answer                 *)
(* rate_limited_client makes of it (app/core/deps.py). The keys of         *)
(* different clients share nothing.                                        *)
(*                                                                         *)
(* A call reads its API instance's clock, travels to Redis and runs the    *)
(* script there in one step. Time is counted in ticks by the clock of the  *)
(* Redis server; an instance's clock is ahead of it by a constant skew,    *)
(* and a call is at most MaxDelay ticks on its way.                        *)
(*                                                                         *)
(* A call is named by its time stamp and id(object()). That object is      *)
(* freed at once, so its address is free for the next call: ids are an     *)
(* arbitrary choice, and calls that read the same millisecond may share    *)
(* their member of the sorted set.                                         *)
(***************************************************************************)
EXTENDS Integers, FiniteSets

CONSTANTS
    Calls,      \* calls of check
    Instances,  \* API instances
    Ids,        \* values of id(object())
    Limit,      \* rate_limit_per_minute
    Window,     \* window_ms
    Second,     \* ticks in a second
    MaxSkew,    \* bound: how far an instance's clock is ahead
    MaxDelay,   \* bound: time between reading the clock and the script
    MaxTime     \* bound: length of a behaviour

ASSUME LimiterAssumption ==
    /\ IsFiniteSet(Calls)
    /\ Limit \in Nat /\ Window \in Nat \ {0} /\ Second \in Nat \ {0}
    /\ MaxSkew \in Nat /\ MaxDelay \in Nat /\ MaxTime \in Nat

VARIABLES
    time,      \* the clock of the Redis server
    skew,      \* per instance
    zset,      \* the sorted set: members <<score, id>>, the score is the stamp
    expireAt,  \* when the key expires
    pc,        \* per call: "new", "sent", "done"
    stamp,     \* per call: now_ms
    tag,       \* per call: id(object()), the other half of the member
    at,        \* per call: when the script ran or the call was issued
    result     \* per call: what check returns and the Retry-After it becomes

vars == <<time, skew, zset, expireAt, pc, stamp, tag, at, result>>

\* outcome: "none" so far; "admitted" and "rejected" by the script; "open" is
\* a call let through because Redis failed.
Outcome == {"none", "admitted", "rejected", "open"}
Result == [outcome: Outcome, retry_after: Nat]

Init ==
    /\ time = 0
    /\ skew \in [Instances -> 0..MaxSkew]
    /\ zset = {} /\ expireAt = 0
    /\ pc = [c \in Calls |-> "new"]
    /\ stamp = [c \in Calls |-> 0]
    /\ tag \in [Calls -> Ids]
    /\ at = [c \in Calls |-> 0]
    /\ result = [c \in Calls |-> [outcome |-> "none", retry_after |-> 0]]

-----------------------------------------------------------------------------
Member(c) == <<stamp[c], tag[c]>>

Finish(c, outcome, retry) ==
    /\ pc' = [pc EXCEPT ![c] = "done"]
    /\ result' = [result EXCEPT ![c] =
                    [outcome |-> outcome, retry_after |-> retry]]

\* The script's reply, unless it is lost: then the call is let through too.
Reply(c, outcome, retry) ==
    Finish(c, outcome, retry) \/ Finish(c, "open", 0)

\* check: read the clock, name the member, call the script.
Send(c, i) ==
    /\ pc[c] = "new"
    /\ stamp' = [stamp EXCEPT ![c] = time + skew[i]]
    /\ pc' = [pc EXCEPT ![c] = "sent"]
    /\ at' = [at EXCEPT ![c] = time]
    /\ UNCHANGED <<time, skew, zset, expireAt, tag, result>>

\* Mutants: nothing is trimmed; entries are trimmed a tick early.
TrimmedNever(now) == zset
TrimmedEarly(now) == {m \in zset : m[1] > now - Window + 1}

\* ZREMRANGEBYSCORE key 0 now-window
Trimmed(now) == {m \in zset : m[1] > now - Window}

Full(S) == Cardinality(S) >= Limit

\* Mutant: the age of the oldest entry, not the time it has left.
RetryMsAge(now, S) ==
    IF S = {} THEN Window
    ELSE now - (CHOOSE m \in S : \A n \in S : m[1] <= n[1])[1]

\* Milliseconds until the oldest entry leaves the window, and the header
\* rate_limited_client makes of them, back in ticks.
RetryMs(now, S) ==
    IF S = {} THEN Window
    ELSE Window - (now - (CHOOSE m \in S : \A n \in S : m[1] <= n[1])[1])
RetryAfter(ms) == LET s == ms \div Second IN (IF s > 1 THEN s ELSE 1) * Second

RunScript(c) ==
    /\ pc[c] = "sent"
    /\ LET now == stamp[c]
           S == Trimmed(now)
       IN  \/ /\ Full(S)
              /\ zset' = S
              /\ Reply(c, "rejected", RetryAfter(RetryMs(now, S)))
              /\ UNCHANGED expireAt
           \/ /\ ~Full(S)
              /\ zset' = S \cup {Member(c)}
              /\ expireAt' = time + Window
              /\ Reply(c, "admitted", 0)
    /\ at' = [at EXCEPT ![c] = time]
    /\ UNCHANGED <<time, skew, stamp, tag>>

\* Redis cannot be reached: the call is let through.
FailOpen(c) ==
    /\ pc[c] = "sent"
    /\ Finish(c, "open", 0)
    /\ UNCHANGED <<time, skew, zset, expireAt, stamp, tag, at>>

\* A tick of the server's clock; Redis drops a key whose time has passed.
Tick ==
    /\ time < MaxTime
    /\ \A c \in Calls : pc[c] = "sent" => time < at[c] + MaxDelay
    /\ time' = time + 1
    /\ zset' = IF time + 1 > expireAt THEN {} ELSE zset
    /\ UNCHANGED <<skew, expireAt, pc, stamp, tag, at, result>>

Next ==
    \/ \E c \in Calls : \/ \E i \in Instances : Send(c, i)
                        \/ RunScript(c) \/ FailOpen(c)
    \/ Tick

Spec == Init /\ [][Next]_vars

-----------------------------------------------------------------------------
(* Properties *)

\* Every variable has its type.
TypeOK ==
    /\ time \in 0..MaxTime
    /\ skew \in [Instances -> 0..MaxSkew]
    /\ zset \subseteq Nat \X Ids
    /\ expireAt \in Nat
    /\ pc \in [Calls -> {"new", "sent", "done"}]
    /\ stamp \in [Calls -> Nat]
    /\ tag \in [Calls -> Ids]
    /\ at \in [Calls -> 0..MaxTime]
    /\ result \in [Calls -> Result]

\* The calls with that outcome less than span ticks ago.
Within(span, outcomes) ==
    {c \in Calls : result[c].outcome \in outcomes /\ at[c] > time - span}

\* The limit holds in every window, in the server's time, that is shorter
\* than 60 s by what clocks and delays can add up to, however calls of many
\* instances overtake each other (rate_limiter.py 36-50, 67), if calls that
\* read one millisecond and were given one address count as one call. They
\* are one member of the set, so the number of calls itself may exceed the
\* limit, whatever rate_limiter.py 68 says ("unique per call").
LimitHolds ==
    Cardinality({Member(c) : c \in Within(Window - MaxSkew - MaxDelay,
                                         {"admitted"})}) <= Limit

\* Nobody is turned away without cause: when a call is rejected, Limit calls
\* were let through within the window, up to the same error (36-46).
NoFalseRejection ==
    \A c \in Calls : result[c].outcome = "rejected" /\ at[c] = time =>
        Cardinality(Within(Window + MaxSkew + MaxDelay, {"admitted", "open"}))
            >= Limit

\* README.md: a 429 has a correct Retry-After. It is rounded down, but by
\* less than a second: a client that waits that much longer than it was told,
\* and the error of the clocks, is let through by every instance unless other
\* calls came between (rate_limiter.py 36-46, deps.py 25).
RetryAfterSuffices ==
    \A c \in Calls :
        /\ result[c].outcome = "rejected"
        /\ \A d \in Calls \ {c} : at[d] < at[c] /\ pc[d] # "sent"
        /\ time >= at[c] + result[c].retry_after + (Second - 1) + MaxSkew
        => \A i \in Instances : ~Full(Trimmed(time + skew[i]))
=============================================================================
