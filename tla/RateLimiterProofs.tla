-------------------------- MODULE RateLimiterProofs --------------------------
(***************************************************************************)
(* The limit holds for any number of calls and instances, any window, any  *)
(* limit and any bound on skew and delay, whatever ids the calls are given.*)
(***************************************************************************)
EXTENDS RateLimiter, FiniteSetTheorems, FunctionTheorems, WellFoundedInduction,
        TLAPS

Span == Window - MaxSkew - MaxDelay
Admitted(c) == result[c].outcome = "admitted"

\* What is known of a call that is on its way, and of one that was admitted.
CallsInTime ==
    \A c \in Calls :
        /\ at[c] <= time
        /\ pc[c] = "sent" =>
             /\ time <= at[c] + MaxDelay
             /\ at[c] <= stamp[c] /\ stamp[c] <= at[c] + MaxSkew
        /\ result[c].outcome # "none" => pc[c] = "done"
        /\ Admitted(c) => /\ at[c] <= stamp[c] + MaxDelay
                          /\ at[c] + Window <= expireAt

SetWithinLimit == IsFiniteSet(zset) /\ Cardinality(zset) <= Limit

\* No recent admission has been trimmed or has expired.
RecentInSet ==
    \A c \in Calls : Admitted(c) /\ at[c] > time - Span => Member(c) \in zset

LimiterInv == TypeOK /\ CallsInTime /\ SetWithinLimit /\ RecentInSet

-----------------------------------------------------------------------------
\* A set of members that is not empty has an oldest one.
LEMMA OldestMember ==
    ASSUME NEW S, S \subseteq Nat \X Ids, S # {}
    PROVE  \E m \in S : \A n \in S : m[1] <= n[1]
<1> DEFINE T == {m[1] : m \in S}
<1>1. T \subseteq Nat /\ T # {}
  OBVIOUS
<1>2. IsWellFoundedOn(OpToRel(<, Nat), Nat)
  BY NatLessThanWellFounded
<1>3. PICK x \in T : \A y \in T : ~(<<y, x>> \in OpToRel(<, Nat))
  BY <1>1, <1>2, WFMin
<1> HIDE DEF T
<1>4. ASSUME NEW y \in T PROVE x <= y
  <2>1. x \in Nat /\ y \in Nat
    BY <1>1
  <2>2. ~(y < x)
    BY <1>3, <2>1 DEF OpToRel
  <2>3. QED BY <2>1, <2>2
<1>5. QED BY <1>4 DEF T

\* Adding a member adds at most one to the cardinality.
LEMMA CardinalityOfAdded ==
    ASSUME NEW S, NEW x, NEW T, IsFiniteSet(S), T = S \cup {x}
    PROVE  IsFiniteSet(T) /\ Cardinality(T) <= Cardinality(S) + 1
<1>1. /\ IsFiniteSet(T)
      /\ Cardinality(T) = IF x \in S THEN Cardinality(S) ELSE Cardinality(S) + 1
  BY FS_AddElement
<1>2. Cardinality(S) \in Nat
  BY FS_CardinalityType
<1>3. QED BY <1>1, <1>2

\* Retry-After is a natural number.
LEMMA RetryType ==
    ASSUME LimiterInv, NEW now \in Nat
    PROVE  RetryAfter(RetryMs(now, Trimmed(now))) \in Nat
<1> DEFINE S == Trimmed(now)
           ms == RetryMs(now, S)
<1>1. S \subseteq Nat \X Ids
  BY DEF Trimmed, LimiterInv, TypeOK
<1>2. ms \in Int
  <2>1. CASE S = {}
    BY <2>1, LimiterAssumption DEF RetryMs
  <2>2. CASE S # {}
    <3> DEFINE m == CHOOSE m \in S : \A n \in S : m[1] <= n[1]
    <3>1. m \in S
      BY <1>1, <2>2, OldestMember
    <3>2. m[1] \in Nat
      BY <1>1, <3>1
    <3>3. ms = Window - (now - m[1])
      BY <2>2 DEF RetryMs
    <3>4. QED BY <3>2, <3>3, LimiterAssumption
  <2>3. QED BY <2>1, <2>2
<1> HIDE DEF ms
<1>3. ms \div Second \in Int
  BY <1>2, LimiterAssumption
<1>4. PICK k \in Nat : RetryAfter(ms) = k * Second
  BY <1>3 DEF RetryAfter
<1>5. k * Second \in Nat
  BY LimiterAssumption
<1>6. QED BY <1>4, <1>5 DEF ms

LEMMA LimiterInit == Init => LimiterInv
<1> SUFFICES ASSUME Init PROVE LimiterInv
  OBVIOUS
<1> USE LimiterAssumption DEF Init
<1>1. TypeOK BY DEF TypeOK, Result, Outcome
<1>2. CallsInTime BY DEF CallsInTime, Admitted
<1>3. SetWithinLimit BY FS_EmptySet DEF SetWithinLimit
<1>4. RecentInSet BY DEF RecentInSet, Admitted
<1>5. QED BY <1>1, <1>2, <1>3, <1>4 DEF LimiterInv

LEMMA LimiterNext == LimiterInv /\ [Next]_vars => LimiterInv'
<1> SUFFICES ASSUME LimiterInv, [Next]_vars PROVE LimiterInv'
  OBVIOUS
<1> USE LimiterAssumption DEF LimiterInv
<1>1. ASSUME NEW c \in Calls, NEW i \in Instances, Send(c, i) PROVE LimiterInv'
  <2>1. TypeOK'
    BY <1>1 DEF Send, TypeOK
  <2>2. CallsInTime'
    BY <1>1 DEF Send, TypeOK, CallsInTime, Admitted
  <2>3. SetWithinLimit'
    BY <1>1 DEF Send, SetWithinLimit
  <2>4. RecentInSet'
    BY <1>1 DEF Send, RecentInSet, TypeOK, Admitted, Member, CallsInTime
  <2>5. QED BY <2>1, <2>2, <2>3, <2>4
<1>2. ASSUME NEW c \in Calls, FailOpen(c) PROVE LimiterInv'
  <2>1. TypeOK'
    BY <1>2 DEF FailOpen, Finish, TypeOK, Result, Outcome
  <2>2. CallsInTime'
    BY <1>2 DEF FailOpen, Finish, TypeOK, CallsInTime, Admitted
  <2>3. SetWithinLimit'
    BY <1>2 DEF FailOpen, SetWithinLimit
  <2>4. RecentInSet'
    BY <1>2 DEF FailOpen, Finish, RecentInSet, TypeOK, Admitted, Member
  <2>5. QED BY <2>1, <2>2, <2>3, <2>4
<1>3. ASSUME Tick PROVE LimiterInv'
  <2>1. TypeOK'
    BY <1>3 DEF Tick, TypeOK
  <2>2. CallsInTime'
    BY <1>3 DEF Tick, TypeOK, CallsInTime, Admitted
  <2>3. SetWithinLimit'
    BY <1>3, FS_EmptySet DEF Tick, SetWithinLimit
  <2>4. RecentInSet'
    <3>a. time' = time + 1 /\ UNCHANGED <<stamp, tag, at, result>>
      BY <1>3 DEF Tick
    <3> SUFFICES ASSUME NEW c \in Calls, Admitted(c)', (at[c] > time - Span)'
                 PROVE  Member(c)' \in zset'
      BY DEF RecentInSet
    <3>b. Admitted(c) /\ at[c] > time + 1 - Span /\ Member(c)' = Member(c)
      <4>1. Admitted(c) BY <3>a DEF Admitted
      <4>2. at[c] > time + 1 - Span BY <3>a DEF Span, TypeOK
      <4>3. Member(c)' = Member(c) BY <3>a DEF Member
      <4>4. QED BY <4>1, <4>2, <4>3
    <3>1. time + 1 <= expireAt /\ at[c] > time - Span
      BY <3>b DEF CallsInTime, TypeOK, Span
    <3>2. ~(time + 1 > expireAt)
      BY <3>1 DEF TypeOK
    <3>3. QED BY <1>3, <3>b, <3>1, <3>2 DEF Tick, RecentInSet
  <2>5. QED BY <2>1, <2>2, <2>3, <2>4
<1>4. ASSUME NEW c \in Calls, RunScript(c) PROVE LimiterInv'
  <2> DEFINE S == Trimmed(stamp[c])
  <2>1. /\ pc[c] = "sent" /\ UNCHANGED <<time, skew, stamp, tag>>
        /\ at' = [at EXCEPT ![c] = time]
        /\ pc' = [pc EXCEPT ![c] = "done"]
        /\ expireAt' \in {expireAt, time + Window}
    BY <1>4 DEF RunScript, Reply, Finish
  <2>2. \/ /\ Full(S) /\ zset' = S
           /\ \E r \in Result : r.outcome # "admitted" /\ r.outcome # "none"
                                /\ result' = [result EXCEPT ![c] = r]
        \/ /\ ~Full(S) /\ zset' = S \cup {Member(c)} /\ expireAt' = time + Window
           /\ \E r \in Result : r.outcome # "none"
                                /\ result' = [result EXCEPT ![c] = r]
    <3>1. RetryAfter(RetryMs(stamp[c], S)) \in Nat
      BY RetryType DEF TypeOK
    <3>2. QED BY <1>4, <3>1 DEF RunScript, Reply, Finish, Result, Outcome
  <2>3. S \subseteq zset /\ zset' \subseteq S \cup {Member(c)}
    BY <2>2 DEF Trimmed
  <2>4. TypeOK'
    BY <2>1, <2>2, <2>3 DEF TypeOK, Member
  <2>5. SetWithinLimit'
    <3>1. IsFiniteSet(S) /\ Cardinality(S) <= Cardinality(zset)
      BY <2>3, FS_Subset DEF SetWithinLimit
    <3>2. Cardinality(S) \in Nat /\ Cardinality(zset) \in Nat
      BY <3>1, FS_CardinalityType DEF SetWithinLimit
    <3>3. CASE zset' = S
      BY <3>1, <3>2, <3>3 DEF SetWithinLimit
    <3>4. CASE ~Full(S) /\ zset' = S \cup {Member(c)}
      <4> HIDE DEF S
      <4>0. IsFiniteSet(S) /\ zset' = S \cup {Member(c)}
        BY <3>1, <3>4
      <4>1. IsFiniteSet(zset') /\ Cardinality(zset') <= Cardinality(S) + 1
        BY ONLY <4>0, CardinalityOfAdded
      <4>2. Cardinality(S) + 1 <= Limit
        BY <3>2, <3>4 DEF Full
      <4>3. Cardinality(zset') \in Nat
        BY <4>1, FS_CardinalityType
      <4>4. QED BY <3>2, <4>1, <4>2, <4>3 DEF SetWithinLimit
    <3>5. QED BY <2>2, <3>3, <3>4
  <2>6. CallsInTime'
    <3>1. PICK r \in Result :
            /\ r.outcome # "none"
            /\ r.outcome = "admitted" => expireAt' = time + Window
            /\ result' = [result EXCEPT ![c] = r]
      BY <2>2
    <3>2. at[c] <= time /\ time <= at[c] + MaxDelay /\ at[c] <= stamp[c]
      BY <2>1 DEF CallsInTime
    <3>3. time <= stamp[c] + MaxDelay
      BY <3>2 DEF TypeOK
    <3> SUFFICES ASSUME NEW d \in Calls
                 PROVE  /\ at'[d] <= time
                        /\ pc'[d] = "sent" =>
                             /\ time <= at'[d] + MaxDelay
                             /\ at'[d] <= stamp[d]
                             /\ stamp[d] <= at'[d] + MaxSkew
                        /\ result'[d].outcome # "none" => pc'[d] = "done"
                        /\ result'[d].outcome = "admitted" =>
                             /\ at'[d] <= stamp[d] + MaxDelay
                             /\ at'[d] + Window <= expireAt'
      BY <2>1 DEF CallsInTime, Admitted
    <3>4. CASE d = c
      BY <2>1, <3>1, <3>3, <3>4 DEF TypeOK
    <3>5. CASE d # c
      <4>1. pc'[d] = pc[d] /\ at'[d] = at[d] /\ result'[d] = result[d]
        BY <2>1, <3>1, <3>5 DEF TypeOK
      <4>2. QED BY <2>1, <4>1 DEF CallsInTime, Admitted, TypeOK
    <3>6. QED BY <3>4, <3>5
  <2>7. RecentInSet'
    <3> SUFFICES ASSUME NEW d \in Calls, Admitted(d)', at'[d] > time - Span
                 PROVE  Member(d) \in zset'
      BY <2>1 DEF RecentInSet, Member, Span
    <3>1. CASE d = c
      BY <2>1, <2>2, <3>1 DEF Admitted, TypeOK
    <3>2. CASE d # c
      <4>1. Admitted(d) /\ at[d] > time - Span
        BY <2>1, <2>2, <3>2 DEF Admitted, TypeOK
      <4>2. Member(d) \in zset /\ at[d] <= stamp[d] + MaxDelay
        BY <4>1 DEF RecentInSet, CallsInTime
      <4>3. stamp[c] <= time + MaxSkew
        BY <2>1 DEF CallsInTime, TypeOK
      <4>4. stamp[d] > stamp[c] - Window
        BY <4>1, <4>2, <4>3 DEF Span, TypeOK
      <4>5. Member(d) \in S
        BY <4>2, <4>4 DEF Trimmed, Member
      <4>6. QED BY <2>2, <4>5
    <3>3. QED BY <3>1, <3>2
  <2>8. QED BY <2>4, <2>5, <2>6, <2>7
<1>5. CASE UNCHANGED vars
  BY <1>5 DEF vars, TypeOK, CallsInTime, SetWithinLimit, RecentInSet,
              Admitted, Member, Span
<1>6. QED BY <1>1, <1>2, <1>3, <1>4, <1>5 DEF Next

\* Every variable keeps its type; a Retry-After is never negative.
THEOREM LimiterTypeCorrect == Spec => []TypeOK
<1>1. LimiterInv => TypeOK BY DEF LimiterInv
<1>2. QED BY <1>1, LimiterInit, LimiterNext, PTL DEF Spec

\* No more than Limit members are let through in any time shorter than the
\* window by the clocks' skew and the calls' delay: the script trims no entry
\* that such a window still contains. Nothing is assumed of the ids.
THEOREM LimitIsKept == Spec => []LimitHolds
<1>1. ASSUME LimiterInv PROVE LimitHolds
  <2> DEFINE R == Within(Window - MaxSkew - MaxDelay, {"admitted"})
             M == {Member(c) : c \in R}
  <2>1. \A c \in R : Member(c) \in zset
    BY <1>1 DEF Within, LimiterInv, RecentInSet, Admitted, Span
  <2>2. M \in SUBSET zset
    BY <2>1
  <2> HIDE DEF M
  <2>3. IsFiniteSet(M) /\ Cardinality(M) <= Cardinality(zset)
    BY <1>1, <2>2, FS_Subset DEF LimiterInv, SetWithinLimit
  <2>4. Cardinality(M) \in Nat /\ Cardinality(zset) \in Nat
    BY <1>1, <2>3, FS_CardinalityType DEF LimiterInv, SetWithinLimit
  <2>5. Cardinality(M) <= Limit
    BY <1>1, <2>3, <2>4, LimiterAssumption DEF LimiterInv, SetWithinLimit
  <2>6. QED BY <2>5 DEF LimitHolds, M
<1>2. QED BY <1>1, LimiterInit, LimiterNext, PTL DEF Spec

\* Where the ids do differ, as between processes with different addresses, the
\* calls themselves are within the limit: sharing a member is the only way
\* past it.
THEOREM OnlySharedMembersExceed ==
    ASSUME LimitHolds,
           \A c, d \in Within(Window - MaxSkew - MaxDelay, {"admitted"}) :
               Member(c) = Member(d) => c = d
    PROVE  Cardinality(Within(Window - MaxSkew - MaxDelay, {"admitted"}))
               <= Limit
<1> DEFINE R == Within(Window - MaxSkew - MaxDelay, {"admitted"})
           M == {Member(c) : c \in R}
           f == [c \in R |-> Member(c)]
<1>1. IsFiniteSet(R)
  <2>1. R \in SUBSET Calls BY DEF Within
  <2>2. QED BY <2>1, LimiterAssumption, FS_Subset
<1>2. f \in Surjection(R, M) /\ f \in Injection(R, M)
  <2> HIDE DEF R
  <2>1. f \in [R -> M] /\ \A m \in M : \E c \in R : f[c] = m
    OBVIOUS
  <2>2. \A c, d \in R : f[c] = f[d] => c = d
    BY DEF R
  <2> HIDE DEF f, M
  <2>3. f \in Injection(R, M)
    BY <2>1, <2>2, Fun_IsInj
  <2>4. f \in Surjection(R, M)
    BY <2>1, Fun_IsSurj
  <2>5. QED BY <2>3, <2>4
<1> HIDE DEF f, M, R
<1>3. IsFiniteSet(M)
  BY <1>1, <1>2, FS_Surjection
<1>4. Cardinality(R) <= Cardinality(M)
  BY <1>2, <1>3, FS_Injection
<1>5. Cardinality(R) \in Nat /\ Cardinality(M) \in Nat
  BY <1>1, <1>3, FS_CardinalityType
<1>6. Cardinality(M) <= Limit
  BY DEF LimitHolds, M, R
<1>7. QED BY <1>4, <1>5, <1>6, LimiterAssumption DEF R

-----------------------------------------------------------------------------
(* Rejections *)

\* Every member of the sorted set was added by a call that was let through,
\* though perhaps because the reply was lost.
Behind(m, c) ==
    /\ Member(c) = m /\ result[c].outcome \in {"admitted", "open"}
    /\ m[1] <= at[c] + MaxSkew

MembersAreCalls == \A m \in zset : \E c \in Calls : Behind(m, c)

FairInv == LimiterInv /\ MembersAreCalls /\ NoFalseRejection

\* As many calls were let through as the set the script found has members.
LEMMA FullForAReason ==
    ASSUME LimiterInv, MembersAreCalls, NEW c \in Calls, pc[c] = "sent",
           Full(Trimmed(stamp[c]))
    PROVE  Cardinality(Within(Window + MaxSkew + MaxDelay,
                              {"admitted", "open"})) >= Limit
<1> DEFINE S == Trimmed(stamp[c])
           R == Within(Window + MaxSkew + MaxDelay, {"admitted", "open"})
           f == [m \in S |-> CHOOSE d \in R : Member(d) = m]
<1>1. /\ TypeOK /\ time <= at[c] + MaxDelay /\ at[c] <= stamp[c]
  BY DEF LimiterInv, CallsInTime
<1>2. ASSUME NEW m \in S PROVE \E d \in R : Member(d) = m
  <2>1. m \in zset /\ m[1] > stamp[c] - Window /\ m[1] \in Nat
    BY <1>1 DEF Trimmed, TypeOK
  <2>2. PICK d \in Calls : Behind(m, d)
    BY <2>1 DEF MembersAreCalls
  <2>3. at[d] > time - (Window + MaxSkew + MaxDelay)
    BY <1>1, <2>1, <2>2, LimiterAssumption DEF Behind, TypeOK
  <2>4. QED BY <2>2, <2>3 DEF Within, Behind
<1>3. IsFiniteSet(R)
  <2>1. R \in SUBSET Calls BY DEF Within
  <2>2. QED BY <2>1, LimiterAssumption, FS_Subset
<1> HIDE DEF R, S
<1>4. f \in Injection(S, R)
  <2>1. \A m \in S : f[m] \in R /\ Member(f[m]) = m
    BY <1>2
  <2>2. f \in [S -> R]
    BY <2>1
  <2>3. \A m, n \in S : f[m] = f[n] => m = n
    BY <2>1
  <2> HIDE DEF f
  <2>4. QED BY <2>2, <2>3, Fun_IsInj
<1>5. IsFiniteSet(S) /\ Cardinality(S) <= Cardinality(R)
  BY <1>3, <1>4, FS_Injection
<1>6. Cardinality(S) >= Limit
  BY DEF Full, S
<1>7. Cardinality(S) \in Nat /\ Cardinality(R) \in Nat
  BY <1>3, <1>5, FS_CardinalityType
<1>8. QED BY <1>5, <1>6, <1>7, LimiterAssumption DEF R

\* A call that was let through stays so.
LEMMA LetThroughStays ==
    ASSUME LimiterInv, time' = time,
           \A d \in Calls : result[d].outcome \in {"admitted", "open"} =>
               at'[d] = at[d] /\ result'[d] = result[d]
    PROVE  LET R == Within(Window + MaxSkew + MaxDelay, {"admitted", "open"})
           IN  Cardinality(R) >= Limit => Cardinality(R') >= Limit
<1> DEFINE R == Within(Window + MaxSkew + MaxDelay, {"admitted", "open"})
           T == Within(Window + MaxSkew + MaxDelay, {"admitted", "open"})'
<1>1. R \in SUBSET T /\ T \in SUBSET Calls
  BY DEF Within
<1>2. IsFiniteSet(T)
  <2> HIDE DEF R, T
  <2>1. QED BY <1>1, LimiterAssumption, FS_Subset
<1> HIDE DEF R, T
<1>3. IsFiniteSet(R) /\ Cardinality(R) <= Cardinality(T)
  BY <1>1, <1>2, FS_Subset
<1>4. Cardinality(R) \in Nat /\ Cardinality(T) \in Nat
  BY <1>2, <1>3, FS_CardinalityType
<1>5. Cardinality(R) >= Limit => Cardinality(T) >= Limit
  BY <1>3, <1>4, LimiterAssumption
<1>6. QED BY <1>5 DEF R, T

LEMMA FairNext == FairInv /\ [Next]_vars => FairInv'
<1> SUFFICES ASSUME FairInv, [Next]_vars PROVE FairInv'
  OBVIOUS
<1>1. LimiterInv /\ LimiterInv' /\ TypeOK /\ CallsInTime
  BY LimiterNext DEF FairInv, LimiterInv
<1> DEFINE Enough ==
             Cardinality(Within(Window + MaxSkew + MaxDelay,
                                {"admitted", "open"})) >= Limit
\* A step of call c, at one moment of the server's clock.
<1>2. ASSUME NEW c \in Calls, pc[c] # "done", UNCHANGED <<time, tag>>,
             \A d \in Calls \ {c} : /\ at'[d] = at[d] /\ stamp'[d] = stamp[d]
                                    /\ result'[d] = result[d],
             \A m \in zset' :
               m \in zset \/ (m = Member(c) /\ stamp' = stamp /\ Behind(m, c)'),
             result'[c].outcome = "rejected" => Enough
      PROVE  FairInv'
  <2>1. result[c].outcome = "none"
    BY <1>1, <1>2 DEF CallsInTime
  <2>2. MembersAreCalls'
    <3> SUFFICES ASSUME NEW m \in zset' PROVE \E d \in Calls : Behind(m, d)'
      BY DEF MembersAreCalls
    <3>1. CASE m \in zset
      <4>1. PICK d \in Calls : Behind(m, d)
        BY <3>1 DEF FairInv, MembersAreCalls
      <4>2. d # c
        BY <2>1, <4>1 DEF Behind
      <4>3. Behind(m, d)'
        BY <1>2, <4>1, <4>2 DEF Behind, Member
      <4>4. QED BY <4>3
    <3>2. CASE m \notin zset
      BY <1>2, <3>2
    <3>3. QED BY <3>1, <3>2
  <2>3. Enough => Enough'
    BY <1>1, <1>2, <2>1, LetThroughStays
  <2>4. NoFalseRejection'
    <3> SUFFICES ASSUME NEW d \in Calls, result'[d].outcome = "rejected",
                        at'[d] = time'
                 PROVE  Enough'
      BY DEF NoFalseRejection
    <3>1. CASE d = c
      BY <1>2, <2>3, <3>1
    <3>2. CASE d # c
      BY <1>2, <2>3, <3>2 DEF FairInv, NoFalseRejection
    <3>3. QED BY <3>1, <3>2
  <2>5. QED BY <1>1, <2>2, <2>4 DEF FairInv
<1>3. ASSUME NEW c \in Calls, NEW i \in Instances, Send(c, i) PROVE FairInv'
  <2>1. /\ pc[c] # "done" /\ UNCHANGED <<time, tag, zset, result>>
        /\ \A d \in Calls \ {c} : at'[d] = at[d] /\ stamp'[d] = stamp[d]
        /\ result[c].outcome = "none"
    BY <1>1, <1>3 DEF Send, TypeOK, CallsInTime
  <2>2. QED BY <1>2, <2>1
<1>4. ASSUME NEW c \in Calls, FailOpen(c) PROVE FairInv'
  <2>1. /\ pc[c] # "done" /\ UNCHANGED <<time, tag, zset, at, stamp>>
        /\ \A d \in Calls \ {c} : result'[d] = result[d]
        /\ result'[c].outcome = "open"
    BY <1>1, <1>4 DEF FailOpen, Finish, TypeOK
  <2>2. QED BY <1>2, <2>1
<1>5. ASSUME NEW c \in Calls, RunScript(c) PROVE FairInv'
  <2>1. /\ pc[c] = "sent" /\ UNCHANGED <<time, tag, stamp>> /\ at'[c] = time
        /\ \A d \in Calls \ {c} : at'[d] = at[d] /\ result'[d] = result[d]
    BY <1>1, <1>5 DEF RunScript, Reply, Finish, TypeOK
  <2>2. Trimmed(stamp[c]) \subseteq zset
    BY DEF Trimmed
  <2>3. CASE Full(Trimmed(stamp[c]))
    <3>1. zset' = Trimmed(stamp[c])
      BY <1>5, <2>3 DEF RunScript
    <3>2. Enough
      BY <1>1, <2>1, <2>3, FullForAReason DEF FairInv
    <3> HIDE DEF Enough
    <3>3. QED BY <1>2, <2>1, <2>2, <3>1, <3>2
  <2>4. CASE ~Full(Trimmed(stamp[c]))
    <3>1. /\ zset' = Trimmed(stamp[c]) \cup {Member(c)}
          /\ result'[c].outcome \in {"admitted", "open"}
      BY <1>1, <1>5, <2>4 DEF RunScript, Reply, Finish, TypeOK
    <3> PICK M : M = Member(c)
      OBVIOUS
    <3>2. Behind(M, c)'
      <4>1. at[c] <= time /\ stamp[c] <= at[c] + MaxSkew
        BY <1>1, <2>1 DEF CallsInTime
      <4>2. stamp[c] <= time + MaxSkew
        BY <1>1, <4>1, LimiterAssumption DEF TypeOK
      <4>3. Member(c)' = M /\ M[1] = stamp[c]
        BY <2>1 DEF Member
      <4>4. QED BY <2>1, <3>1, <4>2, <4>3 DEF Behind
    <3> HIDE DEF Enough
    <3>3. QED BY <1>2, <2>1, <2>2, <3>1, <3>2
  <2>5. QED BY <2>3, <2>4
<1>6. ASSUME Tick PROVE FairInv'
  <2>1. /\ time' = time + 1 /\ time \in Nat /\ zset' \subseteq zset
        /\ UNCHANGED <<at, stamp, tag, result>>
    BY <1>1, <1>6, LimiterAssumption DEF Tick, TypeOK
  <2>2. MembersAreCalls'
    BY <2>1 DEF FairInv, MembersAreCalls, Behind, Member
  <2>3. \A c \in Calls : at[c] # time'
    BY <1>1, <2>1 DEF CallsInTime, TypeOK
  <2>4. QED BY <1>1, <2>1, <2>2, <2>3 DEF FairInv, NoFalseRejection
<1>7. CASE UNCHANGED vars
  BY <1>1, <1>7 DEF vars, FairInv, MembersAreCalls, Behind, Member,
                    NoFalseRejection, Within
<1>8. QED BY <1>3, <1>4, <1>5, <1>6, <1>7 DEF Next

\* When a call is rejected, Limit calls were let through within the window, up
\* to the skew of the clocks and the delay of the calls. Members need not be
\* unique for this.
THEOREM RejectedForAReason == Spec => []NoFalseRejection
<1>1. Init => FairInv
  BY LimiterInit DEF Init, FairInv, MembersAreCalls, NoFalseRejection
<1>2. FairInv => NoFalseRejection
  BY DEF FairInv
<1>3. QED BY <1>1, <1>2, FairNext, PTL DEF Spec

\* Retry-After is rounded down by less than a second.
LEMMA RetryRounding ==
    ASSUME NEW ms \in Int
    PROVE  RetryAfter(ms) \in Nat /\ ms <= RetryAfter(ms) + (Second - 1)
<1> DEFINE B == Second
           s == ms \div B
<1>1. B \in Nat \ {0}
  BY LimiterAssumption
<1>2. s \in Int /\ B * s <= ms /\ ms < B * s + B
  <2> HIDE DEF B
  <2>1. QED BY <1>1
<1> HIDE DEF s
<1>3. RetryAfter(ms) = (IF s > 1 THEN s ELSE 1) * B
  BY DEF RetryAfter, s
<1>4. CASE s > 1
  <2>1. RetryAfter(ms) = B * s /\ B * s \in Nat
    BY <1>1, <1>2, <1>3, <1>4
  <2>2. QED BY <1>1, <1>2, <2>1
<1>5. CASE ~(s > 1)
  <2>1. RetryAfter(ms) = B
    BY <1>1, <1>3, <1>5
  <2>2. B * s <= B
    BY <1>1, <1>2, <1>5
  <2>3. QED BY <1>1, <1>2, <2>1, <2>2
<1>6. QED BY <1>4, <1>5

\* What a rejected call is told lasts until the oldest member leaves the window
\* of every instance; no later call has touched the set since.
OldestLeavesInTime(c) ==
    \/ zset = {}
    \/ \E m \in zset :
         m[1] + Window <= at[c] + result[c].retry_after + (Second - 1) + MaxSkew

LastToAsk(c) ==
    /\ result[c].outcome = "rejected"
    /\ \A d \in Calls \ {c} : at[d] < at[c]

WaitInv == LimiterInv /\ \A c \in Calls : LastToAsk(c) => OldestLeavesInTime(c)

LEMMA WaitNext ==
    ASSUME Limit > 0
    PROVE  WaitInv /\ [Next]_vars => WaitInv'
<1> SUFFICES ASSUME WaitInv, [Next]_vars PROVE WaitInv'
  OBVIOUS
<1>1. LimiterInv /\ LimiterInv' /\ TypeOK /\ CallsInTime
  BY LimiterNext DEF WaitInv, LimiterInv
\* Asking later than c, a call takes c's claim away.
<1>2. ASSUME NEW e \in Calls, at'[e] = time, NEW c \in Calls, c # e,
             at'[c] = at[c]
      PROVE  ~LastToAsk(c)'
  <2>1. at[c] <= time /\ at[c] \in Nat /\ time \in Nat
    BY <1>1, LimiterAssumption DEF CallsInTime, TypeOK
  <2>2. ~(at'[e] < at'[c])
    BY <1>2, <2>1
  <2>3. QED BY <1>2, <2>2 DEF LastToAsk
<1>3. ASSUME NEW e \in Calls, NEW i \in Instances, Send(e, i) PROVE WaitInv'
  <2>1. /\ at'[e] = time /\ result'[e].outcome = "none"
        /\ \A c \in Calls \ {e} : at'[c] = at[c]
    BY <1>1, <1>3 DEF Send, TypeOK, CallsInTime
  <2>2. ~LastToAsk(e)'
    BY <2>1 DEF LastToAsk
  <2>3. QED BY <1>1, <1>2, <2>1, <2>2 DEF WaitInv
<1>4. ASSUME NEW e \in Calls, FailOpen(e) PROVE WaitInv'
  <2>1. /\ UNCHANGED <<zset, at>> /\ result'[e].outcome = "open"
        /\ \A c \in Calls \ {e} : result'[c] = result[c]
    BY <1>1, <1>4 DEF FailOpen, Finish, TypeOK
  <2>2. QED
    BY <1>1, <2>1 DEF WaitInv, LastToAsk, OldestLeavesInTime
<1>5. ASSUME NEW e \in Calls, RunScript(e) PROVE WaitInv'
  <2> DEFINE S == Trimmed(stamp[e])
             ms == RetryMs(stamp[e], S)
  <2>1. /\ pc[e] = "sent" /\ at'[e] = time
        /\ \A c \in Calls \ {e} : at'[c] = at[c]
    BY <1>1, <1>5 DEF RunScript, TypeOK
  <2>2. ASSUME result'[e].outcome = "rejected" PROVE OldestLeavesInTime(e)'
    <3>1. Full(S) /\ zset' = S /\ result'[e].retry_after = RetryAfter(ms)
      BY <1>1, <1>5, <2>2 DEF RunScript, Reply, Finish, TypeOK
    <3>2. S \subseteq zset /\ S \subseteq Nat \X Ids
      BY <1>1 DEF Trimmed, TypeOK
    <3>3. S # {}
      BY <3>1, FS_EmptySet, LimiterAssumption DEF Full
    <3> DEFINE m == CHOOSE x \in S : \A n \in S : x[1] <= n[1]
    <3>4. m \in S
      <4> HIDE DEF S
      <4>1. QED BY <3>2, <3>3, OldestMember
    <3>5. m[1] \in Nat /\ stamp[e] \in Nat
      BY <1>1, <3>2, <3>4 DEF TypeOK
    <3>6. ms = Window - (stamp[e] - m[1])
      BY <3>3 DEF RetryMs
    <3> HIDE DEF m, S, ms
    <3>7. ms \in Int
      BY <3>5, <3>6, LimiterAssumption
    <3>8. RetryAfter(ms) \in Nat /\ ms <= RetryAfter(ms) + (Second - 1)
      BY <3>7, RetryRounding
    <3>9. /\ at[e] <= time /\ stamp[e] <= at[e] + MaxSkew
          /\ at[e] \in Nat /\ time \in Nat
      BY <1>1, <2>1, LimiterAssumption DEF CallsInTime, TypeOK
    <3>10. m[1] + Window <= time + RetryAfter(ms) + (Second - 1) + MaxSkew
      BY <3>5, <3>6, <3>8, <3>9, LimiterAssumption
    <3>11. QED BY <2>1, <3>1, <3>4, <3>10 DEF OldestLeavesInTime
  <2>3. QED BY <1>1, <1>2, <2>1, <2>2 DEF WaitInv, LastToAsk
<1>6. ASSUME Tick PROVE WaitInv'
  <2>1. (zset' = {} \/ zset' = zset) /\ UNCHANGED <<at, result>>
    BY <1>6 DEF Tick
  <2>2. QED BY <1>1, <2>1 DEF WaitInv, LastToAsk, OldestLeavesInTime
<1>7. CASE UNCHANGED vars
  BY <1>1, <1>7 DEF vars, WaitInv, LastToAsk, OldestLeavesInTime
<1>8. QED BY <1>3, <1>4, <1>5, <1>6, <1>7 DEF Next

\* A client that waits for the Retry-After it was given, less than a second
\* longer and for the skew of the clocks is let through by every instance,
\* unless other calls came between. A limit of 0 rejects every call, and no
\* wait helps.
THEOREM WaitingHelps ==
    ASSUME Limit > 0
    PROVE  Spec => []RetryAfterSuffices
<1>1. Init => WaitInv
  BY LimiterInit DEF Init, WaitInv, LastToAsk
<1>2. ASSUME WaitInv PROVE RetryAfterSuffices
  <2> SUFFICES ASSUME NEW c \in Calls, result[c].outcome = "rejected",
                      \A d \in Calls \ {c} : at[d] < at[c],
                      time >= at[c] + result[c].retry_after + (Second - 1)
                                + MaxSkew,
                      NEW i \in Instances
               PROVE  ~Full(Trimmed(time + skew[i]))
    BY DEF RetryAfterSuffices
  <2> DEFINE S == Trimmed(time + skew[i])
  <2>1. /\ TypeOK /\ IsFiniteSet(zset) /\ Cardinality(zset) <= Limit
        /\ S \in SUBSET zset /\ OldestLeavesInTime(c)
    BY <1>2 DEF WaitInv, LimiterInv, SetWithinLimit, LastToAsk, Trimmed
  <2>2. ASSUME NEW m \in zset,
               m[1] + Window <= at[c] + result[c].retry_after + (Second - 1)
                                  + MaxSkew
        PROVE  m \notin S
    <3>1. /\ m[1] \in Nat /\ time \in Nat /\ skew[i] \in Nat /\ at[c] \in Nat
          /\ result[c].retry_after \in Nat
      BY <2>1, LimiterAssumption DEF TypeOK, Result
    <3>2. PICK now \in Nat : now = time + skew[i]
      BY <3>1
    <3>3. ~(m[1] > now - Window)
      BY <2>2, <3>1, <3>2, LimiterAssumption
    <3>4. m \notin Trimmed(now)
      BY <3>3 DEF Trimmed
    <3>5. QED BY <3>2, <3>4
  <2> HIDE DEF S
  <2>3. IsFiniteSet(S) /\ Cardinality(S) <= Cardinality(zset)
        /\ (Cardinality(zset) = Cardinality(S) => zset = S)
    BY <2>1, FS_Subset
  <2>4. Cardinality(S) \in Nat /\ Cardinality(zset) \in Nat
    BY <2>1, <2>3, FS_CardinalityType
  <2>5. CASE zset = {}
    <3>1. Cardinality(S) = 0
      BY <2>1, <2>5, FS_EmptySet
    <3>2. QED BY <3>1, LimiterAssumption DEF Full, S
  <2>6. CASE zset # {}
    <3>1. zset # S
      BY <2>1, <2>2, <2>6 DEF OldestLeavesInTime
    <3>2. Cardinality(S) < Limit
      BY <2>1, <2>3, <2>4, <3>1, LimiterAssumption
    <3>3. QED BY <2>4, <3>2, LimiterAssumption DEF Full, S
  <2>7. QED BY <2>5, <2>6
<1>3. QED BY <1>1, <1>2, WaitNext, PTL DEF Spec
==============================================================================
