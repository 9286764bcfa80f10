------------------------- MODULE AccountSummaryProofs -------------------------
(***************************************************************************)
(* Staleness is bounded for any number of readers and batches, any TTL and *)
(* any bound on the delay of a fill, with every fault possible.            *)
(***************************************************************************)
EXTENDS AccountSummary, TLAPS

Numbers == 1..Len(committed)

ClocksInOrder ==
    /\ \A n \in Numbers : committed[n] <= time
    /\ \A r \in Readers : at[r] <= time

\* A fill under way lacks only what was committed since its query.
FillsAreRecent ==
    \A r \in Readers : pc[r] = "set" =>
        /\ summary[r] \in Nat
        /\ time <= at[r] + MaxDelay
        /\ \A n \in Numbers : n > summary[r] => at[r] <= committed[n]

\* What the cached summary lacks is not old enough to outlive the entry.
EntryExpiresInTime ==
    cache # None =>
        /\ time <= cache.expireAt /\ cache.expireAt <= time + Ttl
        /\ \A n \in Numbers :
             n > cache.summary => cache.expireAt <= committed[n] + Ttl + MaxDelay

SummaryInv ==
    /\ TypeOK /\ ClocksInOrder /\ FillsAreRecent /\ EntryExpiresInTime
    /\ BoundedStaleness

LEMMA SummaryInit == Init => SummaryInv
<1> SUFFICES ASSUME Init PROVE SummaryInv
  OBVIOUS
<1> USE SummaryAssumption DEF Init
<1>1. TypeOK BY DEF TypeOK
<1>2. ClocksInOrder BY DEF ClocksInOrder, Numbers
<1>3. FillsAreRecent BY DEF FillsAreRecent
<1>4. EntryExpiresInTime BY DEF EntryExpiresInTime
<1>5. BoundedStaleness BY DEF BoundedStaleness, Answered
<1>6. QED BY <1>1, <1>2, <1>3, <1>4, <1>5 DEF SummaryInv

\* A reader's step that leaves the clock, the table and the cache alone.
ReaderMoves(r, label, s, t) ==
    /\ UNCHANGED <<time, committed, cache, batchVars>>
    /\ pc' = [pc EXCEPT ![r] = label]
    /\ summary' = [summary EXCEPT ![r] = s]
    /\ at' = [at EXCEPT ![r] = t]
    /\ s \in Nat \cup {None} /\ t \in 0..MaxTime /\ t <= time

LEMMA ReaderStep ==
    ASSUME SummaryInv, NEW r \in Readers, NEW label \in {"query", "set", "done"},
           NEW s, NEW t, ReaderMoves(r, label, s, t),
           label = "set" => s = Len(committed) /\ t = time,
           label = "done" /\ s # None =>
             \A n \in Numbers : n > s => t <= committed[n] + Ttl + MaxDelay
    PROVE  SummaryInv'
<1> USE SummaryAssumption DEF SummaryInv, ReaderMoves
<1>1. TypeOK'
  BY DEF TypeOK, batchVars
<1>2. ClocksInOrder'
  BY DEF ClocksInOrder, TypeOK, Numbers
<1>3. FillsAreRecent'
  <2> SUFFICES ASSUME NEW q \in Readers, pc'[q] = "set"
               PROVE  /\ summary'[q] \in Nat
                      /\ time <= at'[q] + MaxDelay
                      /\ \A n \in Numbers :
                           n > summary'[q] => at'[q] <= committed[n]
    BY DEF FillsAreRecent, Numbers
  <2>1. CASE q = r
    BY <2>1 DEF TypeOK, Numbers
  <2>2. CASE q # r
    BY <2>2 DEF FillsAreRecent, TypeOK
  <2>3. QED BY <2>1, <2>2
<1>4. EntryExpiresInTime'
  BY DEF EntryExpiresInTime, Numbers
<1>5. BoundedStaleness'
  <2> SUFFICES ASSUME NEW q \in Readers, pc'[q] = "done", summary'[q] # None,
                      NEW n \in Numbers, n > summary'[q]
               PROVE  at'[q] <= committed[n] + Ttl + MaxDelay
    BY DEF BoundedStaleness, Answered, Numbers
  <2>1. CASE q = r
    BY <2>1 DEF TypeOK
  <2>2. CASE q # r
    BY <2>2 DEF BoundedStaleness, Answered, TypeOK, Numbers
  <2>3. QED BY <2>1, <2>2
<1>6. QED BY <1>1, <1>2, <1>3, <1>4, <1>5

LEMMA SummaryNext == SummaryInv /\ [Next]_vars => SummaryInv'
<1> SUFFICES ASSUME SummaryInv, [Next]_vars PROVE SummaryInv'
  OBVIOUS
<1> USE SummaryAssumption
<1>t. TypeOK /\ Len(committed) \in Nat
  BY DEF SummaryInv, TypeOK
<1>1. ASSUME NEW r \in Readers, GetCache(r) PROVE SummaryInv'
  <2>1. CASE cache # None /\ Answer(r, cache.summary)
    <3>1. cache.summary \in Nat /\ time \in 0..MaxTime
      BY <1>t, <2>1 DEF TypeOK, Entry
    <3>2. ASSUME NEW n \in Numbers, n > cache.summary
          PROVE  time <= committed[n] + Ttl + MaxDelay
      <4>1. /\ time <= cache.expireAt
            /\ cache.expireAt <= committed[n] + Ttl + MaxDelay
        BY <2>1, <3>2 DEF SummaryInv, EntryExpiresInTime
      <4>2. cache.expireAt \in Nat /\ committed[n] \in Nat
        BY <1>t, <2>1 DEF TypeOK, Entry, Numbers
      <4>3. QED BY <3>1, <4>1, <4>2
    <3>3. ReaderMoves(r, "done", cache.summary, time)
      BY <1>1, <2>1, <3>1 DEF GetCache, Answer, Goto, ReaderMoves
    <3>4. QED BY <3>2, <3>3, ReaderStep
  <2>2. CASE Goto(r, "query") /\ UNCHANGED <<summary, at>>
    <3>1. /\ summary' = [summary EXCEPT ![r] = summary[r]]
          /\ at' = [at EXCEPT ![r] = at[r]]
          /\ summary[r] \in Nat \cup {None} /\ at[r] \in 0..MaxTime
          /\ at[r] <= time
      BY <1>t, <2>2 DEF TypeOK, SummaryInv, ClocksInOrder
    <3>2. ReaderMoves(r, "query", summary[r], at[r])
      BY <1>1, <2>2, <3>1 DEF GetCache, Goto, ReaderMoves
    <3>3. QED BY <3>2, ReaderStep
  <2>3. QED BY <1>1, <2>1, <2>2 DEF GetCache
<1>2. ASSUME NEW r \in Readers, Query(r) PROVE SummaryInv'
  <2>1. ReaderMoves(r, "set", Len(committed), time)
    BY <1>2, <1>t DEF Query, Goto, TypeOK, ReaderMoves
  <2>2. QED BY <2>1, ReaderStep
<1>3. ASSUME NEW r \in Readers, QueryFails(r) PROVE SummaryInv'
  <2>1. ReaderMoves(r, "done", None, time)
    BY <1>3, <1>t DEF QueryFails, Answer, Goto, TypeOK, ReaderMoves
  <2>2. QED BY <2>1, ReaderStep
<1>4. ASSUME NEW r \in Readers, SetCache(r) PROVE SummaryInv'
  <2>1. /\ summary[r] \in Nat /\ at[r] <= time /\ time <= at[r] + MaxDelay
        /\ \A n \in Numbers : n > summary[r] => at[r] <= committed[n]
    BY <1>4 DEF SetCache, SummaryInv, FillsAreRecent, ClocksInOrder
  <2>2. ASSUME NEW n \in Numbers, n > summary[r]
        PROVE  /\ time <= committed[n] + Ttl + MaxDelay
               /\ time + Ttl <= committed[n] + Ttl + MaxDelay
    BY <1>t, <2>1, <2>2 DEF TypeOK, Numbers
  <2>3. pc' = [pc EXCEPT ![r] = "done"] /\ at' = [at EXCEPT ![r] = time]
        /\ UNCHANGED <<time, committed, batchVars>>
        /\ summary' = summary
    BY <1>4, <1>t DEF SetCache, Answer, Goto, TypeOK
  <2>4. \/ cache' = NewEntry(summary[r])
        \/ cache' = cache
    BY <1>4 DEF SetCache
  <2>5. TypeOK'
    BY <1>t, <2>1, <2>3, <2>4 DEF TypeOK, NewEntry, Entry, batchVars
  <2>6. ClocksInOrder'
    BY <1>t, <2>3 DEF SummaryInv, ClocksInOrder, TypeOK, Numbers
  <2>7. FillsAreRecent'
    BY <1>t, <2>3 DEF SummaryInv, FillsAreRecent, TypeOK, Numbers
  <2>8. EntryExpiresInTime'
    <3>1. CASE cache' = cache
      BY <2>3, <3>1 DEF SummaryInv, EntryExpiresInTime, Numbers
    <3>2. CASE cache' = NewEntry(summary[r])
      <4>1. cache'.summary = summary[r] /\ cache'.expireAt = time + Ttl
        BY <3>2 DEF NewEntry
      <4>2. time <= time + Ttl /\ time + Ttl <= time + Ttl
        BY <1>t DEF TypeOK
      <4>3. QED BY <2>2, <2>3, <4>1, <4>2 DEF EntryExpiresInTime, Numbers
    <3>3. QED BY <2>4, <3>1, <3>2
  <2>9. BoundedStaleness'
    BY <1>t, <2>2, <2>3
    DEF SummaryInv, BoundedStaleness, Answered, TypeOK, Numbers
  <2>10. QED BY <2>5, <2>6, <2>7, <2>8, <2>9 DEF SummaryInv
<1>5. ASSUME NEW b \in Batches, CommitBatch(b) PROVE SummaryInv'
  <2>1. /\ committed' = Append(committed, time)
        /\ UNCHANGED <<time, cache, readVars>>
        /\ Len(committed') = Len(committed) + 1
        /\ committed' \in Seq(0..MaxTime)
    BY <1>5, <1>t DEF CommitBatch, TypeOK
  <2>2. ASSUME NEW n \in Numbers'
        PROVE  \/ n \in Numbers /\ committed'[n] = committed[n]
               \/ committed'[n] = time
    BY <1>t, <2>1 DEF Numbers, TypeOK
  <2>3. TypeOK'
    BY <1>5, <1>t, <2>1 DEF CommitBatch, TypeOK, readVars
  <2>4. ClocksInOrder'
    <3>1. ASSUME NEW n \in Numbers' PROVE committed'[n] <= time
      <4>1. CASE n \in Numbers /\ committed'[n] = committed[n]
        BY <4>1 DEF SummaryInv, ClocksInOrder
      <4>2. CASE committed'[n] = time
        BY <1>t, <4>2 DEF TypeOK
      <4>3. QED BY <2>2, <4>1, <4>2
    <3>2. QED BY <2>1, <3>1 DEF SummaryInv, ClocksInOrder, readVars
  <2>5. FillsAreRecent'
    BY <1>t, <2>1, <2>2
    DEF SummaryInv, FillsAreRecent, ClocksInOrder, TypeOK, readVars
  <2>6. EntryExpiresInTime'
    <3> SUFFICES ASSUME cache # None, NEW n \in Numbers', n > cache.summary
                 PROVE  cache.expireAt <= committed'[n] + Ttl + MaxDelay
      BY <2>1 DEF SummaryInv, EntryExpiresInTime
    <3>1. cache.expireAt <= time + Ttl + MaxDelay
      BY <1>t DEF SummaryInv, EntryExpiresInTime, TypeOK, Entry
    <3>2. QED BY <2>2, <3>1 DEF SummaryInv, EntryExpiresInTime
  <2>7. BoundedStaleness'
    <3> SUFFICES ASSUME NEW q \in Readers, Answered(q), NEW n \in Numbers',
                        n > summary[q]
                 PROVE  at[q] <= committed'[n] + Ttl + MaxDelay
      BY <2>1 DEF BoundedStaleness, Answered, Numbers, readVars
    <3>1. at[q] <= time + Ttl + MaxDelay
      BY <1>t DEF SummaryInv, ClocksInOrder, TypeOK
    <3>2. QED BY <2>2, <3>1 DEF SummaryInv, BoundedStaleness, Numbers
  <2>8. QED BY <2>3, <2>4, <2>5, <2>6, <2>7 DEF SummaryInv
<1>6. ASSUME NEW b \in Batches, Invalidate(b) \/ InvalidationLost(b)
      PROVE  SummaryInv'
  <2>1. /\ UNCHANGED <<time, committed, readVars>>
        /\ cache' \in {cache, None}
    BY <1>6 DEF Invalidate, InvalidationLost
  <2>2. TypeOK'
    <3>1. /\ number' = number
          /\ \E label \in {"done", "lost"} : bpc' = [bpc EXCEPT ![b] = label]
      BY <1>6 DEF Invalidate, InvalidationLost
    <3>2. QED BY <1>t, <2>1, <3>1 DEF TypeOK, readVars
  <2>3. QED
    BY <2>1, <2>2 DEF SummaryInv, ClocksInOrder, FillsAreRecent, readVars,
                      EntryExpiresInTime, BoundedStaleness, Answered, Numbers
<1>7. ASSUME Tick PROVE SummaryInv'
  <2>1. time' = time + 1 /\ time < MaxTime
        /\ UNCHANGED <<committed, readVars, batchVars>>
    BY <1>7 DEF Tick
  <2>2. TypeOK'
    BY <1>7, <1>t DEF Tick, TypeOK, readVars, batchVars
  <2>3. ClocksInOrder'
    BY <1>t, <2>1 DEF SummaryInv, ClocksInOrder, TypeOK, readVars, Numbers
  <2>4. FillsAreRecent'
    BY <1>7, <1>t DEF Tick, SummaryInv, FillsAreRecent, TypeOK, readVars, Numbers
  <2>5. EntryExpiresInTime'
    <3> SUFFICES ASSUME cache' # None
                 PROVE  /\ cache' = cache
                        /\ time + 1 <= cache.expireAt
                        /\ cache.expireAt <= time + 1 + Ttl
      BY <2>1 DEF SummaryInv, EntryExpiresInTime, Numbers
    <3>1. cache # None /\ cache' = cache /\ ~(time + 1 > cache.expireAt)
      BY <1>7 DEF Tick
    <3>2. time \in Nat /\ cache.expireAt \in Nat
      BY <1>t, <3>1 DEF TypeOK, Entry
    <3>3. cache.expireAt <= time + Ttl
      BY <3>1 DEF SummaryInv, EntryExpiresInTime
    <3>4. QED BY <3>1, <3>2, <3>3
  <2>6. BoundedStaleness'
    BY <2>1 DEF SummaryInv, BoundedStaleness, Answered, readVars
  <2>7. QED BY <2>2, <2>3, <2>4, <2>5, <2>6 DEF SummaryInv
<1>8. CASE UNCHANGED vars
  BY <1>8 DEF vars, SummaryInv, TypeOK, ClocksInOrder, FillsAreRecent,
              EntryExpiresInTime, BoundedStaleness, Answered, Numbers
<1>9. QED BY <1>1, <1>2, <1>3, <1>4, <1>5, <1>6, <1>7, <1>8 DEF Next

\* Every variable keeps its type.
THEOREM SummaryTypeCorrect == Spec => []TypeOK
<1>1. SummaryInv => TypeOK BY DEF SummaryInv
<1>2. QED BY <1>1, SummaryInit, SummaryNext, PTL DEF Spec

\* An answer never lacks a batch committed longer ago than the TTL and the
\* delay of a fill: an entry is stored at most that delay after its query and
\* lives for the TTL, whoever fails to delete it.
THEOREM StalenessIsBounded == Spec => []BoundedStaleness
<1>1. SummaryInv => BoundedStaleness BY DEF SummaryInv
<1>2. QED BY <1>1, SummaryInit, SummaryNext, PTL DEF Spec

-----------------------------------------------------------------------------
(* Invalidation *)

\* A batch committed after the cached summary was stored has not yet deleted
\* it, or never will.
OvertakenInv ==
    /\ TypeOK
    /\ \A b \in Batches : number[b] <= Len(committed)
    /\ cache # None =>
         /\ cache.latest <= Len(committed)
         /\ \A b \in Batches :
              number[b] > cache.latest => bpc[b] \in {"invalidate", "lost"}

LEMMA OvertakenNext == SummaryInv /\ OvertakenInv /\ [Next]_vars => OvertakenInv'
<1> SUFFICES ASSUME SummaryInv, OvertakenInv, [Next]_vars PROVE OvertakenInv'
  OBVIOUS
<1>1. TypeOK' /\ TypeOK
  BY SummaryNext DEF SummaryInv
<1>2. Len(committed) \in Nat /\ \A b \in Batches : number[b] \in Nat
  BY <1>1 DEF TypeOK
<1>3. cache # None => cache.latest \in Nat
  BY <1>1 DEF TypeOK, Entry
<1>4. ASSUME UNCHANGED <<committed, number, bpc>>, cache' = cache \/ cache' = None
      PROVE  OvertakenInv'
  BY <1>1, <1>4 DEF OvertakenInv
<1>5. ASSUME NEW r \in Readers, SetCache(r) PROVE OvertakenInv'
  <2>1. CASE cache' = cache
    BY <1>4, <1>5, <2>1 DEF SetCache, batchVars
  <2>2. CASE cache' = NewEntry(summary[r])
    <3>1. cache'.latest = Len(committed) /\ UNCHANGED <<committed, number>>
      BY <1>5, <2>2 DEF SetCache, NewEntry, batchVars
    <3>2. QED BY <1>1, <1>2, <3>1 DEF OvertakenInv
  <2>3. QED BY <1>5, <2>1, <2>2 DEF SetCache
<1>6. ASSUME NEW b \in Batches, CommitBatch(b) PROVE OvertakenInv'
  <2>1. /\ Len(committed') = Len(committed) + 1 /\ cache' = cache
        /\ number'[b] = Len(committed) + 1 /\ bpc'[b] = "invalidate"
        /\ \A c \in Batches \ {b} : number'[c] = number[c] /\ bpc'[c] = bpc[c]
    BY <1>1, <1>6 DEF CommitBatch, TypeOK
  <2>2. QED BY <1>1, <1>2, <1>3, <2>1 DEF OvertakenInv
<1>7. ASSUME NEW b \in Batches, Invalidate(b) PROVE OvertakenInv'
  BY <1>1, <1>7 DEF Invalidate, OvertakenInv
<1>8. ASSUME NEW b \in Batches, InvalidationLost(b) PROVE OvertakenInv'
  BY <1>1, <1>8 DEF InvalidationLost, OvertakenInv, TypeOK
<1>9. ASSUME NEW r \in Readers, GetCache(r) \/ Query(r) \/ QueryFails(r)
      PROVE  OvertakenInv'
  BY <1>4, <1>9 DEF GetCache, Query, QueryFails, batchVars
<1>10. CASE Tick
  BY <1>4, <1>10 DEF Tick, batchVars
<1>11. CASE UNCHANGED vars
  BY <1>4, <1>11 DEF vars
<1>12. QED
  BY <1>5, <1>6, <1>7, <1>8, <1>9, <1>10, <1>11 DEF Next

\* A summary that was up to date when it was stored is out of date only until
\* the batch that overtook it has deleted it, or for the TTL if that DEL never
\* happened.
THEOREM OvertakenUntilInvalidated == Spec => []StaleOnlyUntilInvalidated
<1>1. Init => OvertakenInv
  BY SummaryInit DEF Init, SummaryInv, OvertakenInv
<1>2. OvertakenInv => StaleOnlyUntilInvalidated
  BY DEF OvertakenInv, StaleOnlyUntilInvalidated
<1>3. QED BY <1>1, <1>2, SummaryInit, SummaryNext, OvertakenNext, PTL DEF Spec
===============================================================================
