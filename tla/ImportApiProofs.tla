--------------------------- MODULE ImportApiProofs ---------------------------
(***************************************************************************)
(* Theorems about ImportApi, for any number of requests and faults of      *)
(* every kind.                                                             *)
(***************************************************************************)
EXTENDS ImportApi, TLAPS

\* A file is there from open() until its request loses or is refused; a row
\* is there from the commit on, and its request never unlinks.
FileAndRow ==
    \A r \in Requests :
        /\ pc[r] \in {"upload", "select", "commit"} => r \in files
        /\ r \in table => r \in files /\ pc[r] \in {"refresh", "enqueue", "done"}
        /\ pc[r] \in {"refresh", "enqueue"} => r \in table

UniqueKey ==
    \A j, k \in table : IdempotencyKey(j) = IdempotencyKey(k) => j = k

\* An entry is added by the last step of the handler that committed its job.
StreamOnce ==
    /\ \A n \in 1..Len(stream) : stream[n] \in table /\ pc[stream[n]] = "done"
    /\ \A m, n \in 1..Len(stream) : stream[m] = stream[n] => m = n

AnswerFits ==
    \A r \in Requests : Answered(r) =>
        /\ answer[r].job \in table
        /\ IdempotencyKey(answer[r].job) = IdempotencyKey(r)

ApiInv == TypeOK /\ FileAndRow /\ UniqueKey /\ StreamOnce /\ AnswerFits

LEMMA ApiInit == Init => ApiInv
<1> SUFFICES ASSUME Init PROVE ApiInv
  OBVIOUS
<1> USE DEF Init, NoAnswer
<1>1. TypeOK BY ApiAssumption DEF TypeOK, PC, Code
<1>2. FileAndRow BY DEF FileAndRow
<1>3. UniqueKey BY DEF UniqueKey
<1>4. StreamOnce BY DEF StreamOnce
<1>5. AnswerFits BY DEF AnswerFits, Answered
<1>6. QED BY <1>1, <1>2, <1>3, <1>4, <1>5 DEF ApiInv

LEMMA ApiNext == ApiInv /\ [Next]_vars => ApiInv'
<1> SUFFICES ASSUME ApiInv, [Next]_vars PROVE ApiInv'
  OBVIOUS
<1> USE ApiAssumption DEF ApiInv
<1>k. ASSUME form' = form, NEW r \in Requests
      PROVE  IdempotencyKey(r)' = IdempotencyKey(r)
  BY <1>k DEF IdempotencyKey
<1>f. ASSUME NEW kind \in FaultKind, Fault(kind) PROVE faults' \in 0..MaxFaults
  BY <1>f DEF Fault, TypeOK
\* A step that ends r, or takes it on, and touches neither table nor stream.
<1>1. ASSUME NEW r \in Requests, UNCHANGED <<form, table, stream>>,
             files' \subseteq Requests, faults' \in 0..MaxFaults,
             \A q \in Requests \ {r} : q \in files => q \in files',
             r \in table => r \in files',
             NEW l \in PC, Goto(r, l),
             l \in {"upload", "select", "commit"} => r \in files' /\ r \notin table,
             l = "enqueue" => pc[r] = "refresh", l # "refresh",
             pc[r] # "done",
             r \in table => l \in {"enqueue", "done"},
             \/ answer' = answer
             \/ answer' = [answer EXCEPT ![r] = [code |-> 400, job |-> None]]
             \/ answer' = [answer EXCEPT ![r] = [code |-> 413, job |-> None]]
             \/ answer' = [answer EXCEPT ![r] = [code |-> 500, job |-> None]]
             \/ \E j \in table :
                  /\ IdempotencyKey(j) = IdempotencyKey(r)
                  /\ answer' = [answer EXCEPT ![r] = [code |-> 202, job |-> j]]
      PROVE  ApiInv'
  <2>1. TypeOK'
    BY <1>1 DEF TypeOK, Goto, Code
  <2>2. FileAndRow'
    BY <1>1 DEF FileAndRow, Goto, TypeOK
  <2>3. UniqueKey'
    BY <1>1, <1>k DEF UniqueKey, TypeOK, IdempotencyKey
  <2>4. StreamOnce'
    BY <1>1 DEF StreamOnce, Goto, TypeOK
  <2>5. AnswerFits'
    <3>1. ASSUME NEW q \in Requests, Answered(q)'
          PROVE  /\ answer'[q].job \in table
                 /\ IdempotencyKey(answer'[q].job) = IdempotencyKey(q)
      <4>1. CASE answer'[q] = answer[q]
        BY <3>1, <4>1 DEF AnswerFits, Answered
      <4>2. CASE answer'[q] # answer[q]
        <5>1. q = r /\ answer'[r].code = 202
          BY <1>1, <3>1, <4>2 DEF Answered, TypeOK
        <5>2. PICK j \in table :
                 /\ IdempotencyKey(j) = IdempotencyKey(r)
                 /\ answer' = [answer EXCEPT ![r] = [code |-> 202, job |-> j]]
          BY <1>1, <4>2, <5>1 DEF TypeOK
        <5>3. answer'[r].job = j
          BY <5>2 DEF TypeOK
        <5>4. QED BY <5>1, <5>2, <5>3
      <4>3. QED BY <4>1, <4>2
    <3>2. QED
      BY <1>1, <3>1 DEF AnswerFits, IdempotencyKey
  <2>6. QED BY <2>1, <2>2, <2>3, <2>4, <2>5
<1>2. ASSUME NEW r \in Requests, Receive(r) PROVE ApiInv'
  BY <1>1, <1>2 DEF Receive, Refuse, Respond, Goto, PC, Code, TypeOK, FileAndRow
<1>3. ASSUME NEW r \in Requests, Upload(r) PROVE ApiInv'
  <2>1. /\ pc[r] = "upload" /\ r \in files /\ r \notin table
        /\ files \subseteq Requests /\ faults' \in 0..MaxFaults
        /\ UNCHANGED <<form, table, stream>> /\ "done" \in PC /\ "select" \in PC
    BY <1>3 DEF Upload, TypeOK, FileAndRow, PC
  <2>2. ASSUME Unlink(r), Refuse(r, 400) \/ Refuse(r, 413) PROVE ApiInv'
    BY <1>1, <2>1, <2>2 DEF Unlink, Refuse, Respond
  <2>3. ASSUME Goto(r, "select"), UNCHANGED <<files, answer>> PROVE ApiInv'
    BY <1>1, <2>1, <2>3
  <2>4. QED BY <1>3, <2>2, <2>3 DEF Upload
<1>4. ASSUME NEW r \in Requests, SelectExisting(r) PROVE ApiInv'
  <2>1. CASE WithSameKey(r) = {}
    BY <1>1, <1>4, <2>1 DEF SelectExisting, Goto, PC, TypeOK, FileAndRow
  <2>2. ASSUME NEW j \in WithSameKey(r), Unlink(r), Accept(r, j) PROVE ApiInv'
    <3>1. /\ j \in table /\ IdempotencyKey(j) = IdempotencyKey(r)
          /\ answer' = [answer EXCEPT ![r] = [code |-> 202, job |-> j]]
          /\ Goto(r, "done") /\ "done" \in PC
      BY <2>2 DEF WithSameKey, Accept, Respond, PC
    <3>2. /\ pc[r] = "select" /\ files' = files \ {r}
          /\ UNCHANGED <<form, table, stream, faults>>
      BY <1>4, <2>2 DEF SelectExisting, Unlink
    <3>3. r \notin table /\ files \subseteq Requests /\ faults \in 0..MaxFaults
      BY <3>2 DEF FileAndRow, TypeOK
    <3>4. QED BY <1>1, <3>1, <3>2, <3>3
  <2>3. QED BY <1>4, <2>1, <2>2 DEF SelectExisting
<1>5. ASSUME NEW r \in Requests, pc[r] = "commit", WithSameKey(r) = {},
             table' = table \cup {r}, UNCHANGED <<form, files, stream>>,
             faults' \in 0..MaxFaults, NEW l \in {"refresh", "done"}, Goto(r, l),
             \/ answer' = answer
             \/ answer' = [answer EXCEPT ![r] = [code |-> 500, job |-> None]]
      PROVE  ApiInv'
  <2>1. TypeOK'
    BY <1>5 DEF TypeOK, Goto, PC, Code
  <2>2. FileAndRow'
    BY <1>5 DEF FileAndRow, Goto, TypeOK
  <2>3. UniqueKey'
    BY <1>5 DEF UniqueKey, WithSameKey, IdempotencyKey
  <2>4. StreamOnce'
    BY <1>5 DEF StreamOnce, Goto, TypeOK
  <2>5. AnswerFits'
    BY <1>5 DEF AnswerFits, Answered, IdempotencyKey, TypeOK
  <2>6. QED BY <2>1, <2>2, <2>3, <2>4, <2>5
<1>6. ASSUME NEW r \in Requests, CommitJob(r) PROVE ApiInv'
  <2>1. CASE WithSameKey(r) = {}
    BY <1>5, <1>6, <2>1 DEF CommitJob, TypeOK
  <2>2. CASE WithSameKey(r) # {}
    BY <1>1, <1>6, <2>2 DEF CommitJob, Unlink, Goto, PC, TypeOK, FileAndRow
  <2>3. QED BY <2>1, <2>2
<1>7. ASSUME NEW r \in Requests, ReturnWinner(r) PROVE ApiInv'
  <2>1. PICK j \in WithSameKey(r) : Accept(r, j)
    BY <1>7 DEF ReturnWinner
  <2>2. /\ j \in table /\ IdempotencyKey(j) = IdempotencyKey(r)
        /\ answer' = [answer EXCEPT ![r] = [code |-> 202, job |-> j]]
        /\ Goto(r, "done") /\ "done" \in PC
    BY <2>1 DEF WithSameKey, Accept, Respond, PC
  <2>3. pc[r] = "lost" /\ UNCHANGED <<form, files, table, stream, faults>>
    BY <1>7 DEF ReturnWinner
  <2>4. r \notin table /\ files \subseteq Requests /\ faults \in 0..MaxFaults
    BY <2>3 DEF FileAndRow, TypeOK
  <2>5. QED BY <1>1, <2>2, <2>3, <2>4
<1>8. ASSUME NEW r \in Requests, RefreshJob(r) PROVE ApiInv'
  BY <1>1, <1>8 DEF RefreshJob, Goto, PC, TypeOK, FileAndRow
<1>9. ASSUME NEW r \in Requests, pc[r] = "enqueue", Goto(r, "done"),
             stream' = Append(stream, r), UNCHANGED <<form, files, table>>,
             faults' \in 0..MaxFaults,
             \/ answer' = [answer EXCEPT ![r] = [code |-> 202, job |-> r]]
             \/ answer' = [answer EXCEPT ![r] = [code |-> 500, job |-> None]]
      PROVE  ApiInv'
  <2>1. TypeOK'
    BY <1>9 DEF TypeOK, Goto, PC, Code
  <2>2. FileAndRow'
    BY <1>9 DEF FileAndRow, Goto, TypeOK
  <2>3. UniqueKey'
    BY <1>9 DEF UniqueKey, IdempotencyKey
  <2>4. StreamOnce'
    <3>1. r \in table
      BY <1>9 DEF FileAndRow
    <3>2. \A n \in 1..Len(stream) : stream[n] # r
      BY <1>9 DEF StreamOnce
    <3>3. /\ Len(stream') = Len(stream) + 1 /\ Len(stream) \in Nat
          /\ stream'[Len(stream) + 1] = r
          /\ \A n \in 1..Len(stream) : stream'[n] = stream[n]
      BY <1>9 DEF TypeOK
    <3>4. \A n \in 1..Len(stream') : n \in 1..Len(stream) \/ n = Len(stream) + 1
      BY <3>3
    <3>5. QED
      BY <1>9, <3>1, <3>2, <3>3, <3>4 DEF StreamOnce, Goto, TypeOK
  <2>5. AnswerFits'
    <3>1. r \in table
      BY <1>9 DEF FileAndRow
    <3>2. ASSUME NEW q \in Requests, Answered(q)'
          PROVE  /\ answer'[q].job \in table
                 /\ IdempotencyKey(answer'[q].job) = IdempotencyKey(q)
      <4>1. CASE q = r
        BY <1>9, <3>1, <3>2, <4>1 DEF Answered, TypeOK
      <4>2. CASE q # r
        BY <1>9, <3>2, <4>2 DEF AnswerFits, Answered, TypeOK
      <4>3. QED BY <4>1, <4>2
    <3>3. QED
      BY <1>9, <3>2 DEF AnswerFits, IdempotencyKey
  <2>6. QED BY <2>1, <2>2, <2>3, <2>4, <2>5
<1>10. ASSUME NEW r \in Requests, EnqueueImportJob(r) PROVE ApiInv'
  BY <1>9, <1>10 DEF EnqueueImportJob, Accept, Respond, TypeOK
<1>11. ASSUME NEW r \in Requests, Crash(r) \/ DiskError(r) \/ DbError(r)
       PROVE  ApiInv'
  BY <1>1, <1>11
  DEF Crash, DiskError, DbError, Fault, Refuse, Respond, Goto, PC, Code, TypeOK,
      FileAndRow
<1>12. ASSUME NEW r \in Requests, CommitReplyLost(r) PROVE ApiInv'
  <2>1. faults' \in 0..MaxFaults
    BY <1>f, <1>12 DEF CommitReplyLost, FaultKind
  <2>2. /\ Goto(r, "done")
        /\ answer' = [answer EXCEPT ![r] = [code |-> 500, job |-> None]]
    BY <1>12 DEF CommitReplyLost, Refuse, Respond
  <2>3. QED BY <1>5, <1>12, <2>1, <2>2 DEF CommitReplyLost
<1>13. ASSUME NEW r \in Requests, RedisError(r) PROVE ApiInv'
  <2>1. faults' \in 0..MaxFaults
    BY <1>f, <1>13 DEF RedisError, FaultKind
  <2>2. /\ pc[r] = "enqueue" /\ Goto(r, "done") /\ "done" \in PC
        /\ answer' = [answer EXCEPT ![r] = [code |-> 500, job |-> None]]
        /\ UNCHANGED <<form, files, table>>
    BY <1>13 DEF RedisError, Refuse, Respond, PC
  <2>3. CASE stream' = Append(stream, r)
    BY <1>9, <2>1, <2>2, <2>3
  <2>4. CASE stream' = stream
    <3>1. r \in files /\ files' \subseteq Requests
      BY <2>2 DEF FileAndRow, TypeOK
    <3>2. QED BY <1>1, <2>1, <2>2, <2>4, <3>1
  <2>5. QED BY <1>13, <2>3, <2>4 DEF RedisError
<1>14. CASE UNCHANGED vars
  BY <1>14 DEF vars, TypeOK, FileAndRow, UniqueKey, StreamOnce, AnswerFits,
               Answered, IdempotencyKey
<1>15. QED
  BY <1>2, <1>3, <1>4, <1>6, <1>7, <1>8, <1>10, <1>11, <1>12, <1>13, <1>14
  DEF Next, Handle, HandlerFault

\* Every variable keeps its type.
THEOREM ApiTypeCorrect == Spec => []TypeOK
<1>1. ApiInv => TypeOK BY DEF ApiInv
<1>2. QED BY <1>1, ApiInit, ApiNext, PTL DEF Spec

\* The worker finds the file of every job it is handed: however requests race
\* and wherever their handlers fail, no job's file is discarded as a duplicate.
THEOREM FilesStay == Spec => []JobsHaveTheirFile
<1>1. ApiInv => JobsHaveTheirFile
  BY DEF ApiInv, FileAndRow, JobsHaveTheirFile, TypeOK
<1>2. QED BY <1>1, ApiInit, ApiNext, PTL DEF Spec

\* No logical import is enqueued twice, and no entry precedes its job's row.
THEOREM EnqueuedOnce == Spec => []OneEntryPerKey
<1>1. ApiInv => OneEntryPerKey
  BY DEF ApiInv, UniqueKey, StreamOnce, OneEntryPerKey, TypeOK
<1>2. QED BY <1>1, ApiInit, ApiNext, PTL DEF Spec

\* A repeated request is answered with the job of the first.
THEOREM RepeatIsSafe == Spec => []RepeatGetsSameJob
<1>1. ASSUME ApiInv PROVE RepeatGetsSameJob
  <2> SUFFICES ASSUME NEW r \in Requests, NEW s \in Requests, Answered(r)
               PROVE  /\ answer[r].job \in table
                      /\ /\ Answered(s)
                         /\ form[r].client = form[s].client
                         /\ form[r].key = form[s].key
                         /\ form[r].key = None => form[r].content = form[s].content
                         => answer[r].job = answer[s].job
    BY DEF RepeatGetsSameJob
  <2>1. answer[r].job \in table
    BY <1>1 DEF ApiInv, AnswerFits
  <2>2. ASSUME Answered(s), form[r].client = form[s].client,
               form[r].key = form[s].key,
               form[r].key = None => form[r].content = form[s].content
        PROVE  answer[r].job = answer[s].job
    <3>1. IdempotencyKey(r) = IdempotencyKey(s)
      BY <2>2 DEF IdempotencyKey
    <3>2. QED BY <1>1, <2>2, <3>1 DEF ApiInv, AnswerFits, UniqueKey
  <2>3. QED BY <2>1, <2>2
<1>2. QED BY <1>1, ApiInit, ApiNext, PTL DEF Spec

-----------------------------------------------------------------------------
(* What a request leaves behind *)

\* A handler answers last of all, and one that has lost has unlinked its file.
HandlerInv ==
    \A r \in Requests :
        /\ pc[r] # "done" => answer[r].code = 0
        /\ pc[r] = "lost" => r \notin files
        /\ pc[r] = "new" => r \notin files

TraceInv == ApiInv /\ HandlerInv /\ NoStrayFile /\ UnqueuedOnlyIfBroken

\* What holds of every request holds after a step of request r, if it holds of
\* r and neither r's file nor its row concerns the others.
LEMMA OneRequestAtATime ==
    ASSUME TraceInv, NEW r \in Requests, NEW l \in PC, Goto(r, l),
           files \ {r} = files' \ {r}, table \ {r} = table' \ {r},
           stream' = stream \/ stream' = Append(stream, r),
           \A q \in Requests \ {r} : answer'[q] = answer[q],
           l # "done" => answer'[r].code = 0,
           l \in {"lost", "new"} => r \notin files',
           l = "done" /\ r \in files' => r \in table' \/ Broken(r)',
           r \in table' =>
             Enqueued(r)' \/ l \in {"refresh", "enqueue"} \/ Broken(r)'
    PROVE  /\ HandlerInv' /\ NoStrayFile' /\ UnqueuedOnlyIfBroken'
<1> USE DEF TraceInv
<1>1. /\ pc \in [Requests -> PC] /\ table \subseteq Requests
      /\ files \subseteq Requests /\ stream \in Seq(Requests)
  BY DEF ApiInv, TypeOK
<1>2. pc'[r] = l /\ \A q \in Requests \ {r} : pc'[q] = pc[q]
  BY <1>1 DEF Goto
<1>3. \A q \in Requests \ {r} :
        /\ q \in files' <=> q \in files
        /\ q \in table' <=> q \in table
        /\ Broken(q)' <=> Broken(q)
  BY <1>2 DEF Broken
<1>4. ASSUME NEW q \in Requests, Enqueued(q) PROVE Enqueued(q)'
  <2>1. PICK n \in 1..Len(stream) : stream[n] = q
    BY <1>4 DEF Enqueued
  <2>2. n \in 1..Len(stream') /\ stream'[n] = q
    BY <1>1, <2>1
  <2>3. QED BY <2>2 DEF Enqueued
<1>5. HandlerInv'
  BY <1>2, <1>3 DEF HandlerInv
<1>6. NoStrayFile'
  BY <1>2, <1>3 DEF NoStrayFile
<1>7. UnqueuedOnlyIfBroken'
  <2>1. ASSUME NEW j \in table', j # r
        PROVE  Enqueued(j)' \/ pc'[j] \in {"refresh", "enqueue"} \/ Broken(j)'
    <3>1. j \in table /\ j \in Requests
      BY <1>1, <2>1
    <3>2. QED BY <1>2, <1>3, <1>4, <2>1, <3>1 DEF UnqueuedOnlyIfBroken
  <2>2. QED BY <1>2, <2>1 DEF UnqueuedOnlyIfBroken
<1>8. QED BY <1>5, <1>6, <1>7

LEMMA TraceNext == TraceInv /\ [Next]_vars => TraceInv'
<1> SUFFICES ASSUME TraceInv, [Next]_vars PROVE TraceInv'
  OBVIOUS
<1>1. ApiInv /\ ApiInv' /\ TypeOK /\ HandlerInv
  BY ApiNext DEF TraceInv, ApiInv
<1> DEFINE G == HandlerInv' /\ NoStrayFile' /\ UnqueuedOnlyIfBroken'
<1>2. /\ answer \in [Requests -> [code: Code, job: Requests \cup {None}]]
      /\ PC = {"new", "upload", "select", "commit", "lost", "refresh",
               "enqueue", "done"}
      /\ \A r \in Requests :
           r \in table => pc[r] \in {"refresh", "enqueue", "done"}
  BY <1>1 DEF TypeOK, PC, ApiInv, FileAndRow
<1>3. ASSUME NEW r \in Requests, NEW c \in Code, NEW j, Respond(r, c, j)
      PROVE  /\ Goto(r, "done") /\ answer'[r].code = c
             /\ \A q \in Requests \ {r} : answer'[q] = answer[q]
             /\ Broken(r)' <=> c \in {0, 500}
  <2>1. /\ Goto(r, "done") /\ answer'[r].code = c /\ pc'[r] = "done"
        /\ \A q \in Requests \ {r} : answer'[q] = answer[q]
    BY <1>1, <1>2, <1>3 DEF Respond, Goto, TypeOK
  <2>2. QED BY <2>1 DEF Broken
<1>4. Code = {0, 202, 400, 413, 500}
  BY DEF Code
<1>5. ASSUME NEW r \in Requests, pc[r] # "done", pc[r] # "lost",
             Unlink(r), UNCHANGED <<table, stream>>, r \notin table,
             \/ \E c \in Code, j \in Requests \cup {None} : Respond(r, c, j)
             \/ Goto(r, "lost") /\ UNCHANGED answer
      PROVE  G
  <2>1. /\ r \notin files' /\ files \ {r} = files' \ {r} /\ r \notin table'
        /\ answer[r].code = 0
    BY <1>1, <1>5 DEF Unlink, HandlerInv
  <2>2. CASE Goto(r, "lost") /\ UNCHANGED answer
    BY <1>2, <1>5, <2>1, <2>2, OneRequestAtATime
  <2>3. ASSUME NEW c \in Code, NEW j, Respond(r, c, j) PROVE G
    BY <1>2, <1>3, <1>5, <2>1, <2>3, OneRequestAtATime
  <2>4. QED BY <1>5, <2>2, <2>3
<1>6. ASSUME NEW r \in Requests, UNCHANGED <<stream, answer>>,
             files \ {r} = files' \ {r}, table \ {r} = table' \ {r},
             pc[r] # "done",
             NEW l \in {"upload", "select", "commit", "refresh", "enqueue"},
             Goto(r, l), r \in table' => l \in {"refresh", "enqueue"}
      PROVE  G
  <2>1. answer[r].code = 0 /\ l \in PC /\ l # "done" /\ l \notin {"lost", "new"}
    BY <1>1, <1>2, <1>6 DEF HandlerInv
  <2>2. QED BY <1>6, <2>1, OneRequestAtATime
<1>7. ASSUME NEW r \in Requests, pc[r] # "done", UNCHANGED files,
             table \ {r} = table' \ {r},
             stream' = stream \/ stream' = Append(stream, r),
             Refuse(r, 500) \/ (Goto(r, "done") /\ UNCHANGED answer)
      PROVE  G
  <2>1. answer[r].code = 0
    BY <1>1, <1>7 DEF HandlerInv
  <2>2. /\ Goto(r, "done") /\ Broken(r)'
        /\ \A q \in Requests \ {r} : answer'[q] = answer[q]
    <3>1. CASE Refuse(r, 500)
      BY <1>3, <1>4, <3>1 DEF Refuse
    <3>2. CASE Goto(r, "done") /\ UNCHANGED answer
      BY <1>1, <2>1, <3>2 DEF Goto, Broken, TypeOK
    <3>3. QED BY <1>7, <3>1, <3>2
  <2>3. QED BY <1>2, <1>7, <2>2, OneRequestAtATime
<1>8. ASSUME NEW r \in Requests, Receive(r) PROVE G
  <2>1. /\ pc[r] = "new" /\ r \notin files /\ r \notin table
        /\ UNCHANGED <<table, stream>>
    BY <1>1, <1>2, <1>8 DEF Receive, HandlerInv
  <2>2. CASE Refuse(r, 400) /\ UNCHANGED files
    <3>1. /\ Goto(r, "done") /\ \A q \in Requests \ {r} : answer'[q] = answer[q]
      BY <1>3, <1>4, <2>2 DEF Refuse
    <3>2. QED BY <1>2, <2>1, <2>2, <3>1, OneRequestAtATime
  <2>3. CASE files' = files \cup {r} /\ Goto(r, "upload") /\ UNCHANGED answer
    BY <1>6, <2>1, <2>3
  <2>4. QED BY <1>8, <2>2, <2>3 DEF Receive
<1>9. ASSUME NEW r \in Requests, Upload(r) \/ SelectExisting(r) PROVE G
  <2>1. /\ pc[r] \in {"upload", "select"} /\ r \notin table
        /\ UNCHANGED <<table, stream>>
    BY <1>2, <1>9 DEF Upload, SelectExisting
  <2>2. CASE Unlink(r) /\ (Refuse(r, 413) \/ Refuse(r, 400))
    BY <1>4, <1>5, <2>1, <2>2 DEF Refuse
  <2>3. ASSUME NEW j \in WithSameKey(r), Unlink(r), Accept(r, j) PROVE G
    <3>1. j \in Requests
      BY <1>1 DEF WithSameKey, TypeOK
    <3>2. QED BY <1>4, <1>5, <2>1, <2>3, <3>1 DEF Accept
  <2>4. CASE (Goto(r, "select") \/ Goto(r, "commit")) /\ UNCHANGED <<files, answer>>
    BY <1>6, <2>1, <2>4
  <2>5. QED BY <1>9, <2>2, <2>3, <2>4 DEF Upload, SelectExisting
<1>10. ASSUME NEW r \in Requests, CommitJob(r) PROVE G
  <2>1. pc[r] = "commit" /\ r \notin table /\ UNCHANGED <<stream, answer>>
    BY <1>2, <1>10 DEF CommitJob
  <2>2. CASE table' = table \cup {r} /\ Goto(r, "refresh") /\ UNCHANGED files
    BY <1>6, <2>1, <2>2
  <2>3. CASE Unlink(r) /\ Goto(r, "lost") /\ UNCHANGED table
    BY <1>5, <2>1, <2>3
  <2>4. QED BY <1>10, <2>2, <2>3 DEF CommitJob
<1>11. ASSUME NEW r \in Requests, ReturnWinner(r) PROVE G
  <2>1. /\ pc[r] = "lost" /\ r \notin table /\ r \notin files
        /\ UNCHANGED <<files, table, stream>>
    BY <1>1, <1>2, <1>11 DEF ReturnWinner, HandlerInv
  <2>2. PICK j \in WithSameKey(r) : Respond(r, 202, j)
    BY <1>11 DEF ReturnWinner, Accept
  <2>3. Goto(r, "done") /\ \A q \in Requests \ {r} : answer'[q] = answer[q]
    BY <1>3, <1>4, <2>2
  <2>4. QED BY <1>2, <2>1, <2>3, OneRequestAtATime
<1>12. ASSUME NEW r \in Requests, RefreshJob(r) PROVE G
  BY <1>6, <1>12 DEF RefreshJob
<1>13. ASSUME NEW r \in Requests, EnqueueImportJob(r) PROVE G
  <2>1. /\ pc[r] = "enqueue" /\ r \in table /\ stream' = Append(stream, r)
        /\ UNCHANGED <<files, table>>
    BY <1>1, <1>13 DEF EnqueueImportJob, ApiInv, FileAndRow
  <2>2. Goto(r, "done") /\ \A q \in Requests \ {r} : answer'[q] = answer[q]
    BY <1>3, <1>4, <1>13 DEF EnqueueImportJob, Accept
  <2>3. Enqueued(r)'
    <3>1. /\ Len(stream) + 1 \in 1..Len(stream')
          /\ stream'[Len(stream) + 1] = r
      BY <1>1, <2>1 DEF TypeOK
    <3>2. QED BY <3>1 DEF Enqueued
  <2>4. QED BY <1>2, <2>1, <2>2, <2>3, OneRequestAtATime
<1>14. ASSUME NEW r \in Requests, HandlerFault(r) PROVE G
  <2>1. /\ pc[r] # "done" /\ UNCHANGED files
        /\ Refuse(r, 500) \/ (Goto(r, "done") /\ UNCHANGED answer)
    BY <1>14 DEF HandlerFault, Crash, DiskError, DbError, CommitReplyLost,
                 RedisError
  <2>2. /\ table \ {r} = table' \ {r}
        /\ stream' = stream \/ stream' = Append(stream, r)
    BY <1>14 DEF HandlerFault, Crash, DiskError, DbError, CommitReplyLost,
                 RedisError
  <2>3. QED BY <1>7, <2>1, <2>2
<1>15. ASSUME UNCHANGED vars PROVE G
  BY <1>15 DEF vars, TraceInv, HandlerInv, NoStrayFile, UnqueuedOnlyIfBroken,
               Broken, Enqueued
<1> HIDE DEF G
<1>16. G
  BY <1>8, <1>9, <1>10, <1>11, <1>12, <1>13, <1>14, <1>15 DEF Next, Handle
<1>17. QED BY <1>1, <1>16 DEF TraceInv, G

LEMMA TraceInit == Init => TraceInv
BY ApiInit DEF Init, NoAnswer, TraceInv, HandlerInv, NoStrayFile,
               UnqueuedOnlyIfBroken

\* A request that is answered properly leaves no file behind but that of its
\* job, whichever race it lost: only a handler that broke down does.
THEOREM StrayOnlyIfBroken == Spec => []NoStrayFile
<1>1. TraceInv => NoStrayFile BY DEF TraceInv
<1>2. QED BY <1>1, TraceInit, TraceNext, PTL DEF Spec

\* Every committed job reaches the stream, except when the handler that
\* committed it broke down before it was told of the XADD.
THEOREM ForgottenOnlyIfBroken == Spec => []UnqueuedOnlyIfBroken
<1>1. TraceInv => UnqueuedOnlyIfBroken BY DEF TraceInv
<1>2. QED BY <1>1, TraceInit, TraceNext, PTL DEF Spec
==============================================================================
