------------------------- MODULE OrchestratorProofs -------------------------
(***************************************************************************)
(* The safety of Orchestrator for every catalog, pool size, quota and      *)
(* number of tries.  The quotas are bounded by counting streams: one that  *)
(* sees a limit passed leaves for good, and only those that saw the limits *)
(* of the org before it was passed may start a job after.                  *)
(***************************************************************************)
EXTENDS Orchestrator, FiniteSetTheorems, TLAPS

\* Streams, by what the bounds count.
InCount == {s \in Stream : at[s] \in Counting}
Past == {s \in Stream : seen[s].usage = "past"}
Done == {s \in Selected : at[s] = "returned"}

\* Those that may still start a job, for all the Bulk quota check knows.
Ready ==
  {s \in Stream : at[s] \in Counting \cup {"check", "limits", "job", "chunk"} /\ ~seen[s].spent}

-----------------------------------------------------------------------------
(* The inductive invariant. *)

\* What a stream's place says of its other variables.
Places ==
  \A s \in Stream :
    /\ at[s] \in {"new", "queued", "request"} => left[s] > 0
    /\ at[s] \in {"new", "queued", "request", "check"} \cup Counting => tries[s] < MaxTries
    /\ at[s] \notin {"new", "returned"} => s \in Selected
    /\ seen[s].usage = "past" => at[s] \in Counting \cup {"check", "failed"}
    /\ at[s] \in {"job", "chunk"} => ~seen[s].spent

PoolBound == Cardinality(Running) <= MaxWorkers

\* Each request in progress is missing from the count, from one just read as well.
RequestsCounted ==
  /\ restCount + Cardinality(InCount) <= used - unseen
  /\ \A s \in Stream :
       at[s] = "storeCount" => loaded[s] + Cardinality(InCount) <= used - unseen

TotalQuota == used - unseen - unread <= TotalLimit + Cardinality(Past)

\* A stream that stores a count has not come to its end by then.
JobsCounted ==
  /\ jobCount <= Cardinality(Done)
  /\ \A s \in Stream : at[s] = "storeJobs" => loaded[s] <= Cardinality(Done)

\* Once the limit is passed, no stream becomes ready any more.
BulkQuota ==
  /\ batches <= TotalBatches => late = {}
  /\ batches > TotalBatches => Cardinality(late \cup Ready) <= MaxWorkers

Counts == PoolBound /\ RequestsCounted /\ TotalQuota /\ JobsCounted /\ BulkQuota

IInv == TypeOK /\ Places /\ Counts

-----------------------------------------------------------------------------
(* There are finitely many streams, and fewer make a smaller count. *)
LEMMA CountingSubsets ==
  ASSUME NEW Y \in SUBSET Stream, NEW X \in SUBSET Y
  PROVE  /\ IsFiniteSet(Y) /\ Cardinality(Y) \in Nat
         /\ Cardinality(X) <= Cardinality(Y)
  <1>1. IsFiniteSet(Stream)
    BY FS_Interval, OrchestratorAssumption DEF Stream
  <1>2. IsFiniteSet(Y)
    BY <1>1, FS_Subset
  <1> QED
    BY <1>2, FS_Subset, FS_CardinalityType

\* 1 for what is so.
One(b) == IF b THEN 1 ELSE 0

(* A stream that may enter or leave a set changes its count by one at most. *)
LEMMA Entering ==
  ASSUME NEW X \in SUBSET Stream, NEW Y \in SUBSET Stream, NEW s \in Stream,
         X \ {s} = Y \ {s}
  PROVE  Cardinality(Y) = Cardinality(X) - One(s \in X) + One(s \in Y)
  <1>1. IsFiniteSet(X) /\ IsFiniteSet(Y)
    BY CountingSubsets
  <1>2. Cardinality(X) \in Nat /\ Cardinality(Y) \in Nat
    BY CountingSubsets
  <1>3. Cardinality(X \ {s}) = IF s \in X THEN Cardinality(X) - 1 ELSE Cardinality(X)
    BY <1>1, FS_RemoveElement, Zenon
  <1>4. Cardinality(Y \ {s}) = IF s \in Y THEN Cardinality(Y) - 1 ELSE Cardinality(Y)
    BY <1>1, FS_RemoveElement, Zenon
  <1>5. Cardinality(X \ {s}) = Cardinality(Y \ {s})
    BY Zenon
  <1>6. One(s \in X) = IF s \in X THEN 1 ELSE 0
    BY DEF One
  <1>7. One(s \in Y) = IF s \in Y THEN 1 ELSE 0
    BY DEF One
  <1> QED
    BY <1>2, <1>3, <1>4, <1>5, <1>6, <1>7

(* What a stream that goes to another place does to the counts. *)
LEMMA Moving ==
  ASSUME TypeOK, NEW s \in Stream, at[s] # "returned", NEW p \in Place, Go(s, p)
  PROVE  /\ at' \in [Stream -> Place] /\ at'[s] = p
         /\ \A e \in Stream \ {s} : at'[e] = at[e]
         /\ Cardinality(Running)' =
              Cardinality(Running) - One(at[s] \in Working) + One(p \in Working)
         /\ Cardinality(InCount)' =
              Cardinality(InCount) - One(at[s] \in Counting) + One(p \in Counting)
         /\ Cardinality(Done)' = Cardinality(Done) + One(p = "returned" /\ s \in Selected)
  <1>1. at' \in [Stream -> Place] /\ at'[s] = p /\ \A e \in Stream \ {s} : at'[e] = at[e]
    BY DEF Go, TypeOK
  <1>2. Running \ {s} = Running' \ {s} /\ (s \in Running <=> at[s] \in Working)
        /\ (s \in Running' <=> p \in Working)
    BY <1>1 DEF Running
  <1>3. InCount \ {s} = InCount' \ {s} /\ (s \in InCount <=> at[s] \in Counting)
        /\ (s \in InCount' <=> p \in Counting)
    BY <1>1 DEF InCount
  <1>4. Done \ {s} = Done' \ {s} /\ s \notin Done
        /\ (s \in Done' <=> p = "returned" /\ s \in Selected)
    BY <1>1, OrchestratorAssumption DEF Done
  <1>5. /\ Running \subseteq Stream /\ Running' \subseteq Stream
        /\ InCount \subseteq Stream /\ InCount' \subseteq Stream
        /\ Done \subseteq Stream /\ Done' \subseteq Stream
    BY OrchestratorAssumption DEF Running, InCount, Done
  <1>6. Cardinality(Running)' =
          Cardinality(Running) - One(at[s] \in Working) + One(p \in Working)
    BY <1>2, <1>5, Entering DEF One
  <1>7. Cardinality(InCount)' =
          Cardinality(InCount) - One(at[s] \in Counting) + One(p \in Counting)
    BY <1>3, <1>5, Entering DEF One
  <1>8. Cardinality(Done)' = Cardinality(Done) + One(p = "returned" /\ s \in Selected)
    <2>1. Cardinality(Done') = Cardinality(Done) - One(s \in Done) + One(s \in Done')
      BY <1>4, <1>5, Entering
    <2> QED
      BY <1>4, <1>5, <2>1, CountingSubsets DEF One
  <1> QED
    BY <1>1, <1>6, <1>7, <1>8

(* The counts are natural numbers. *)
LEMMA CountTypes ==
  /\ Cardinality(Running) \in Nat /\ Cardinality(Running)' \in Nat
  /\ Cardinality(InCount) \in Nat /\ Cardinality(InCount)' \in Nat
  /\ Cardinality(Past) \in Nat /\ Cardinality(Past)' \in Nat
  /\ Cardinality(Done) \in Nat /\ Cardinality(Done)' \in Nat
  <1>1. Done \subseteq Stream /\ Done' \subseteq Stream
    BY OrchestratorAssumption DEF Done
  <1> QED
    BY <1>1, CountingSubsets DEF Running, InCount, Past

(* Without a batch, and with no stream more that is ready, the jobs past the *)
(* Bulk limit stay as few as they were.                                      *)
LEMMA BulkKept ==
  ASSUME TypeOK, BulkQuota, UNCHANGED <<batches, late>>, Ready' \subseteq Ready
  PROVE  BulkQuota'
  <1>1. late \cup Ready \in SUBSET Stream /\ (late \cup Ready)' \in SUBSET (late \cup Ready)
    BY DEF TypeOK, Ready
  <1>2. /\ Cardinality((late \cup Ready)') <= Cardinality(late \cup Ready)
        /\ Cardinality((late \cup Ready)') \in Nat /\ Cardinality(late \cup Ready) \in Nat
    BY <1>1, CountingSubsets
  <1> QED
    BY <1>2, OrchestratorAssumption DEF BulkQuota, TypeOK

(* A job past the limit is one of a stream that was ready; the one that      *)
(* passes it leaves as many that may follow as hold a thread.                *)
LEMMA BulkUsed ==
  ASSUME TypeOK, BulkQuota, PoolBound', NEW s \in Ready, NEW n \in Nat, UseBatches(s, n),
         Ready' \subseteq Ready, Ready' \subseteq Running', Running' \subseteq Stream
  PROVE  BulkQuota'
  <1>1. batches' = batches + n /\ batches \in Nat /\ TotalBatches \in Nat /\ MaxWorkers \in Nat
    BY OrchestratorAssumption DEF UseBatches, TypeOK
  <1>2. CASE batches > TotalBatches
    <2>1. late \cup Ready \in SUBSET Stream /\ (late \cup Ready)' \in SUBSET (late \cup Ready)
      BY <1>2 DEF TypeOK, Ready, UseBatches
    <2>2. /\ Cardinality((late \cup Ready)') <= Cardinality(late \cup Ready)
          /\ Cardinality((late \cup Ready)') \in Nat /\ Cardinality(late \cup Ready) \in Nat
      BY <2>1, CountingSubsets
    <2> QED
      BY <1>1, <1>2, <2>2 DEF BulkQuota
  <1>3. CASE batches <= TotalBatches
    <2>1. late' = {}
      BY <1>1, <1>3 DEF BulkQuota, UseBatches
    <2>2. (late \cup Ready)' \subseteq Running'
      BY <2>1
    <2>3. /\ Cardinality((late \cup Ready)') <= Cardinality(Running')
          /\ Cardinality((late \cup Ready)') \in Nat /\ Cardinality(Running') \in Nat
      BY <2>2, CountingSubsets
    <2> QED
      BY <1>1, <2>1, <2>3 DEF BulkQuota, PoolBound
  <1> QED
    BY <1>1, <1>2, <1>3

-----------------------------------------------------------------------------
(* Every step keeps every variable in its type and every stream's place    *)
(* true to its other variables.                                            *)
LEMMA TypeStep == TypeOK /\ Places /\ [Next]_vars => (TypeOK /\ Places)'
  <1> SUFFICES ASSUME TypeOK, Places, [Next]_vars
               PROVE  (TypeOK /\ Places)'
    OBVIOUS
  <1> USE OrchestratorAssumption
      DEF TypeOK, Places, Place, Working, Counting, Go, main, counters, server, LimitInfo
  <1>1. ASSUME NEW s \in Stream, StartCoroutine(s) \/ TakeWork(s)
        PROVE  (TypeOK /\ Places)'
    BY <1>1 DEF StartCoroutine, TakeWork
  <1>2. ASSUME NEW s \in Stream, Answer(s)
        PROVE  (TypeOK /\ Places)'
    <2>1. PICK u \in LimitInfo :
            /\ seen' = [seen EXCEPT ![s] = [usage |-> u, spent |-> batches > TotalBatches]]
            /\ unseen' = IF u = "none" THEN unseen + 1 ELSE unseen
            /\ unread' = IF u = "other" THEN unread + 1 ELSE unread
            /\ \E p \in IF u = "none" THEN Follows(left[s] - 1) ELSE {"loadCount"} : Go(s, p)
      BY <1>2 DEF Answer
    <2>2. PICK p \in IF u = "none" THEN Follows(left[s] - 1) ELSE {"loadCount"} :
            at' = [at EXCEPT ![s] = p]
      BY <2>1
    <2>3. /\ p \in Place /\ p \in {"limits", "returned", "request", "loadCount"}
          /\ p = "request" => left[s] - 1 > 0
          /\ u # "none" => p = "loadCount"
      BY <2>2 DEF Follows
    <2>4. seen' \in [Stream -> [usage : LimitInfo, spent : BOOLEAN]]
      BY <2>1
    <2>5. left[s] > 0 /\ left' = [left EXCEPT ![s] = @ - 1] /\ tries' = [tries EXCEPT ![s] = 0]
      BY <1>2 DEF Answer
    <2>6. TypeOK'
      BY <1>2, <2>1, <2>2, <2>3, <2>4, <2>5 DEF Answer
    <2>7. Places'
      BY <1>2, <2>1, <2>2, <2>3, <2>5 DEF Answer
    <2> QED
      BY <2>6, <2>7
  <1>3. ASSUME NEW s \in Stream, LoseAnswer(s)
        PROVE  (TypeOK /\ Places)'
    BY <1>3 DEF LoseAnswer
  <1>4. ASSUME NEW s \in Stream, LoadCount(s) \/ StoreCount(s)
        PROVE  (TypeOK /\ Places)'
    BY <1>4 DEF LoadCount, StoreCount
  <1>5. ASSUME NEW s \in Stream, CheckRestQuota(s)
        PROVE  (TypeOK /\ Places)'
    BY <1>5 DEF CheckRestQuota, OverQuota, Follows
  <1>6. ASSUME NEW s \in Stream, CheckBulkQuota(s)
        PROVE  (TypeOK /\ Places)'
    BY <1>6 DEF CheckBulkQuota
  <1>7. ASSUME NEW s \in Stream, RunJob(s) \/ RunChunkedJob(s)
        PROVE  (TypeOK /\ Places)'
    BY <1>7 DEF RunJob, RunChunkedJob, UseBatches
  <1>8. ASSUME NEW s \in Stream, LoadJobs(s) \/ StoreJobs(s)
        PROVE  (TypeOK /\ Places)'
    <2>1. /\ jobCount' \in Nat /\ loaded' \in [Stream -> Nat]
          /\ UNCHANGED <<api, loop, left, tries, seen, restCount, used, unseen, unread, batches, late>>
      BY <1>8 DEF LoadJobs, StoreJobs
    <2>2. PICK p \in {"storeJobs", "returned"} : at' = [at EXCEPT ![s] = p]
      BY <1>8 DEF LoadJobs, StoreJobs
    <2>3. at[s] \in {"loadJobs", "storeJobs"}
      BY <1>8 DEF LoadJobs, StoreJobs
    <2> QED
      BY <2>1, <2>2, <2>3
  <1>9. ASSUME NEW s \in Stream, StreamFails(s)
        PROVE  (TypeOK /\ Places)'
    BY <1>9 DEF StreamFails
  <1>10. CASE FinishSync \/ GatherRaises \/ Exit
    BY <1>10 DEF FinishSync, GatherRaises, Exit, thread
  <1>11. CASE ForeignRequest
    BY <1>11 DEF ForeignRequest, thread
  <1>12. CASE UNCHANGED vars
    BY <1>12 DEF vars, thread
  <1> QED
    BY <1>1, <1>2, <1>3, <1>4, <1>5, <1>6, <1>7, <1>8, <1>9, <1>10, <1>11, <1>12
    DEF Next, Main, Worker

-----------------------------------------------------------------------------
(* The steps of one stream keep the counts. *)

\* A thread that goes on holds the same place in the pool.
LEMMA PoolKept ==
  ASSUME TypeOK, PoolBound, NEW s \in Stream, at[s] \in Working, NEW p \in Place, Go(s, p)
  PROVE  PoolBound'
  <1>1. Cardinality(Running)' = Cardinality(Running) - 1 + One(p \in Working)
    BY Moving DEF One, Working, Counting
  <1> QED
    BY <1>1, CountTypes, OrchestratorAssumption DEF PoolBound, One

\* Steps that count nothing, and make no stream ready for a job.
LEMMA MoveCounts ==
  ASSUME TypeOK, Counts, PoolBound', NEW s \in Stream, NEW p \in Place, Go(s, p),
         at[s] \notin Counting \cup {"returned"}, p \notin Counting \cup {"storeJobs"},
         UNCHANGED <<seen, loaded, counters, unread, batches, late>>,
         used' - unseen' = used - unseen,
         p \in {"check", "limits", "job", "chunk"} =>
           at[s] \in {"check", "limits", "job", "chunk"}
  PROVE  Counts'
  <1>1. at' \in [Stream -> Place] /\ at'[s] = p /\ \A e \in Stream \ {s} : at'[e] = at[e]
    BY Moving
  <1>2. Cardinality(InCount)' = Cardinality(InCount)
    BY Moving, CountTypes DEF One
  <1>3. Cardinality(Done) <= Cardinality(Done)'
    BY Moving, CountTypes DEF One
  <1>4. RequestsCounted'
    <2>1. /\ restCount' + Cardinality(InCount)' <= used' - unseen'
      BY <1>2 DEF Counts, RequestsCounted, counters
    <2>2. ASSUME NEW e \in Stream, at'[e] = "storeCount"
          PROVE  loaded'[e] + Cardinality(InCount)' <= used' - unseen'
      <3>1. at[e] = "storeCount"
        BY <1>1, <2>2 DEF Counting
      <3> QED
        BY <1>2, <3>1 DEF Counts, RequestsCounted
    <2> QED
      BY <2>1, <2>2 DEF RequestsCounted
  <1>5. TotalQuota'
    <2>1. Past' = Past
      BY DEF Past
    <2>2. used' - unseen' - unread' = used - unseen - unread
      OBVIOUS
    <2> QED
      BY <2>1, <2>2 DEF Counts, TotalQuota
  <1>6. JobsCounted'
    <2>1. ASSUME NEW e \in Stream, at'[e] = "storeJobs"
          PROVE  loaded'[e] <= Cardinality(Done)'
      <3>1. at[e] = "storeJobs"
        BY <1>1, <2>1
      <3>2. loaded[e] \in Nat /\ loaded[e] <= Cardinality(Done) /\ loaded'[e] = loaded[e]
        BY <3>1 DEF Counts, JobsCounted, TypeOK
      <3> QED
        BY <1>3, <3>2, CountTypes
    <2>2. jobCount' <= Cardinality(Done)'
      BY <1>3, CountTypes DEF Counts, JobsCounted, counters, TypeOK
    <2> QED
      BY <2>1, <2>2 DEF JobsCounted
  <1>7. BulkQuota'
    <2>1. Ready' \subseteq Ready
      BY <1>1 DEF Ready, Counting
    <2> QED
      BY <2>1, BulkKept DEF Counts
  <1> QED
    BY <1>4, <1>5, <1>6, <1>7 DEF Counts

\* A request has been answered: if it shows the usage, the limit is not passed yet
\* or its stream was never past it before.
LEMMA AnswerCounts ==
  ASSUME TypeOK, Places, Counts, NEW s \in Stream, Answer(s)
  PROVE  Counts'
  <1>1. PICK u \in {IF used' > TotalLimit THEN "past" ELSE "within", "other", "none"} :
          /\ seen' = [seen EXCEPT ![s] = [usage |-> u, spent |-> batches > TotalBatches]]
          /\ unseen' = IF u = "none" THEN unseen + 1 ELSE unseen
          /\ unread' = IF u = "other" THEN unread + 1 ELSE unread
          /\ \E p \in IF u = "none" THEN Follows(left[s] - 1) ELSE {"loadCount"} : Go(s, p)
    BY Zenon DEF Answer
  <1>2. PICK p \in IF u = "none" THEN Follows(left[s] - 1) ELSE {"loadCount"} : Go(s, p)
    BY <1>1
  <1>3. /\ p \in Place /\ p \in {"limits", "returned", "request", "loadCount"}
        /\ p \in Counting <=> u # "none"
    BY <1>2 DEF Follows, Place, Working, Counting
  <1>4. /\ at[s] = "request" /\ used' = used + 1
        /\ UNCHANGED <<loaded, restCount, jobCount, batches, late>>
    BY DEF Answer, counters
  <1>5. u \in LimitInfo /\ (u = "within" => used + 1 <= TotalLimit)
    BY <1>1, <1>4, OrchestratorAssumption DEF LimitInfo, TypeOK
  <1>6. at' \in [Stream -> Place] /\ at'[s] = p /\ \A e \in Stream \ {s} : at'[e] = at[e]
    BY <1>2, <1>3, <1>4, Moving
  <1>7. /\ Cardinality(InCount)' = Cardinality(InCount) + One(u # "none")
        /\ Cardinality(Done) <= Cardinality(Done)'
    BY <1>2, <1>3, <1>4, Moving, CountTypes DEF One, Counting
  <1>8. /\ used \in Nat /\ unseen \in Nat /\ unread \in Nat /\ restCount \in Nat /\ jobCount \in Nat
        /\ loaded \in [Stream -> Nat] /\ TotalLimit \in Nat
    BY OrchestratorAssumption DEF TypeOK
  <1>9. seen'[s].usage = u /\ (seen'[s].spent <=> batches > TotalBatches)
        /\ \A e \in Stream \ {s} : seen'[e] = seen[e]
    BY <1>1 DEF TypeOK
  <1>10. used' - unseen' = used - unseen + One(u # "none")
    BY <1>1, <1>4, <1>8 DEF One
  <1>11. PoolBound'
    BY <1>2, <1>3, <1>4, PoolKept DEF Counts, Working
  <1>12. RequestsCounted'
    <2>1. ASSUME NEW e \in Stream, at'[e] = "storeCount"
          PROVE  loaded'[e] + Cardinality(InCount)' <= used' - unseen'
      <3>1. at[e] = "storeCount"
        BY <1>3, <1>6, <2>1
      <3>2. loaded[e] + Cardinality(InCount) <= used - unseen
        BY <3>1 DEF Counts, RequestsCounted
      <3> QED
        BY <1>4, <1>7, <1>8, <1>10, <3>2, CountTypes DEF One
    <2>2. restCount + Cardinality(InCount) <= used - unseen
      BY DEF Counts, RequestsCounted
    <2> QED
      BY <1>4, <1>7, <1>8, <1>10, <2>1, <2>2, CountTypes DEF One, RequestsCounted
  <1>13. TotalQuota'
    <2>1. Past \ {s} = Past' \ {s} /\ s \notin Past /\ (s \in Past' <=> u = "past")
      BY <1>4, <1>9 DEF Past, Places, Counting
    <2>2. Past \subseteq Stream /\ Past' \subseteq Stream
      BY DEF Past
    <2>3. Cardinality(Past)' = Cardinality(Past) + One(u = "past")
      BY <2>1, <2>2, Entering, CountTypes DEF One
    <2>4. used - unseen - unread <= TotalLimit + Cardinality(Past)
      BY DEF Counts, TotalQuota
    <2>5. CASE u = "within"
      BY <1>1, <1>4, <1>8, <1>5, <2>3, <2>5, CountTypes DEF One, TotalQuota
    <2>6. CASE u # "within"
      BY <1>1, <1>4, <1>8, <2>3, <1>5, <2>4, <2>6, CountTypes DEF One, TotalQuota, LimitInfo
    <2> QED
      BY <2>5, <2>6
  <1>14. JobsCounted'
    <2>1. ASSUME NEW e \in Stream, at'[e] = "storeJobs"
          PROVE  loaded'[e] <= Cardinality(Done)'
      <3>1. at[e] = "storeJobs"
        BY <1>3, <1>6, <2>1
      <3>2. loaded[e] <= Cardinality(Done)
        BY <3>1 DEF Counts, JobsCounted
      <3> QED
        BY <1>4, <1>7, <1>8, <3>2, CountTypes
    <2>2. jobCount <= Cardinality(Done)
      BY DEF Counts, JobsCounted
    <2> QED
      BY <1>4, <1>7, <1>8, <2>1, <2>2, CountTypes DEF JobsCounted
  <1>15. BulkQuota'
    <2>1. CASE batches > TotalBatches
      <3>1. Ready' \subseteq Ready
        BY <1>4, <1>6, <1>9, <2>1 DEF Ready
      <3> QED
        BY <1>4, <3>1, BulkKept DEF Counts
    <2>2. CASE ~(batches > TotalBatches)
      BY <1>4, <2>2, OrchestratorAssumption DEF Counts, BulkQuota, TypeOK
    <2> QED
      BY <2>1, <2>2
  <1> QED
    BY <1>11, <1>12, <1>13, <1>14, <1>15 DEF Counts

\* The request is missing from the count that is read as from the one before.
LEMMA LoadCounts ==
  ASSUME TypeOK, Counts, NEW s \in Stream, LoadCount(s)
  PROVE  Counts'
  <1>1. /\ at[s] = "loadCount" /\ Go(s, "storeCount") /\ "storeCount" \in Place
        /\ loaded' = [loaded EXCEPT ![s] = restCount]
        /\ UNCHANGED <<seen, restCount, jobCount, used, unseen, unread, batches, late>>
    BY DEF LoadCount, counters, server, Place, Working, Counting
  <1>2. /\ at' \in [Stream -> Place] /\ at'[s] = "storeCount"
        /\ \A e \in Stream \ {s} : at'[e] = at[e] /\ loaded'[e] = loaded[e]
        /\ loaded'[s] = restCount
    BY <1>1, Moving DEF TypeOK
  <1>3. Cardinality(InCount)' = Cardinality(InCount) /\ Cardinality(Done)' = Cardinality(Done)
    BY <1>1, Moving, CountTypes DEF One, Counting
  <1>4. PoolBound'
    BY <1>1, PoolKept DEF Counts, Working, Counting
  <1>5. RequestsCounted'
    BY <1>1, <1>2, <1>3 DEF Counts, RequestsCounted
  <1>6. TotalQuota'
    BY <1>1 DEF Counts, TotalQuota, Past
  <1>7. JobsCounted'
    BY <1>1, <1>2, <1>3 DEF Counts, JobsCounted
  <1>8. Ready' \subseteq Ready
    BY <1>1, <1>2 DEF Ready, Counting
  <1> QED
    BY <1>1, <1>4, <1>5, <1>6, <1>7, <1>8, BulkKept DEF Counts

\* The request is counted, on top of a count that may be an old one.
LEMMA StoreCounts ==
  ASSUME TypeOK, Counts, NEW s \in Stream, StoreCount(s)
  PROVE  Counts'
  <1>1. /\ at[s] = "storeCount" /\ Go(s, "check") /\ "check" \in Place
        /\ loaded' = [loaded EXCEPT ![s] = 0] /\ restCount' = loaded[s] + 1
        /\ UNCHANGED <<seen, jobCount, used, unseen, unread, batches, late>>
    BY DEF StoreCount, server, Place, Working, Counting
  <1>2. /\ at' \in [Stream -> Place] /\ at'[s] = "check"
        /\ \A e \in Stream \ {s} : at'[e] = at[e] /\ loaded'[e] = loaded[e]
    BY <1>1, Moving DEF TypeOK
  <1>3. /\ Cardinality(InCount)' = Cardinality(InCount) - 1
        /\ Cardinality(Done)' = Cardinality(Done)
    BY <1>1, Moving, CountTypes DEF One, Counting
  <1>4. PoolBound'
    BY <1>1, PoolKept DEF Counts, Working, Counting
  <1>5. RequestsCounted'
    <2>1. loaded[s] + Cardinality(InCount) <= used - unseen
      BY <1>1 DEF Counts, RequestsCounted
    <2>2. used \in Nat /\ unseen \in Nat /\ loaded \in [Stream -> Nat]
      BY DEF TypeOK
    <2>3. restCount' + Cardinality(InCount)' <= used' - unseen'
      BY <1>1, <1>3, <2>1, <2>2, CountTypes
    <2>4. ASSUME NEW e \in Stream, at'[e] = "storeCount"
          PROVE  loaded'[e] + Cardinality(InCount)' <= used' - unseen'
      <3>1. e # s /\ at[e] = "storeCount" /\ loaded'[e] = loaded[e] /\ loaded[e] \in Nat
        BY <1>2, <2>2, <2>4
      <3>2. loaded[e] + Cardinality(InCount) <= used - unseen
        BY <3>1 DEF Counts, RequestsCounted
      <3> QED
        BY <1>1, <1>3, <2>2, <3>1, <3>2, CountTypes
    <2> QED
      BY <2>3, <2>4 DEF RequestsCounted
  <1>6. TotalQuota'
    BY <1>1 DEF Counts, TotalQuota, Past
  <1>7. JobsCounted'
    BY <1>1, <1>2, <1>3 DEF Counts, JobsCounted
  <1>8. Ready' \subseteq Ready
    BY <1>1, <1>2 DEF Ready, Counting
  <1> QED
    BY <1>1, <1>4, <1>5, <1>6, <1>7, <1>8, BulkKept DEF Counts

\* A job uses batches, and holds its thread.
LEMMA RunCounts ==
  ASSUME TypeOK, Places, Counts, NEW s \in Stream, RunJob(s) \/ RunChunkedJob(s)
  PROVE  Counts'
  <1>1. PICK p \in {"loadJobs", "chunk"} : Go(s, p)
    BY DEF RunJob, RunChunkedJob
  <1>2. PICK n \in Nat : UseBatches(s, n)
    BY OrchestratorAssumption DEF RunJob, RunChunkedJob
  <1>3. /\ at[s] \in {"job", "chunk"} /\ p \in Place
        /\ UNCHANGED <<seen, loaded, restCount, jobCount, used, unseen, unread>>
    BY <1>1 DEF RunJob, RunChunkedJob, counters, Place, Working
  <1>4. at' \in [Stream -> Place] /\ at'[s] = p /\ \A e \in Stream \ {s} : at'[e] = at[e]
    BY <1>1, <1>3, Moving
  <1>5. Cardinality(InCount)' = Cardinality(InCount) /\ Cardinality(Done)' = Cardinality(Done)
    BY <1>1, <1>3, Moving, CountTypes DEF One, Counting
  <1>6. PoolBound'
    BY <1>1, <1>3, PoolKept DEF Counts, Working
  <1>7. RequestsCounted'
    BY <1>3, <1>4, <1>5 DEF Counts, RequestsCounted
  <1>8. TotalQuota'
    BY <1>3 DEF Counts, TotalQuota, Past
  <1>9. JobsCounted'
    BY <1>3, <1>4, <1>5 DEF Counts, JobsCounted
  <1>10. BulkQuota'
    <2>1. s \in Ready
      BY <1>3 DEF Ready, Places
    <2>2. Ready' \subseteq Ready
      BY <1>3, <1>4, <2>1 DEF Ready
    <2>3. Ready' \subseteq Running' /\ Running' \subseteq Stream
      BY DEF Ready, Running, Working
    <2> QED
      BY <1>2, <1>6, <2>1, <2>2, <2>3, BulkUsed DEF Counts
  <1> QED
    BY <1>6, <1>7, <1>8, <1>9, <1>10 DEF Counts

\* Both halves of += 1 on the jobs: no more streams have stored than have returned.
LEMMA JobCounts ==
  ASSUME TypeOK, Places, Counts, NEW s \in Stream, LoadJobs(s) \/ StoreJobs(s)
  PROVE  Counts'
  <1>1. PICK p \in {"storeJobs", "returned"} : Go(s, p)
    BY DEF LoadJobs, StoreJobs
  <1>2. /\ at[s] \in {"loadJobs", "storeJobs"} /\ p \in Place
        /\ UNCHANGED <<seen, restCount, used, unseen, unread, batches, late>>
    BY <1>1 DEF LoadJobs, StoreJobs, counters, server, Place, Working
  <1>3. /\ at' \in [Stream -> Place] /\ at'[s] = p
        /\ \A e \in Stream \ {s} : at'[e] = at[e] /\ loaded'[e] = loaded[e]
    BY <1>1, <1>2, Moving DEF LoadJobs, StoreJobs, TypeOK
  <1>4. /\ Cardinality(InCount)' = Cardinality(InCount)
        /\ Cardinality(Done)' = Cardinality(Done) + One(p = "returned" /\ s \in Selected)
    BY <1>1, <1>2, Moving, CountTypes DEF One, Counting
  <1>5. PoolBound'
    BY <1>1, <1>2, PoolKept DEF Counts, Working
  <1>6. RequestsCounted'
    BY <1>1, <1>2, <1>3, <1>4 DEF Counts, RequestsCounted
  <1>7. TotalQuota'
    BY <1>2 DEF Counts, TotalQuota, Past
  <1>8. JobsCounted'
    <2>1. jobCount \in Nat /\ loaded \in [Stream -> Nat] /\ jobCount <= Cardinality(Done)
          /\ s \in Selected
      BY <1>2 DEF TypeOK, Counts, JobsCounted, Places
    <2>2. ASSUME NEW e \in Stream \ {s}, at'[e] = "storeJobs"
          PROVE  loaded'[e] <= Cardinality(Done)'
      <3>1. loaded'[e] = loaded[e] /\ loaded[e] \in Nat /\ loaded[e] <= Cardinality(Done)
        BY <1>3, <2>1, <2>2 DEF Counts, JobsCounted
      <3> QED
        BY <1>4, <3>1, CountTypes DEF One
    <2>3. CASE LoadJobs(s)
      <3>1. jobCount' = jobCount /\ loaded'[s] = jobCount /\ at'[s] = "storeJobs"
        BY <1>2, <2>1, <2>3, Moving DEF LoadJobs, counters, Go, TypeOK
      <3>2. Cardinality(Done)' = Cardinality(Done)
        BY <1>3, <1>4, <3>1, CountTypes DEF One
      <3>3. loaded'[s] <= Cardinality(Done)' /\ jobCount' <= Cardinality(Done)'
        BY <2>1, <3>1, <3>2
      <3> QED
        BY <2>2, <3>3 DEF JobsCounted
    <2>4. CASE StoreJobs(s)
      <3>1. jobCount' = loaded[s] + 1 /\ at[s] = "storeJobs" /\ at'[s] = "returned"
        BY <2>4 DEF StoreJobs, Go, TypeOK
      <3>2. Cardinality(Done)' = Cardinality(Done) + 1
        BY <1>3, <1>4, <2>1, <3>1 DEF One
      <3>3. loaded[s] \in Nat /\ loaded[s] <= Cardinality(Done)
        BY <2>1, <3>1 DEF Counts, JobsCounted
      <3>4. jobCount' <= Cardinality(Done)'
        BY <3>1, <3>2, <3>3, CountTypes
      <3> QED
        BY <2>2, <3>1, <3>4 DEF JobsCounted
    <2> QED
      BY <2>3, <2>4
  <1>9. BulkQuota'
    <2>1. Ready' \subseteq Ready
      BY <1>1, <1>2, <1>3 DEF Ready, Counting
    <2> QED
      BY <1>2, <2>1, BulkKept DEF Counts
  <1> QED
    BY <1>5, <1>6, <1>7, <1>8, <1>9 DEF Counts

\* A stream that starts, takes a thread, repeats a request or ends without a count.
LEMMA OtherCounts ==
  ASSUME TypeOK, Counts, NEW s \in Stream,
         \/ StartCoroutine(s) \/ TakeWork(s) \/ LoseAnswer(s)
         \/ CheckRestQuota(s) \/ CheckBulkQuota(s) \/ StreamFails(s)
  PROVE  Counts'
  <1>1. CASE StartCoroutine(s)
    <2>1. PICK p \in {"queued", "returned"} : Go(s, p)
      BY <1>1 DEF StartCoroutine
    <2>2. at[s] = "new" /\ p \in Place
      BY <1>1 DEF StartCoroutine, Place
    <2>3. Cardinality(Running)' = Cardinality(Running)
      BY <2>1, <2>2, Moving, CountTypes DEF One, Working, Counting
    <2>4. PoolBound'
      BY <2>3 DEF Counts, PoolBound
    <2> QED
      BY <1>1, <2>1, <2>2, <2>4, MoveCounts DEF StartCoroutine, counters, server, Counting
  <1>2. CASE TakeWork(s)
    <2>1. Go(s, "request") /\ at[s] = "queued" /\ "request" \in Place
      BY <1>2 DEF TakeWork, Place, Working
    <2>2. Cardinality(Running)' = Cardinality(Running) + 1
      BY <2>1, Moving, CountTypes DEF One, Working, Counting
    <2>3. PoolBound'
      BY <1>2, <2>2, CountTypes, OrchestratorAssumption DEF TakeWork, PoolBound
    <2> QED
      BY <1>2, <2>1, <2>3, MoveCounts DEF TakeWork, counters, server, Counting
  <1>3. CASE LoseAnswer(s) \/ StreamFails(s)
    <2>1. PICK p \in {"failed", "request"} : Go(s, p)
      BY <1>3 DEF LoseAnswer, StreamFails
    <2>2. /\ at[s] \in {"request", "job", "chunk", "loadJobs"} /\ p \in Place
          /\ UNCHANGED <<seen, loaded, counters, unread, batches, late>>
      BY <1>3 DEF LoseAnswer, StreamFails, Place, Working
    <2>3. used' - unseen' = used - unseen
      <3>1. used \in Nat /\ unseen \in Nat
        BY DEF TypeOK
      <3>2. (used' = used + 1 /\ unseen' = unseen + 1) \/ UNCHANGED <<used, unseen>>
        BY <1>3 DEF LoseAnswer, StreamFails
      <3> QED
        BY <3>1, <3>2
    <2>4. PoolBound'
      BY <2>1, <2>2, PoolKept DEF Counts, Working
    <2> QED
      BY <2>1, <2>2, <2>3, <2>4, MoveCounts DEF Counting
  <1>4. CASE CheckRestQuota(s) \/ CheckBulkQuota(s)
    <2>1. PICK p \in {"failed", "returned", "request", "limits", "job"} : Go(s, p)
      BY <1>4 DEF CheckRestQuota, CheckBulkQuota, Follows
    <2>2. /\ at[s] \in {"check", "limits"} /\ p \in Place
          /\ UNCHANGED <<seen, loaded, counters, used, unseen, unread, batches, late>>
      BY <1>4, <2>1 DEF CheckRestQuota, CheckBulkQuota, server, Place, Working
    <2>3. PoolBound'
      BY <2>1, <2>2, PoolKept DEF Counts, Working
    <2> QED
      BY <2>1, <2>2, <2>3, MoveCounts DEF Counting
  <1> QED
    BY <1>1, <1>2, <1>3, <1>4

\* Another application's batch may pass the limit, too.
LEMMA ForeignCounts ==
  ASSUME TypeOK, Counts, ForeignRequest
  PROVE  Counts'
  <1>1. /\ UNCHANGED <<at, seen, loaded, restCount, jobCount, unread, late>>
        /\ used' - unseen' = used - unseen
    BY DEF ForeignRequest, thread, counters, TypeOK
  <1>2. UNCHANGED <<Running, InCount, Done, Past, Ready>>
    BY <1>1 DEF Running, InCount, Done, Past, Ready
  <1>3. PoolBound' /\ RequestsCounted' /\ JobsCounted'
    BY <1>1, <1>2 DEF Counts, PoolBound, RequestsCounted, JobsCounted
  <1>4. TotalQuota'
    <2>1. used' - unseen' - unread' = used - unseen - unread
      BY <1>1
    <2> QED
      BY <1>2, <2>1 DEF Counts, TotalQuota
  <1>5. BulkQuota'
    <2>1. batches' \in {batches, batches + 1} /\ batches \in Nat /\ TotalBatches \in Nat
          /\ MaxWorkers \in Nat
      BY OrchestratorAssumption DEF ForeignRequest, TypeOK
    <2>2. CASE batches > TotalBatches
      BY <1>1, <1>2, <2>1, <2>2 DEF Counts, BulkQuota
    <2>3. CASE batches <= TotalBatches
      <3>1. late' = {} /\ Ready' \subseteq Running /\ Running \in SUBSET Stream
        BY <1>1, <1>2, <2>3 DEF Counts, BulkQuota, Ready, Running, Working
      <3>2. (late \cup Ready)' \in SUBSET Running
        BY <3>1
      <3>3. Cardinality((late \cup Ready)') <= Cardinality(Running)
            /\ Cardinality((late \cup Ready)') \in Nat
        BY <3>1, <3>2, CountingSubsets
      <3> QED
        BY <2>1, <3>1, <3>3, CountTypes DEF Counts, PoolBound, BulkQuota
    <2> QED
      BY <2>1, <2>2, <2>3
  <1> QED
    BY <1>3, <1>4, <1>5 DEF Counts

-----------------------------------------------------------------------------
(* Every step keeps the counts.                                            *)
LEMMA CountsStep == TypeOK /\ Places /\ Counts /\ [Next]_vars => Counts'
  <1> SUFFICES ASSUME TypeOK, Places, Counts, [Next]_vars
               PROVE  Counts'
    OBVIOUS
  <1>1. ASSUME UNCHANGED <<thread, counters, server>>
        PROVE  Counts'
    BY <1>1 DEF thread, counters, server, Running, InCount, Done, Past, Ready, Counts, PoolBound,
                RequestsCounted, TotalQuota, JobsCounted, BulkQuota
  <1>2. CASE FinishSync \/ GatherRaises \/ Exit \/ UNCHANGED vars
    BY <1>1, <1>2 DEF FinishSync, GatherRaises, Exit, vars
  <1>3. CASE ForeignRequest
    BY <1>3, ForeignCounts
  <1> QED
    BY <1>2, <1>3, AnswerCounts, LoadCounts, StoreCounts, RunCounts, JobCounts, OtherCounts
    DEF Next, Main, Worker

(* The invariant holds at first and is kept by every step. *)
LEMMA Inductive == Spec => []IInv
  <1>1. Init => IInv
    <2> SUFFICES ASSUME Init
                 PROVE  IInv
      OBVIOUS
    <2>1. left \in [Stream -> Nat] /\ \A s \in Stream : left[s] > 0
      BY OrchestratorAssumption DEF Init
    <2>2. MaxTries \in Nat \ {0} /\ TotalLimit \in Nat
      BY OrchestratorAssumption
    <2>3. TypeOK
      <3>1. at \in [Stream -> Place] /\ tries \in [Stream -> 0 .. MaxTries]
        BY <2>2 DEF Init, Place
      <3>2. seen \in [Stream -> [usage : LimitInfo, spent : BOOLEAN]] /\ loaded \in [Stream -> Nat]
        BY DEF Init, LimitInfo
      <3>3. api \in {"REST", "BULK"} /\ loop = "running"
        BY DEF Init
      <3> QED
        BY <2>1, <3>1, <3>2, <3>3 DEF Init, TypeOK
    <2>4. Places
      BY <2>1, <2>2 DEF Init, Places, Counting
    <2>5. Running = {} /\ InCount = {} /\ Done = {} /\ Past = {} /\ Ready = {}
      BY OrchestratorAssumption DEF Init, Running, Working, Counting, InCount, Done, Past, Ready
    <2>6. Counts
      BY <2>5, FS_EmptySet, OrchestratorAssumption
      DEF Init, Counts, PoolBound, RequestsCounted, TotalQuota, JobsCounted, BulkQuota
    <2> QED
      BY <2>3, <2>4, <2>6 DEF IInv
  <1>2. IInv /\ [Next]_vars => IInv'
    BY TypeStep, CountsStep DEF IInv
  <1> QED
    BY <1>1, <1>2, PTL DEF Spec

-----------------------------------------------------------------------------
(* Every variable of the run has its type. *)
THEOREM TypeCorrect == Spec => []TypeOK
  <1>1. IInv => TypeOK
    BY DEF IInv
  <1> QED
    BY <1>1, Inductive, PTL

(* However many threads share the client, each selected stream makes at    *)
(* most one request more than the quota of the org allows, of those whose  *)
(* answer shows it.                                                        *)
THEOREM QuotaHolds == Spec => []QuotaOverrunIsBounded
  <1>1. IInv => QuotaOverrunIsBounded
    <2> SUFFICES ASSUME IInv
                 PROVE  QuotaOverrunIsBounded
      OBVIOUS
    <2>1. Past \subseteq Selected /\ Selected \subseteq Stream
      BY OrchestratorAssumption DEF IInv, Places, Past, Counting
    <2>2. Cardinality(Past) <= Cardinality(Selected) /\ Cardinality(Selected) \in Nat
      BY <2>1, CountingSubsets
    <2> QED
      BY <2>2, CountTypes, OrchestratorAssumption
      DEF IInv, TypeOK, Counts, TotalQuota, QuotaOverrunIsBounded
  <1> QED
    BY <1>1, Inductive, PTL

(* However many batches their jobs have, at most one stream for each thread *)
(* starts a job past the Bulk quota.                                        *)
THEOREM BulkQuotaHolds == Spec => []BulkOverrunIsBounded
  <1>1. IInv => BulkOverrunIsBounded
    <2> SUFFICES ASSUME IInv
                 PROVE  BulkOverrunIsBounded
      OBVIOUS
    <2>1. TotalBatches \in Nat /\ MaxWorkers \in Nat /\ batches \in Nat
      BY OrchestratorAssumption DEF IInv, TypeOK
    <2>2. CASE batches > TotalBatches
      <3>1. late \cup Ready \in SUBSET Stream /\ late \in SUBSET (late \cup Ready)
        BY DEF IInv, TypeOK, Ready
      <3>2. /\ Cardinality(late) <= Cardinality(late \cup Ready)
            /\ Cardinality(late) \in Nat /\ Cardinality(late \cup Ready) \in Nat
        BY <3>1, CountingSubsets
      <3> QED
        BY <2>1, <2>2, <3>2 DEF IInv, Counts, BulkQuota, BulkOverrunIsBounded
    <2>3. CASE batches <= TotalBatches
      <3>1. Cardinality(late) = 0
        BY <2>3, FS_EmptySet DEF IInv, Counts, BulkQuota
      <3> QED
        BY <2>1, <3>1 DEF BulkOverrunIsBounded
    <2> QED
      BY <2>1, <2>2, <2>3
  <1> QED
    BY <1>1, Inductive, PTL

(* No interleaving of the threads' increments counts what did not happen. *)
THEOREM CountsAreHonest == Spec => []CountersNeverOvercount
  <1>1. IInv => CountersNeverOvercount
    <2> SUFFICES ASSUME IInv
                 PROVE  CountersNeverOvercount
      OBVIOUS
    <2>1. restCount <= used - unseen
      BY CountTypes DEF IInv, TypeOK, Counts, RequestsCounted
    <2>2. jobCount <= Cardinality({s \in Selected : at[s] = "returned"})
      BY DEF IInv, Counts, JobsCounted, Done
    <2> QED
      BY <2>1, <2>2 DEF CountersNeverOvercount
  <1> QED
    BY <1>1, Inductive, PTL
=============================================================================
