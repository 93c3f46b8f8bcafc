---------------------------- MODULE Orchestrator ----------------------------
(***************************************************************************)
(* One run of the tap over the streams of a catalog: SyncOrchestrator.sync *)
(* submits a job per selected stream to a pool of max_workers threads, and *)
(* all threads share one SalesforceClient, its retries and its counters of *)
(* requests and jobs, on which the quota checks rest (client.py, bulk.py). *)
(*                                                                         *)
(* With the REST or BULK2 api a stream is a number of requests.  With the   *)
(* BULK api it is one request for the limits of the org and then a job,    *)
(* and a second, PK chunked one if the first times out; the requests of a  *)
(* job are not counted (its answers have no Sforce-Limit-Info).            *)
(***************************************************************************)
EXTENDS Integers, FiniteSets

CONSTANTS
  NumStreams,    \* streams in the catalog, numbered in its order
  Selected,      \* those that are selected
  MaxWorkers,    \* max_workers
  Requests,      \* Requests[s]: bound: REST requests of stream s
  MaxTries,      \* tries of a request (10 in client.py)
  TotalLimit,    \* quota_percent_total of the org's daily requests
  RunLimit,      \* quota_percent_per_run of them
  JobLimit,      \* quota_percent_per_run of the org's daily batches
  TotalBatches,  \* quota_percent_total of the org's daily batches
  MaxChunks,     \* bound: batches of a PK chunked job
  MaxForeign     \* bound: requests of other applications

Stream == 1 .. NumStreams

ASSUME OrchestratorAssumption ==
  /\ NumStreams \in Nat /\ Selected \subseteq Stream
  /\ MaxWorkers \in Nat \ {0} /\ MaxTries \in Nat \ {0}
  /\ Requests \in [Stream -> Nat \ {0}]
  /\ TotalLimit \in Nat /\ RunLimit \in Nat
  /\ JobLimit \in Nat /\ TotalBatches \in Nat
  /\ MaxChunks \in Nat \ {0} /\ MaxForeign \in Nat

VARIABLES
  api,        \* api_type: "REST" or "BULK"
  loop,       \* the event loop: "running", "closed", or "exited" with the process
  at,         \* at[s]: where stream s is
  left,       \* left[s]: requests it may still make
  tries,      \* tries[s]: tries of the current one that failed
  seen,       \* seen[s]: what the last answer of s says of the day's requests and batches
  loaded,     \* loaded[s]: the counter as s reads it for += 1
  restCount,  \* client.rest_requests_attempted
  jobCount,   \* client.jobs_completed
  used,       \* requests Salesforce has counted today
  unseen,     \* those the tap does not count: of other applications, with a lost or
              \* refused answer, or with one that has no Sforce-Limit-Info
  unread,     \* those it counts without a usage to check
  batches,    \* batches of the day
  late        \* streams that started a job with the batches of the day past TotalBatches

server == <<used, unseen, unread, batches, late>>
counters == <<restCount, jobCount>>
main == <<api, loop>>
thread == <<at, left, tries, seen, loaded>>
vars == <<server, counters, main, thread>>

\* The places of stream s in the middle of rest_requests_attempted += 1, and those
\* where it holds a thread of the pool.
Counting == {"loadCount", "storeCount"}
Working == Counting \cup {"request", "check", "limits", "job", "chunk", "loadJobs", "storeJobs"}
Running == {s \in Stream : at[s] \in Working}

\* Sforce-Limit-Info: an api-usage within TotalLimit or past it, a text that does
\* not match, or no such header.
LimitInfo == {"within", "past", "other", "none"}

Init ==
  /\ api \in {"REST", "BULK"}
  /\ loop = "running"
  /\ at = [s \in Stream |-> "new"]
  /\ left = [s \in Stream |-> IF api = "BULK" THEN 1 ELSE Requests[s]]
  /\ tries = [s \in Stream |-> 0]
  /\ seen = [s \in Stream |-> [usage |-> "none", spent |-> FALSE]]
  /\ loaded = [s \in Stream |-> 0]
  /\ restCount = 0 /\ jobCount = 0
  /\ used = 0 /\ unseen = 0 /\ unread = 0
  /\ batches = 0 /\ late = {}

Go(s, place) == at' = [at EXCEPT ![s] = place]

-----------------------------------------------------------------------------
(* The event loop: sync and the coroutines gather runs. *)

\* Mutant of StartCoroutine: a stream that is not selected waits for nothing.
StartSelected(s) ==
  /\ loop = "running"
  /\ at[s] = "new" /\ \A e \in Stream : e < s => at[e] # "new"
  /\ s \in Selected
  /\ Go(s, "queued")
  /\ UNCHANGED <<main, left, tries, seen, loaded, counters, server>>

\* Tasks start in the order of the catalog; a deselected stream returns at once,
\* another is submitted to the pool.
StartCoroutine(s) ==
  /\ loop = "running"
  /\ at[s] = "new" /\ \A e \in Stream : e < s => at[e] # "new"
  /\ Go(s, IF s \in Selected THEN "queued" ELSE "returned")
  /\ UNCHANGED <<main, left, tries, seen, loaded, counters, server>>

\* gather is done: the loop is closed.
FinishSync ==
  /\ loop = "running"
  /\ \A s \in Stream : at[s] = "returned"
  /\ loop' = "closed"
  /\ UNCHANGED <<api, thread, counters, server>>

\* The first exception ends gather: the loop is closed and sync raises.  Every
\* coroutine has run to its await by then.
GatherRaises ==
  /\ loop = "running"
  /\ \A s \in Stream : at[s] # "new"
  /\ \E s \in Stream : at[s] = "failed"
  /\ loop' = "closed"
  /\ UNCHANGED <<api, thread, counters, server>>

\* The interpreter joins the pool's threads, which empty the queue first.
Exit ==
  /\ loop = "closed"
  /\ \A s \in Stream : at[s] \in {"returned", "failed"}
  /\ loop' = "exited"
  /\ UNCHANGED <<api, thread, counters, server>>

-----------------------------------------------------------------------------
(* The pool, and the requests of its threads. *)

\* A free thread takes the work item submitted first.
TakeWork(s) ==
  /\ Cardinality(Running) < MaxWorkers
  /\ at[s] = "queued" /\ \A e \in Stream : at[e] = "queued" => s <= e
  /\ Go(s, "request")
  /\ UNCHANGED <<main, left, tries, seen, loaded, counters, server>>

\* What follows a request of a stream that needs n more: one of them, or the end
\* of what the stream does over REST.
Follows(n) ==
  {IF api = "BULK" THEN "limits" ELSE "returned"} \cup {p \in {"request"} : n > 0}

\* make_request is answered.  Without Sforce-Limit-Info the answer is neither
\* counted nor checked.
Answer(s) ==
  /\ at[s] = "request"
  /\ used' = used + 1
  /\ left' = [left EXCEPT ![s] = @ - 1]
  /\ tries' = [tries EXCEPT ![s] = 0]
  /\ \E u \in {IF used' > TotalLimit THEN "past" ELSE "within", "other", "none"} :
       /\ seen' = [seen EXCEPT ![s] = [usage |-> u, spent |-> batches > TotalBatches]]
       /\ unseen' = IF u = "none" THEN unseen + 1 ELSE unseen
       /\ unread' = IF u = "other" THEN unread + 1 ELSE unread
       /\ \E p \in IF u = "none" THEN Follows(left[s] - 1) ELSE {"loadCount"} : Go(s, p)
  /\ UNCHANGED <<main, loaded, counters, batches, late>>

\* Mutant of LoseAnswer: one try too many.
LoseOneMore(s) ==
  /\ at[s] = "request"
  /\ UNCHANGED <<used, unseen>>
  /\ tries' = [tries EXCEPT ![s] = @ + 1]
  /\ Go(s, IF tries[s] = MaxTries THEN "failed" ELSE "request")
  /\ UNCHANGED <<main, left, seen, loaded, counters, unread, batches, late>>

\* Mutant of LoseAnswer: tries are counted, too.
LoseAndCount(s) ==
  /\ at[s] = "request"
  /\ used' = used + 1 /\ unseen' = unseen + 1
  /\ tries' = [tries EXCEPT ![s] = @ + 1]
  /\ restCount' = restCount + 1
  /\ Go(s, IF tries[s] + 1 = MaxTries THEN "failed" ELSE "request")
  /\ UNCHANGED <<main, left, seen, loaded, jobCount, unread, batches, late>>

\* ConnectionError or CustomNotAcceptable: Salesforce may have counted it; backoff
\* repeats it until the tries are used up.
LoseAnswer(s) ==
  /\ at[s] = "request"
  /\ \/ used' = used + 1 /\ unseen' = unseen + 1
     \/ UNCHANGED <<used, unseen>>
  /\ tries' = [tries EXCEPT ![s] = @ + 1]
  /\ Go(s, IF tries[s] + 1 = MaxTries THEN "failed" ELSE "request")
  /\ UNCHANGED <<main, left, seen, loaded, counters, unread, batches, late>>

\* rest_requests_attempted += 1 holds no lock between its two halves.
LoadCount(s) ==
  /\ at[s] = "loadCount"
  /\ loaded' = [loaded EXCEPT ![s] = restCount]
  /\ Go(s, "storeCount")
  /\ UNCHANGED <<main, left, tries, seen, counters, server>>

StoreCount(s) ==
  /\ at[s] = "storeCount"
  /\ restCount' = loaded[s] + 1
  /\ loaded' = [loaded EXCEPT ![s] = 0]
  /\ Go(s, "check")
  /\ UNCHANGED <<main, left, tries, seen, jobCount, server>>

\* check_rest_quota_usage: a header with no usage is not checked; the count is read
\* again, with what other threads stored since.
OverQuota(s) ==
  \/ seen[s].usage = "past"
  \/ seen[s].usage = "within" /\ restCount > RunLimit

\* Mutant of CheckRestQuota: the error of the quota check is retried by backoff.
CheckAndRetry(s) ==
  /\ at[s] = "check"
  /\ left' = [left EXCEPT ![s] = IF OverQuota(s) THEN @ + 1 ELSE @]
  /\ \E p \in IF OverQuota(s) THEN {"request"} ELSE Follows(left[s]) : Go(s, p)
  /\ UNCHANGED <<main, tries, seen, loaded, counters, server>>

\* A stream over a quota fails; another goes on.
CheckRestQuota(s) ==
  /\ at[s] = "check"
  /\ \E p \in IF OverQuota(s) THEN {"failed"} ELSE Follows(left[s]) : Go(s, p)
  /\ UNCHANGED <<main, left, tries, seen, loaded, counters, server>>

\* Mutant of CheckBulkQuota: only the jobs of this run are looked at.
CheckJobsOnly(s) ==
  /\ at[s] = "limits"
  /\ Go(s, IF jobCount > JobLimit THEN "failed" ELSE "job")
  /\ UNCHANGED <<main, left, tries, seen, loaded, counters, server>>

\* check_bulk_quota_usage, with the limits as they were when they were asked for.
CheckBulkQuota(s) ==
  /\ at[s] = "limits"
  /\ Go(s, IF seen[s].spent \/ jobCount > JobLimit THEN "failed" ELSE "job")
  /\ UNCHANGED <<main, left, tries, seen, loaded, counters, server>>

\* Stream s creates a job of n batches.
UseBatches(s, n) ==
  /\ batches' = batches + n
  /\ late' = IF batches > TotalBatches THEN late \cup {s} ELSE late

\* The job of Bulk.query, of one batch; QUERY_TIMEOUT asks for a PK chunked one.
RunJob(s) ==
  /\ at[s] = "job"
  /\ UseBatches(s, 1)
  /\ \E p \in {"loadJobs", "chunk"} : Go(s, p)
  /\ UNCHANGED <<main, left, tries, seen, loaded, counters, used, unseen, unread>>

\* It has as many batches as the table needs, and no quota is checked for it.
RunChunkedJob(s) ==
  /\ at[s] = "chunk"
  /\ \E n \in 1 .. MaxChunks : UseBatches(s, n)
  /\ Go(s, "loadJobs")
  /\ UNCHANGED <<main, left, tries, seen, loaded, counters, used, unseen, unread>>

\* sf.jobs_completed += 1, once for both jobs: a call of a getter and one of a setter.
LoadJobs(s) ==
  /\ at[s] = "loadJobs"
  /\ loaded' = [loaded EXCEPT ![s] = jobCount]
  /\ Go(s, "storeJobs")
  /\ UNCHANGED <<main, left, tries, seen, counters, server>>

StoreJobs(s) ==
  /\ at[s] = "storeJobs"
  /\ jobCount' = loaded[s] + 1
  /\ loaded' = [loaded EXCEPT ![s] = 0]
  /\ Go(s, "returned")
  /\ UNCHANGED <<main, left, tries, seen, restCount, server>>

\* Any other error of the stream makes sync_stream raise: a request refused, which
\* Salesforce may have counted, or a job that fails, before its batches or after.
StreamFails(s) ==
  /\ at[s] \in {"request", "job", "chunk", "loadJobs"}
  /\ \/ at[s] = "request" /\ used' = used + 1 /\ unseen' = unseen + 1
     \/ UNCHANGED <<used, unseen>>
  /\ Go(s, "failed")
  /\ UNCHANGED <<main, left, tries, seen, loaded, counters, unread, batches, late>>

\* Another application of the org makes a request, or adds a batch by one.
ForeignRequest ==
  /\ unseen < MaxForeign
  /\ used' = used + 1 /\ unseen' = unseen + 1
  /\ batches' \in {batches, batches + 1}
  /\ UNCHANGED <<main, thread, counters, unread, late>>

-----------------------------------------------------------------------------
Worker(s) == \/ TakeWork(s) \/ Answer(s) \/ LoseAnswer(s)
             \/ LoadCount(s) \/ StoreCount(s) \/ CheckRestQuota(s)
             \/ CheckBulkQuota(s) \/ RunJob(s) \/ RunChunkedJob(s)
             \/ LoadJobs(s) \/ StoreJobs(s) \/ StreamFails(s)
Main == FinishSync \/ GatherRaises \/ Exit \/ \E s \in Stream : StartCoroutine(s)

Next == Main \/ ForeignRequest \/ \E s \in Stream : Worker(s)

Spec == Init /\ [][Next]_vars

\* Every thread of the process keeps running.
FairSpec == Spec /\ WF_vars(Main) /\ \A s \in Stream : WF_vars(Worker(s))

-----------------------------------------------------------------------------
Place == Working \cup {"new", "queued", "returned", "failed"}

(* Every variable has its type. *)
TypeOK ==
  /\ api \in {"REST", "BULK"}
  /\ loop \in {"running", "closed", "exited"}
  /\ at \in [Stream -> Place]
  /\ left \in [Stream -> Nat] /\ tries \in [Stream -> 0 .. MaxTries]
  /\ seen \in [Stream -> [usage : LimitInfo, spent : BOOLEAN]]
  /\ loaded \in [Stream -> Nat]
  /\ restCount \in Nat /\ jobCount \in Nat
  /\ used \in Nat /\ unseen \in Nat /\ unread \in Nat
  /\ batches \in Nat /\ late \subseteq Stream

(* The quota of the org stops every thread: of the requests whose answer      *)
(* shows the usage, each selected stream makes one past the limit at most,    *)
(* those that were still queued when sync raised included.  Nothing bounds    *)
(* the requests whose answer does not show it.                                *)
QuotaOverrunIsBounded == used <= TotalLimit + unseen + unread + Cardinality(Selected)

(* Threads check the Bulk quota before their job, with limits that are old by *)
(* then, and not again before the PK chunked one: past the limit, jobs are    *)
(* started by the streams alone that held a thread when it was passed.        *)
BulkOverrunIsBounded == Cardinality(late) <= MaxWorkers

(* A run within its quota is never stopped by it: increments may be lost      *)
(* between threads, none is counted that Salesforce did not count, or that no *)
(* stream came to its end with.                                               *)
CountersNeverOvercount ==
  /\ restCount <= used - unseen
  /\ jobCount <= Cardinality({s \in Selected : at[s] = "returned"})

(* The process exits: retries end, and the loop waits for no stream twice.    *)
RunEnds == <>(loop = "exited")
=============================================================================
