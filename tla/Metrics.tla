------------------------------- MODULE Metrics -------------------------------
(***************************************************************************)
(* How evaluations are counted: SdkService.trackEvaluations adds a job for *)
(* each evaluation of a batch, MetricsProcessor finds the day's bucket and *)
(* increments it, or creates it. No unique index keeps two processes from  *)
(* creating the same bucket, and a job whose transaction committed may run *)
(* again. One flag, environment, strategy, variant and type: buckets of    *)
(* others are never found by the query.                                    *)
(***************************************************************************)
EXTENDS JobQueue, Sequences, FiniteSets, Functions

CONSTANTS
    Evaluations,   \* the evaluations of a batch, one job each
    CountOf,       \* CountOf[v]: the count an evaluation reports
    LastDay,       \* bound: days
    MaxFaults,     \* bound: transactions that throw, committed or not
    MaxStops       \* bound: processes that stop, or lose a job's lock

ASSUME MetricsAssumption ==
    /\ IsFiniteSet(Evaluations) /\ IsFiniteSet(Workers)
    /\ CountOf \in [Evaluations -> Nat]
    /\ LastDay \in Nat
    /\ MaxFaults \in Nat
    /\ MaxStops \in Nat

VARIABLES
    todo,      \* the evaluations whose jobs are still to be added
    job,       \* job[v]
    work,      \* work[w]: what worker w is doing
    bucket,    \* the rows of the bucket table, in the order of their creation
    live,      \* do all the rows exist that the buckets of this key refer to?
    day,
    applied,   \* history: applied[v]: how often v was counted
    faults, stops

vars == <<todo, job, work, bucket, live, day, applied, faults, stops>>

Idle == [pc |-> "idle", v |-> Nobody, date |-> 0, found |-> 0]

Bucket == [date : 0..LastDay, count : Nat]
Work   == [pc : {"idle", "find", "write", "done"}, v : Evaluations \cup {Nobody},
           date : 0..LastDay, found : Nat]

TypeOK ==
    /\ todo \subseteq Evaluations
    /\ job \in [Evaluations -> Job]
    /\ work \in [Workers -> Work]
    /\ bucket \in Seq(Bucket)
    /\ live \in BOOLEAN
    /\ day \in 0..LastDay
    /\ applied \in [Evaluations -> Nat]
    /\ faults \in 0..MaxFaults
    /\ stops \in 0..MaxStops
    /\ \A w \in Workers : live => work[w].found \in 0..Len(bucket)

Init ==
    /\ todo = Evaluations
    /\ job = [v \in Evaluations |-> NoJob]
    /\ work = [w \in Workers |-> Idle]
    /\ bucket = <<>>
    /\ live = TRUE
    /\ day = 0
    /\ applied = [v \in Evaluations |-> 0]
    /\ faults = 0
    /\ stops = 0

-----------------------------------------------------------------------------
(* The request. Its jobs are added concurrently; if the process stops, the *)
(* rest of the batch is lost.                                              *)

AddJob(v) ==
    /\ v \in todo
    /\ todo' = todo \ {v}
    /\ job' = [job EXCEPT ![v] = Added]
    /\ UNCHANGED <<work, bucket, live, day, applied, faults, stops>>

RequestStops ==
    /\ stops < MaxStops
    /\ todo # {}
    /\ todo' = {}
    /\ stops' = stops + 1
    /\ UNCHANGED <<job, work, bucket, live, day, applied, faults>>

-----------------------------------------------------------------------------
(* The processor: one job at a time in each process.                       *)

\* The bucket is that of the day the job is processed on.
Take(w, v) ==
    /\ work[w].pc = "idle"
    /\ job[v].state = "waiting"
    /\ job' = [job EXCEPT ![v] = TakenBy(@, w)]
    /\ work' = [work EXCEPT ![w] = [Idle EXCEPT !.pc = "find", !.v = v, !.date = day]]
    /\ UNCHANGED <<todo, bucket, live, day, applied, faults, stops>>

\* Slip: the bucket's date keeps the time of day.
BucketsOfInstant(date) == {}

BucketsOf(date) == {i \in 1..Len(bucket) : bucket[i].date = date}

\* findFirst: any one of the day's buckets, as they are in no order.
FindBucket(w) ==
    /\ work[w].pc = "find"
    /\ \E i \in IF BucketsOf(work[w].date) = {} THEN {0} ELSE BucketsOf(work[w].date) :
         work' = [work EXCEPT ![w] =
                    [pc |-> "write", v |-> @.v, date |-> @.date, found |-> i]]
    /\ UNCHANGED <<todo, job, bucket, live, day, applied, faults, stops>>

\* The increment is the database's, not the processor's: what others added
\* since findFirst is kept.
Written(w) ==
    LET count == CountOf[work[w].v]
    IN  IF work[w].found = 0
        THEN Append(bucket, [date |-> work[w].date, count |-> count])
        ELSE [bucket EXCEPT ![work[w].found].count = @ + count]

Counted(w) ==
    /\ bucket' = Written(w)
    /\ applied' = [applied EXCEPT ![work[w].v] = @ + 1]

WriteBucket(w) ==
    /\ work[w].pc = "write"
    /\ live
    /\ Counted(w)
    /\ work' = [work EXCEPT ![w].pc = "done"]
    /\ UNCHANGED <<todo, job, live, day, faults, stops>>

\* Slip: the error is caught and not thrown again.
Swallow(w) ==
    /\ job' = [job EXCEPT ![work[w].v] = Settle(@, w, Resolved(@))]
    /\ work' = [work EXCEPT ![w] = Idle]

Reject(w) ==
    /\ job' = [job EXCEPT ![work[w].v] = Settle(@, w, Rejected(@))]
    /\ work' = [work EXCEPT ![w] = Idle]

\* The row to update went with one that it refers to, or a foreign key of the new row
\* fails.
WriteRefused(w) ==
    /\ work[w].pc = "write"
    /\ ~live
    /\ Reject(w)
    /\ UNCHANGED <<todo, bucket, live, day, applied, faults, stops>>

\* A statement throws and the transaction is rolled back, or the answer to its
\* commit is lost.
TransactionFails(w) ==
    /\ faults < MaxFaults
    /\ faults' = faults + 1
    /\ \/ work[w].pc \in {"find", "write"} /\ UNCHANGED <<bucket, applied>>
       \/ work[w].pc = "write" /\ live /\ Counted(w)
    /\ Reject(w)
    /\ UNCHANGED <<todo, live, day, stops>>

Finish(w) ==
    /\ work[w].pc = "done"
    /\ job' = [job EXCEPT ![work[w].v] = Settle(@, w, Resolved(@))]
    /\ work' = [work EXCEPT ![w] = Idle]
    /\ UNCHANGED <<todo, bucket, live, day, applied, faults, stops>>

\* The process stops, or goes on without the lock of its job.
WorkerLosesLock(w) ==
    /\ stops < MaxStops
    /\ \E v \in Evaluations :
         /\ job[v].state = "active"
         /\ job[v].holder = w
         /\ job' = [job EXCEPT ![v] = Unlocked(@)]
    /\ \/ work' = [work EXCEPT ![w] = Idle]
       \/ UNCHANGED work
    /\ stops' = stops + 1
    /\ UNCHANGED <<todo, bucket, live, day, applied, faults>>

BackoffEnds(v) ==
    /\ job[v].state = "delayed"
    /\ job' = [job EXCEPT ![v] = Promoted(@)]
    /\ UNCHANGED <<todo, work, bucket, live, day, applied, faults, stops>>

StalledCheck(v) ==
    /\ IsStalled(job[v])
    /\ job' = [job EXCEPT ![v] = HandedOut(@)]
    /\ UNCHANGED <<todo, work, bucket, live, day, applied, faults, stops>>

-----------------------------------------------------------------------------
NextDay ==
    /\ day < LastDay
    /\ day' = day + 1
    /\ UNCHANGED <<todo, job, work, bucket, live, applied, faults, stops>>

\* The first of the rows they refer to goes, and with it the buckets: the flag, its
\* row for an environment, the strategy, the variant or the project (onDelete: Cascade).
RemoveReferred ==
    /\ live
    /\ live' = FALSE
    /\ bucket' = <<>>
    /\ UNCHANGED <<todo, job, work, day, applied, faults, stops>>

StepWorker(w) ==
    \/ \E v \in Evaluations : Take(w, v)
    \/ FindBucket(w)
    \/ WriteBucket(w)
    \/ WriteRefused(w)
    \/ Finish(w)

Next ==
    \/ \E v \in Evaluations : AddJob(v) \/ BackoffEnds(v) \/ StalledCheck(v)
    \/ RequestStops
    \/ \E w \in Workers : StepWorker(w) \/ TransactionFails(w) \/ WorkerLosesLock(w)
    \/ NextDay
    \/ RemoveReferred

Spec == Init /\ [][Next]_vars

-----------------------------------------------------------------------------
(* Properties.                                                             *)

\* Slip: a day's entry is set where it is added to.
ExposuresOverwritten ==
    SumFunction([date \in 0..LastDay |->
        IF BucketsOf(date) = {} THEN 0
        ELSE bucket[CHOOSE i \in BucketsOf(date) : \A k \in BucketsOf(date) : k <= i].count])

\* getFlagMetrics: the counts of all buckets, however many a day has.
Exposures == SumFunction([i \in DOMAIN bucket |-> bucket[i].count])

\* While the rows that its buckets refer to exist, the metrics of a key are what committed
\* transactions counted, no increment lost to another: neither by increments of
\* one bucket at once nor by a day that has two buckets
\* (metrics.processor.ts process, metrics.service.ts getFlagMetrics).
NoCountLost ==
    live => Exposures = SumFunction([v \in Evaluations |-> applied[v] * CountOf[v]])

\* A job that completed was counted, and an evaluation is counted at most once
\* for each time its job was handed out: more often than once only when an
\* attempt failed or a worker lost it (app.module.ts, attempts).
CountedOncePerTry ==
    \A v \in Evaluations :
        /\ job[v].state = "completed" => applied[v] >= 1
        /\ applied[v] <= 1 + job[v].made + job[v].stalls

\* Without a unique index a day has at most one bucket per process for a key:
\* all that create one were looking for it before the first was committed
\* (metrics.processor.ts:45).
BucketPerProcess ==
    \A date \in 0..LastDay :
        Cardinality({i \in DOMAIN bucket : bucket[i].date = date}) <= Cardinality(Workers)
=============================================================================
