------------------------------ MODULE JobQueue ------------------------------
(***************************************************************************)
(* A BullMQ job as the processors under src/ meet it: handed to one worker *)
(* at a time, tried again after a failure while attempts are left, handed  *)
(* out again when the worker that holds it stops or stops renewing its     *)
(* lock. Only operators on one job: the modules that have queues keep the  *)
(* jobs in a variable of their own.                                        *)
(***************************************************************************)
EXTENDS Naturals

CONSTANTS
    Workers,     \* the processor's slots: processes times its concurrency
    Nobody,      \* the holder of a job nobody holds
    Attempts,    \* how often a job may fail, the last time included
    MaxStalls    \* how often a job may lose its worker and be handed out again

ASSUME QueueAssumption ==
    /\ Nobody \notin Workers
    /\ Attempts \in Nat \ {0}
    /\ MaxStalls \in Nat

Job == [state : {"none", "waiting", "active", "delayed", "completed", "failed"},
        holder : Workers \cup {Nobody}, made : 0..Attempts, stalls : 0..MaxStalls]

NoJob == [state |-> "none", holder |-> Nobody, made |-> 0, stalls |-> 0]

\* The job in another state, its counts as they are.
Moved(job, state, holder) ==
    [state |-> state, holder |-> holder, made |-> job.made, stalls |-> job.stalls]

\* Queue.add.
Added == Moved(NoJob, "waiting", Nobody)

TakenBy(job, w) == Moved(job, "active", w)

\* The job after one more failure.
FailedOnce(job, state) ==
    [state |-> state, holder |-> Nobody, made |-> job.made + 1, stalls |-> job.stalls]

\* Slip: attempts left out of the job's options, one is all there is.
RejectedForGood(job) == FailedOnce(job, "failed")

\* The processor's promise is rejected: the job waits for its backoff, or has
\* used its attempts.
Rejected(job) == FailedOnce(job, IF job.made + 1 < Attempts THEN "delayed" ELSE "failed")

Resolved(job) == Moved(job, "completed", Nobody)

Promoted(job) == Moved(job, "waiting", job.holder)

\* The lock is not renewed: its worker stopped, or its event loop is blocked.
Unlocked(job) == Moved(job, job.state, Nobody)

IsStalled(job) == job.state = "active" /\ job.holder = Nobody

Again(job) ==
    [state |-> "waiting", holder |-> job.holder, made |-> job.made, stalls |-> job.stalls + 1]

\* Slip: stalls are counted and never compared.
HandedOutAlways(job) == Again(job)

\* The stalled check: back to the queue, or failed when it happened too often.
HandedOut(job) ==
    IF job.stalls < MaxStalls THEN Again(job) ELSE Moved(job, "failed", job.holder)

\* What a worker that is done with a job may still do to it: nothing when the
\* job was handed out to another.
Settle(job, w, settled) == IF job.holder = w THEN settled ELSE job
=============================================================================
