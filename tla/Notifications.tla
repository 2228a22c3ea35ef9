---------------------------- MODULE Notifications ----------------------------
(***************************************************************************)
(* How a notification is delivered: NotificationService commits the        *)
(* notifications of all recipients with a PENDING delivery for each        *)
(* channel, then adds one job for each; NotificationProcessor goes through *)
(* a job's channels and marks each delivery. Callers and workers stop      *)
(* anywhere, the database fails, a job is tried again and may run in two   *)
(* workers at once.                                                        *)
(***************************************************************************)
EXTENDS JobQueue, Sequences

CONSTANTS
    Callers,       \* concurrent calls of notifyOrganizationOwnersAndAdmins
    Recipients,    \* owners and project admins
    Channels,      \* dto.channels, in the order of the array
    MaxFaults,     \* bound: statements of the processor that fail
    MaxStops       \* bound: workers that stop or lose a job's lock

ASSUME BoundsAssumption == MaxFaults \in Nat /\ MaxStops \in Nat

ASSUME ChannelsAssumption ==
    Channels \in Seq({"IN_APP", "EMAIL", "SLACK", "TELEGRAM", "WEBHOOK"})

Notifs     == Callers \X Recipients
ChannelSet == {Channels[i] : i \in 1..Len(Channels)}

VARIABLES
    call,      \* call[c]: the jobs call c has still to add
    delivery,  \* delivery[n][ch]: the status of a delivery
    job,       \* job[n]: the job that delivers n
    work,      \* work[w]: what worker w is doing
    faults, stops

vars == <<call, delivery, job, work, faults, stops>>

Statuses == {"none", "PENDING", "SENT", "FAILED"}

Idle == [pc |-> "idle", n |-> Nobody, left |-> <<>>]

\* What the loop over the channels may have left: the suffixes of the array.
Suffixes == {SubSeq(Channels, i, Len(Channels)) : i \in 1..(Len(Channels) + 1)}

Call == [pc : {"idle", "adding"}, todo : SUBSET Notifs]
Work == [pc : {"idle", "read", "loop", "mark"}, n : Notifs \cup {Nobody},
         left : Suffixes]

TypeOK ==
    /\ call \in [Callers -> Call]
    /\ delivery \in [Notifs -> [ChannelSet -> Statuses]]
    /\ job \in [Notifs -> Job]
    /\ work \in [Workers -> Work]
    /\ faults \in 0..MaxFaults
    /\ stops \in 0..MaxStops

Init ==
    /\ call = [c \in Callers |-> [pc |-> "idle", todo |-> {}]]
    /\ delivery = [n \in Notifs |-> [ch \in ChannelSet |-> "none"]]
    /\ job = [n \in Notifs |-> NoJob]
    /\ work = [w \in Workers |-> Idle]
    /\ faults = 0
    /\ stops = 0

-----------------------------------------------------------------------------
(* The service. The rows of a call are committed in one transaction, the   *)
(* jobs are added after it, concurrently. A call is made once.             *)

Store(c, users) ==
    /\ call[c].pc = "idle"
    /\ call' = [call EXCEPT ![c] = [pc |-> "adding", todo |-> {c} \X users]]
    /\ delivery' = [n \in Notifs |-> IF n \in {c} \X users
                                     THEN [ch \in ChannelSet |-> "PENDING"]
                                     ELSE delivery[n]]
    /\ UNCHANGED <<job, work, faults, stops>>

CreateNotification(c) == \E u \in Recipients : Store(c, {u})

\* No recipients: a warning, nothing is stored.
NotifyOrganizationOwnersAndAdmins(c) ==
    \E users \in (SUBSET Recipients) \ {{}} : Store(c, users)

AddJob(c, n) ==
    /\ n \in call[c].todo
    /\ job' = [job EXCEPT ![n] = Added]
    /\ call' = [call EXCEPT ![c].todo = @ \ {n}]
    /\ UNCHANGED <<delivery, work, faults, stops>>

\* The process stops, or the queue refuses a job: the jobs not yet added are lost,
\* the rows stay.
CallerStops(c) ==
    /\ call[c].todo # {}
    /\ call' = [call EXCEPT ![c].todo = {}]
    /\ UNCHANGED <<delivery, job, work, faults, stops>>

-----------------------------------------------------------------------------
(* The processor.                                                          *)

Take(w, n) ==
    /\ work[w].pc = "idle"
    /\ job[n].state = "waiting"
    /\ job' = [job EXCEPT ![n] = TakenBy(@, w)]
    /\ work' = [work EXCEPT ![w] = [pc |-> "read", n |-> n, left |-> <<>>]]
    /\ UNCHANGED <<call, delivery, faults, stops>>

\* The rows are found: they were committed before the job was added, and
\* nothing deletes them.
ReadNotification(w) ==
    /\ work[w].pc = "read"
    /\ work' = [work EXCEPT ![w].pc = "loop", ![w].left = Channels]
    /\ UNCHANGED <<call, delivery, job, faults, stops>>

Fault == faults < MaxFaults /\ faults' = faults + 1

\* The promise of the processor is rejected with what the database threw.
Reject(w) ==
    /\ job' = [job EXCEPT ![work[w].n] = Settle(@, w, Rejected(@))]
    /\ work' = [work EXCEPT ![w] = Idle]

ReadFails(w) ==
    /\ work[w].pc = "read"
    /\ Fault
    /\ Reject(w)
    /\ UNCHANGED <<call, delivery, stops>>

\* In-app deliveries are marked SENT, those of other channels FAILED.
Outcome(ch) == IF ch = "IN_APP" THEN "SENT" ELSE "FAILED"

Marked(n, ch, status) == [delivery EXCEPT ![n][ch] = status]

Deliver(w) ==
    LET channel == Head(work[w].left)
    IN  /\ work[w].pc = "loop"
        /\ work[w].left # <<>>
        /\ delivery' = Marked(work[w].n, channel, Outcome(channel))
        /\ work' = [work EXCEPT ![w].left = Tail(@)]
        /\ UNCHANGED <<call, job, faults, stops>>

\* The update throws, with or without having taken effect: the catch block.
DeliverFails(w) ==
    LET channel == Head(work[w].left)
    IN  /\ work[w].pc = "loop"
        /\ work[w].left # <<>>
        /\ Fault
        /\ \E written \in BOOLEAN :
             delivery' = IF written THEN Marked(work[w].n, channel, Outcome(channel))
                                    ELSE delivery
        /\ work' = [work EXCEPT ![w].pc = "mark"]
        /\ UNCHANGED <<call, job, stops>>

\* Slip: the error is not thrown again, the loop goes on.
MarkAndGoOn(w) ==
    /\ work[w].pc = "mark"
    /\ delivery' = Marked(work[w].n, Head(work[w].left), "FAILED")
    /\ work' = [work EXCEPT ![w].pc = "loop", ![w].left = Tail(@)]
    /\ UNCHANGED <<call, job, faults, stops>>

\* The delivery is marked FAILED and the error is thrown again.
MarkDeliveryFailed(w) ==
    /\ work[w].pc = "mark"
    /\ delivery' = Marked(work[w].n, Head(work[w].left), "FAILED")
    /\ Reject(w)
    /\ UNCHANGED <<call, faults, stops>>

\* Marking throws as well, with or without effect.
MarkFails(w) ==
    /\ work[w].pc = "mark"
    /\ Fault
    /\ \E written \in BOOLEAN :
         delivery' = IF written THEN Marked(work[w].n, Head(work[w].left), "FAILED")
                                ELSE delivery
    /\ Reject(w)
    /\ UNCHANGED <<call, stops>>

\* Slip: `return' after a channel that is not supported.
FinishEarly(w) ==
    /\ work[w].pc = "loop"
    /\ work[w].left # Channels
    /\ job' = [job EXCEPT ![work[w].n] = Settle(@, w, Resolved(@))]
    /\ work' = [work EXCEPT ![w] = Idle]
    /\ UNCHANGED <<call, delivery, faults, stops>>

Finish(w) ==
    /\ work[w].pc = "loop"
    /\ work[w].left = <<>>
    /\ job' = [job EXCEPT ![work[w].n] = Settle(@, w, Resolved(@))]
    /\ work' = [work EXCEPT ![w] = Idle]
    /\ UNCHANGED <<call, delivery, faults, stops>>

StepWorker(w) ==
    \/ \E n \in Notifs : Take(w, n)
    \/ ReadNotification(w)
    \/ Deliver(w)
    \/ MarkDeliveryFailed(w)
    \/ Finish(w)

FaultOf(w) == ReadFails(w) \/ DeliverFails(w) \/ MarkFails(w)

\* The worker stops, or goes on without the lock of its job.
WorkerLosesLock(w) ==
    /\ stops < MaxStops
    /\ \E n \in Notifs :
         /\ job[n].state = "active"
         /\ job[n].holder = w
         /\ job' = [job EXCEPT ![n] = Unlocked(@)]
    /\ \/ work' = [work EXCEPT ![w] = Idle]
       \/ UNCHANGED work
    /\ stops' = stops + 1
    /\ UNCHANGED <<call, delivery, faults>>

BackoffEnds(n) ==
    /\ job[n].state = "delayed"
    /\ job' = [job EXCEPT ![n] = Promoted(@)]
    /\ UNCHANGED <<call, delivery, work, faults, stops>>

StalledCheck(n) ==
    /\ IsStalled(job[n])
    /\ job' = [job EXCEPT ![n] = HandedOut(@)]
    /\ UNCHANGED <<call, delivery, work, faults, stops>>

-----------------------------------------------------------------------------
Next ==
    \/ \E c \in Callers :
         \/ CreateNotification(c)
         \/ NotifyOrganizationOwnersAndAdmins(c)
         \/ \E n \in Notifs : AddJob(c, n)
         \/ CallerStops(c)
    \/ \E w \in Workers : StepWorker(w) \/ FaultOf(w) \/ WorkerLosesLock(w)
    \/ \E n \in Notifs : BackoffEnds(n) \/ StalledCheck(n)

Spec == Init /\ [][Next]_vars

\* Workers keep running, backoffs end and the stalled check comes round. That
\* somebody calls, that a job is added and that a statement fails is up to them.
Fairness ==
    /\ \A w \in Workers : WF_vars(StepWorker(w))
    /\ \A n \in Notifs : WF_vars(BackoffEnds(n)) /\ WF_vars(StalledCheck(n))

FairSpec == Spec /\ Fairness

-----------------------------------------------------------------------------
(* Properties.                                                             *)

\* The job is still to be added, or has not come to its end.
Coming(n) ==
    \/ \E c \in Callers : n \in call[c].todo
    \/ job[n].state \in {"waiting", "active", "delayed"}

\* The call stopped before it added the job, or the job was given up.
GivenUp(n) == job[n].state \in {"none", "failed"}

\* A job that completed left no delivery PENDING, whatever was thrown, run
\* again or run twice on the way: a delivery stays PENDING only while its job
\* is coming or after it was given up (notification.processor.ts process).
CompletedLeavesNonePending ==
    \A n \in Notifs, ch \in ChannelSet :
        delivery[n][ch] = "PENDING" => Coming(n) \/ GivenUp(n)

\* A job that completed in the hands of one worker at a time leaves every
\* channel with its own outcome, whatever was marked FAILED in attempts before.
\* After a stall a worker that lost the job may still overwrite what the next
\* one wrote (notification.processor.ts:62, the catch block).
CompletedIsDelivered ==
    \A n \in Notifs : job[n].state = "completed" /\ job[n].stalls = 0 =>
        \A ch \in ChannelSet : delivery[n][ch] = IF ch = "IN_APP" THEN "SENT" ELSE "FAILED"

Settled(n) == \A ch \in ChannelSet : delivery[n][ch] \notin {"none", "PENDING"}

\* As long as statements failed less often than a job has attempts and no more
\* workers were lost than a job may stall, every delivery whose job was added is
\* settled in the end (notification.service.ts, attempts and backoff).
QueuedIsSettled ==
    \A n \in Notifs : (job[n].state # "none") ~>
        [](Settled(n) \/ faults >= Attempts \/ stops > MaxStalls)
=============================================================================
