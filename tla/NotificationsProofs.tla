------------------------- MODULE NotificationsProofs -------------------------
(***************************************************************************)
(* For any number of callers, recipients, workers, faults and stops, and   *)
(* any channels: a job that completed leaves no delivery PENDING, and one  *)
(* that never stalled leaves each channel its own outcome. A worker knows  *)
(* the channels it has passed by what is left of its loop; that others     *)
(* cannot undo them rests on a call storing its rows once, and, for the    *)
(* outcome, on a job that never stalled having one worker at most. Of the  *)
(* unread count, for any notifications, streams and calls: a stream shows  *)
(* another number only when pushes overtook one another.                   *)
(***************************************************************************)
EXTENDS MCNotifications, SequenceTheorems, FiniteSetTheorems, TLAPS

USE QueueAssumption, BoundsAssumption, ChannelsAssumption

JobType  == [state : {"none", "waiting", "active", "delayed", "completed", "failed"},
             holder : Workers \cup {Nobody}, made : Nat, stalls : Nat]
WorkType == [pc : {"idle", "read", "loop", "mark"}, n : Notifs \cup {Nobody},
             left : Seq(ChannelSet)]

Typed ==
    /\ call \in [Callers -> Call]
    /\ delivery \in [Notifs -> [ChannelSet -> Statuses]]
    /\ job \in [Notifs -> JobType]
    /\ work \in [Workers -> WorkType]

\* A call stores its rows before it adds their jobs, and adds each job once.
AddedOnce ==
    /\ \A n \in Notifs : call[n[1]].pc = "idle" => job[n].state = "none"
    /\ \A c \in Callers : \A n \in call[c].todo : n[1] = c /\ job[n].state = "none" /\ call[c].pc # "idle"

\* A worker has a job that was added; before the job's first stall no other has it.
OwnedOf(w) == work[w].pc # "idle" =>
    LET n == work[w].n
    IN  /\ n \in Notifs
        /\ job[n].state # "none"
        /\ job[n].stalls = 0 =>
             /\ job[n].state \in {"active", "failed"}
             /\ job[n].holder \in {w, Nobody}
             /\ \A v \in Workers : work[v].pc # "idle" /\ work[v].n = n => v = w

Owned == \A w \in Workers : OwnedOf(w)

\* How many channels worker w has passed.
Passed(w) == Len(Channels) - Len(work[w].left)

Right(n, ch) == delivery[n][ch] = IF ch = "IN_APP" THEN "SENT" ELSE "FAILED"

ProgressOf(w) == work[w].pc \in {"loop", "mark"} =>
    /\ work[w].n \in Notifs
    /\ Passed(w) \in 0..Len(Channels)
    /\ work[w].left = SubSeq(Channels, Passed(w) + 1, Len(Channels))
    /\ work[w].pc = "mark" => work[w].left # <<>>
    /\ \A i \in 1..Passed(w) :
         /\ delivery[work[w].n][Channels[i]] # "PENDING"
         /\ work[w].pc = "loop" /\ job[work[w].n].stalls = 0 => Right(work[w].n, Channels[i])

Progress == \A w \in Workers : ProgressOf(w)

EndedOf(n) == job[n].state = "completed" =>
    \A ch \in ChannelSet : /\ delivery[n][ch] # "PENDING"
                           /\ job[n].stalls = 0 => Right(n, ch)

Ended == \A n \in Notifs : EndedOf(n)

Known == Typed /\ AddedOnce /\ Owned /\ Progress /\ Ended

-----------------------------------------------------------------------------
LEMMA ChannelsTyped ==
    /\ Channels \in Seq(ChannelSet)
    /\ Len(Channels) \in Nat
    /\ \A ch \in ChannelSet : \E i \in 1..Len(Channels) : ch = Channels[i]
    /\ \A i \in 1..Len(Channels) : Channels[i] \in ChannelSet
BY DEF ChannelSet

LEMMA LengthTyped == Len(Channels) \in Nat
BY ChannelsTyped

\* The loop over what is left of the channels.
LEMMA NextChannel ==
    ASSUME NEW k \in 0..Len(Channels), SubSeq(Channels, k + 1, Len(Channels)) # <<>>
    PROVE  LET left == SubSeq(Channels, k + 1, Len(Channels))
           IN  /\ k < Len(Channels)
               /\ Head(left) = Channels[k + 1]
               /\ Tail(left) = SubSeq(Channels, k + 2, Len(Channels))
               /\ Len(Tail(left)) = Len(left) - 1
               /\ Len(left) = Len(Channels) - k
<1>1. k < Len(Channels)
  BY ChannelsTyped, SubSeqEmpty
<1>2. k + 1 \in 1..Len(Channels) /\ Len(Channels) \in k + 1..Len(Channels)
  BY <1>1, ChannelsTyped
<1>3. /\ Head(SubSeq(Channels, k + 1, Len(Channels))) = Channels[k + 1]
      /\ Tail(SubSeq(Channels, k + 1, Len(Channels))) = SubSeq(Channels, k + 1 + 1, Len(Channels))
  BY <1>2, ChannelsTyped, HeadTailOfSubSeq
<1>4. Len(SubSeq(Channels, k + 1, Len(Channels))) = Len(Channels) - k
  BY <1>2, ChannelsTyped, SubSeqProperties
<1>5. Len(SubSeq(Channels, k + 2, Len(Channels))) = Len(Channels) - k - 1
  <2>1. \A i \in k + 2..Len(Channels) : Channels[i] \in ChannelSet
    BY ChannelsTyped
  <2> QED BY <1>1, <2>1, ChannelsTyped, SubSeqProperties
<1>6. k + 1 + 1 = k + 2 /\ Len(Channels) - k - 1 = (Len(Channels) - k) - 1
  BY ChannelsTyped
<1> QED BY <1>1, <1>3, <1>4, <1>5, <1>6

\* A step that leaves w and the deliveries of its job alone.
LEMMA SameProgress ==
    ASSUME NEW w \in Workers, ProgressOf(w), work'[w] = work[w],
           work[w].pc # "idle" =>
             /\ delivery'[work[w].n] = delivery[work[w].n]
             /\ job'[work[w].n].stalls = 0 => job[work[w].n].stalls = 0
    PROVE  ProgressOf(w)'
<1>1. Passed(w)' = Passed(w)
  BY DEF Passed
<1> SUFFICES ASSUME work[w].pc \in {"loop", "mark"}, NEW i \in 1..Passed(w)
             PROVE  /\ delivery'[work[w].n][Channels[i]] # "PENDING"
                    /\ work[w].pc = "loop" /\ job'[work[w].n].stalls = 0
                         => Right(work[w].n, Channels[i])'
  BY <1>1 DEF ProgressOf
<1>2. /\ delivery[work[w].n][Channels[i]] # "PENDING"
      /\ work[w].pc = "loop" /\ job[work[w].n].stalls = 0 => Right(work[w].n, Channels[i])
  BY DEF ProgressOf
<1> QED BY <1>2 DEF Right

LEMMA KnownInit == Init => Known
<1> SUFFICES ASSUME Init PROVE Known
  OBVIOUS
<1>1. NoJob \in JobType /\ NoJob.state = "none"
  BY DEF NoJob, JobType
<1>2. Idle \in WorkType /\ Idle.pc = "idle"
  BY DEF Idle, WorkType
<1>3. Typed
  BY <1>1, <1>2 DEF Init, Typed, Call, Statuses
<1>4. AddedOnce
  BY <1>1 DEF Init, AddedOnce, Notifs
<1>5. Owned /\ Progress /\ Ended
  BY <1>1, <1>2 DEF Init, Owned, OwnedOf, Progress, ProgressOf, Ended, EndedOf
<1> QED BY <1>3, <1>4, <1>5 DEF Known

-----------------------------------------------------------------------------
\* A step that marks deliveries of n, or none at all.
Touches(n) ==
    /\ delivery' \in [Notifs -> [ChannelSet -> Statuses]]
    /\ \A m \in Notifs \ {n} : delivery'[m] = delivery[m]
    /\ \A m \in Notifs, ch \in ChannelSet :
         delivery[m][ch] # "PENDING" => delivery'[m][ch] # "PENDING"

LEMMA MarkTouches ==
    ASSUME Known, NEW n \in Notifs, NEW ch \in ChannelSet, NEW outcome \in {"SENT", "FAILED"},
           delivery' = Marked(n, ch, outcome)
    PROVE  Touches(n) /\ delivery' = [delivery EXCEPT ![n][ch] = outcome]
BY DEF Known, Typed, Touches, Marked, Statuses

LEMMA RestTouches ==
    ASSUME Known, NEW n \in Notifs, delivery' = delivery
    PROVE  Touches(n)
BY DEF Known, Typed, Touches

\* What a busy worker has not completed itself stays as complete as it was.
LEMMA StillEnded ==
    ASSUME Known, NEW w \in Workers, NEW n \in Notifs, n = work[w].n, work[w].pc # "idle",
           Touches(n), job'[n] = job[n] \/ job'[n].state # "completed"
    PROVE  EndedOf(n)'
<1>1. job[n].state = "completed" => job[n].stalls # 0
  BY DEF Known, Owned, OwnedOf
<1> QED BY <1>1 DEF Known, Ended, EndedOf, Touches

\* A worker that has a job does something with it, and perhaps is done with it.
LEMMA WorkerStep ==
    ASSUME Known, NEW w \in Workers, NEW n \in Notifs, n = work[w].n, work[w].pc # "idle",
           call' = call, Touches(n),
           job' \in [Notifs -> JobType], \A m \in Notifs \ {n} : job'[m] = job[m],
           \/ job'[n] = job[n]
           \/ /\ job[n].holder = w /\ work'[w].pc = "idle"
              /\ job'[n].state \in {"delayed", "failed", "completed"}
              /\ job'[n].stalls = job[n].stalls,
           work' \in [Workers -> WorkType], \A v \in Workers \ {w} : work'[v] = work[v],
           work'[w].pc = "idle" \/ work'[w].n = n,
           ProgressOf(w)', EndedOf(n)'
    PROVE  Known'
<1>1. job[n].state # "none" /\ job'[n].state # "none" /\ job'[n].stalls = job[n].stalls
  BY DEF Known, Owned, OwnedOf
<1>2. Typed'
  BY DEF Known, Typed, Touches
<1>3. AddedOnce'
  <2>1. \A m \in Notifs : job'[m].state = "none" <=> job[m].state = "none"
    BY <1>1
  <2>2. \A c \in Callers : call[c].todo \subseteq Notifs
    BY DEF Known, Typed, Call
  <2>3. AddedOnce
    BY DEF Known
  <2> QED BY <2>1, <2>2, <2>3 DEF AddedOnce
<1>4. ASSUME NEW v \in Workers PROVE OwnedOf(v)'
  <2>1. CASE v = w
    BY <1>1, <2>1 DEF Known, Owned, OwnedOf
  <2>2. CASE v # w /\ work[v].n # n
    BY <2>2 DEF Known, Owned, OwnedOf
  <2>3. CASE v # w /\ work[v].n = n
    <3>1. work[v].pc # "idle" => job[n].stalls # 0
      BY <2>3 DEF Known, Owned, OwnedOf
    <3> QED BY <1>1, <2>3, <3>1 DEF OwnedOf
  <2> QED BY <2>1, <2>2, <2>3
<1>5. ASSUME NEW v \in Workers PROVE ProgressOf(v)'
  <2>1. CASE v = w
    BY <2>1
  <2>2. CASE v # w
    <3>1. work'[v] = work[v] /\ Passed(v)' = Passed(v) /\ ProgressOf(v)
      BY <2>2 DEF Passed, Known, Progress
    <3>2. work[v].pc # "idle" /\ work[v].n = n => job[n].stalls # 0
      BY <2>2 DEF Known, Owned, OwnedOf
    <3> SUFFICES ASSUME work[v].pc \in {"loop", "mark"}
                 PROVE  \A i \in 1..Passed(v) :
                          /\ delivery'[work[v].n][Channels[i]] # "PENDING"
                          /\ work[v].pc = "loop" /\ job'[work[v].n].stalls = 0
                               => Right(work[v].n, Channels[i])'
      BY <3>1 DEF ProgressOf
    <3>3. TAKE i \in 1..Passed(v)
    <3>4. /\ work[v].n \in Notifs
          /\ i \in 1..Len(Channels)
          /\ delivery[work[v].n][Channels[i]] # "PENDING"
          /\ work[v].pc = "loop" /\ job[work[v].n].stalls = 0 => Right(work[v].n, Channels[i])
      <4>1. /\ work[v].n \in Notifs
            /\ Passed(v) \in 0..Len(Channels)
            /\ delivery[work[v].n][Channels[i]] # "PENDING"
            /\ work[v].pc = "loop" /\ job[work[v].n].stalls = 0 => Right(work[v].n, Channels[i])
        BY <3>1, <3>3 DEF ProgressOf
      <4>2. i \in 1..Len(Channels)
        BY <3>3, <4>1, ChannelsTyped
      <4> QED BY <4>1, <4>2
    <3>5. delivery'[work[v].n][Channels[i]] # "PENDING"
      BY <3>4, ChannelsTyped DEF Touches
    <3>6. CASE work[v].n = n
      BY <1>1, <3>2, <3>5, <3>6
    <3>7. CASE work[v].n # n
      BY <3>1, <3>4, <3>5, <3>7 DEF Touches, Right
    <3> QED BY <3>6, <3>7
  <2> QED BY <2>1, <2>2
<1>6. ASSUME NEW m \in Notifs PROVE EndedOf(m)'
  BY DEF Known, Ended, EndedOf, Touches, Right
<1> QED BY <1>2, <1>3, <1>4, <1>5, <1>6 DEF Known, Owned, Progress, Ended

\* The worker keeps its job and goes on.
LEMMA WorkerGoesOn ==
    ASSUME Known, NEW w \in Workers, NEW n \in Notifs, n = work[w].n, work[w].pc # "idle",
           UNCHANGED <<call, job>>, Touches(n),
           work' \in [Workers -> WorkType], \A v \in Workers \ {w} : work'[v] = work[v],
           work'[w].n = n, ProgressOf(w)'
    PROVE  Known'
<1>1. EndedOf(n)'
  BY StillEnded
<1>2. job' \in [Notifs -> JobType] /\ \A m \in Notifs : job'[m] = job[m]
  BY DEF Known, Typed
<1> QED BY <1>1, <1>2, WorkerStep

\* The promise of the processor is rejected.
LEMMA RejectStep ==
    ASSUME Known, NEW w \in Workers, NEW n \in Notifs, n = work[w].n, work[w].pc # "idle",
           call' = call, Touches(n), Reject(w)
    PROVE  Known'
<1>2. work' \in [Workers -> WorkType] /\ work'[w].pc = "idle"
      /\ \A v \in Workers \ {w} : work'[v] = work[v]
  BY DEF Reject, Known, Typed, Idle, WorkType
<1>3. Rejected(job[n]) \in JobType /\ Rejected(job[n]).state \in {"delayed", "failed"}
      /\ Rejected(job[n]).stalls = job[n].stalls
  BY DEF Known, Typed, JobType, Rejected, FailedOnce
<1>4. job' = [job EXCEPT ![n] = IF job[n].holder = w THEN Rejected(job[n]) ELSE job[n]]
  BY DEF Reject, Settle
<1>5. job' \in [Notifs -> JobType] /\ \A m \in Notifs \ {n} : job'[m] = job[m]
  BY <1>3, <1>4 DEF Known, Typed
<1>6. job'[n] = IF job[n].holder = w THEN Rejected(job[n]) ELSE job[n]
  BY <1>4 DEF Known, Typed
<1>7. EndedOf(n)'
  BY <1>3, <1>6, StillEnded
<1>8. ProgressOf(w)'
  BY <1>2 DEF ProgressOf
<1> QED BY <1>2, <1>3, <1>5, <1>6, <1>7, <1>8, WorkerStep

\* What the next worker does is up to the queue: a job that is not completed changes hands.
LEMMA JobStep ==
    ASSUME Known, NEW n \in Notifs, UNCHANGED <<call, delivery>>,
           job' \in [Notifs -> JobType], \A m \in Notifs \ {n} : job'[m] = job[m],
           job[n].state # "none", job'[n].state \notin {"none", "completed"},
           job'[n].stalls = 0 =>
             /\ job[n].stalls = 0
             /\ job'[n].holder \in {job[n].holder, Nobody}
             /\ job[n].state \in {"active", "failed"} => job'[n].state \in {"active", "failed"},
           \/ work' = work
           \/ \E w \in Workers : work' = [work EXCEPT ![w] = Idle]
    PROVE  Known'
<1>1. work' \in [Workers -> WorkType]
      /\ \A v \in Workers : work'[v] = work[v] \/ work'[v].pc = "idle"
  <2>1. Idle \in WorkType /\ Idle.pc = "idle"
    BY DEF Idle, WorkType
  <2>2. CASE work' = work
    BY <2>2 DEF Known, Typed
  <2>3. ASSUME NEW w \in Workers, work' = [work EXCEPT ![w] = Idle]
        PROVE  work' \in [Workers -> WorkType]
               /\ \A v \in Workers : work'[v] = work[v] \/ work'[v].pc = "idle"
    BY <2>1, <2>3 DEF Known, Typed
  <2> QED BY <2>2, <2>3
<1>2. Typed'
  BY <1>1 DEF Known, Typed
<1>3. AddedOnce'
  <2>1. \A m \in Notifs : job'[m].state = "none" <=> job[m].state = "none"
    OBVIOUS
  <2>2. \A c \in Callers : call[c].todo \subseteq Notifs
    BY DEF Known, Typed, Call
  <2>3. AddedOnce
    BY DEF Known
  <2> QED BY <2>1, <2>2, <2>3 DEF AddedOnce
<1>4. ASSUME NEW v \in Workers PROVE OwnedOf(v)'
  <2>1. OwnedOf(v)
    BY DEF Known, Owned
  <2>2. CASE work'[v].pc = "idle"
    BY <2>2 DEF OwnedOf
  <2>3. CASE work'[v] = work[v] /\ work[v].n # n
    BY <1>1, <2>1, <2>3 DEF OwnedOf
  <2>4. CASE work'[v] = work[v] /\ work[v].n = n
    BY <1>1, <2>1, <2>4 DEF OwnedOf
  <2> QED BY <1>1, <2>2, <2>3, <2>4
<1>5. ASSUME NEW v \in Workers PROVE ProgressOf(v)'
  <2>1. CASE work'[v].pc = "idle"
    BY <2>1 DEF ProgressOf
  <2>2. CASE work'[v] = work[v]
    <3>1. ProgressOf(v) /\ (work[v].pc # "idle" => work[v].n \in Notifs)
      BY DEF Known, Progress, Owned, OwnedOf
    <3>2. \A m \in Notifs : job'[m].stalls = 0 => job[m].stalls = 0
      OBVIOUS
    <3> QED BY <2>2, <3>1, <3>2, SameProgress
  <2> QED BY <1>1, <2>1, <2>2
<1>6. ASSUME NEW m \in Notifs PROVE EndedOf(m)'
  BY DEF Known, Ended, EndedOf, Right
<1> QED BY <1>2, <1>3, <1>4, <1>5, <1>6 DEF Known, Owned, Progress, Ended

-----------------------------------------------------------------------------
(* The actions.                                                            *)

LEMMA StoreStep ==
    ASSUME Known, NEW c \in Callers, NEW users \in SUBSET Recipients, Store(c, users)
    PROVE  Known'
<1>1. \A n \in {c} \X users : n \in Notifs /\ n[1] = c /\ job[n].state = "none"
  BY DEF Store, Known, AddedOnce, Notifs
<1>2. UNCHANGED <<job, work>>
  BY DEF Store
<1>3. \A w \in Workers : work[w].pc # "idle" => work[w].n \in Notifs \ ({c} \X users)
  BY <1>1 DEF Known, Owned, OwnedOf
<1>4. \A n \in Notifs \ ({c} \X users) : delivery'[n] = delivery[n]
  BY DEF Store
<1>5. Typed'
  <2>1. call' \in [Callers -> Call]
    BY <1>1 DEF Store, Known, Typed, Call
  <2>2. delivery' \in [Notifs -> [ChannelSet -> Statuses]]
    BY DEF Store, Known, Typed, Statuses
  <2> QED BY <1>2, <2>1, <2>2 DEF Known, Typed
<1>6. AddedOnce'
  <2>1. \A d \in Callers : call'[d] = IF d = c THEN [pc |-> "adding", todo |-> {c} \X users] ELSE call[d]
    BY DEF Store, Known, Typed
  <2>2. \A n \in Notifs : n[1] \in Callers
    BY DEF Notifs
  <2>3. AddedOnce
    BY DEF Known
  <2> QED BY <1>1, <1>2, <2>1, <2>2, <2>3 DEF AddedOnce
<1>7. Owned'
  BY <1>2 DEF Known, Owned, OwnedOf
<1>8. ASSUME NEW w \in Workers PROVE ProgressOf(w)'
  <2>1. ProgressOf(w)
    BY DEF Known, Progress
  <2> QED BY <1>2, <1>3, <1>4, <2>1, SameProgress
<1>9. ASSUME NEW n \in Notifs PROVE EndedOf(n)'
  BY <1>1, <1>2, <1>4 DEF Known, Ended, EndedOf, Right
<1> QED BY <1>5, <1>6, <1>7, <1>8, <1>9 DEF Known, Progress, Ended

\* AddJob and CallerStops: what is to be added gets less.
LEMMA CallStep ==
    ASSUME Known, NEW c \in Callers, NEW todo, todo \subseteq call[c].todo,
           call' = [call EXCEPT ![c].todo = todo], UNCHANGED <<delivery, work>>,
           \/ job' = job
           \/ \E n \in call[c].todo \ todo : job' = [job EXCEPT ![n] = Added]
    PROVE  Known'
<1>1. call' \in [Callers -> Call]
      /\ \A d \in Callers : call'[d].pc = call[d].pc /\ call'[d].todo \subseteq call[d].todo
  BY DEF Known, Typed, Call
<1>2. call'[c].todo = todo /\ call[c].todo \subseteq Notifs
  BY DEF Known, Typed, Call
<1>3. CASE job' = job
  <2>1. Typed'
    BY <1>1, <1>3 DEF Known, Typed
  <2>2. AddedOnce'
    BY <1>1, <1>3 DEF Known, AddedOnce, Notifs
  <2>3. Owned'
    BY <1>3 DEF Known, Owned, OwnedOf
  <2>4. Progress'
    BY <1>3, SameProgress DEF Known, Progress
  <2>5. Ended'
    BY <1>3 DEF Known, Ended, EndedOf, Right
  <2> QED BY <2>1, <2>2, <2>3, <2>4, <2>5 DEF Known
<1>4. ASSUME NEW n \in call[c].todo \ todo, job' = [job EXCEPT ![n] = Added] PROVE Known'
  <2>1. n \in Notifs /\ n[1] = c /\ job[n].state = "none" /\ call[c].pc # "idle"
    BY <1>2 DEF Known, AddedOnce
  <2>2. Added \in JobType /\ Added.state = "waiting"
    BY DEF Added, Moved, NoJob, JobType
  <2>3. job' \in [Notifs -> JobType] /\ job'[n].state = "waiting"
        /\ (\A m \in Notifs \ {n} : job'[m] = job[m])
    BY <1>4, <2>1, <2>2 DEF Known, Typed
  <2>4. Typed'
    BY <1>1, <2>3 DEF Known, Typed
  <2>5. AddedOnce'
    <3>1. \A m \in Notifs : call'[m[1]].pc = "idle" => job'[m].state = "none"
      BY <1>1, <2>1, <2>3 DEF Known, AddedOnce, Notifs
    <3>2. ASSUME NEW d \in Callers, NEW m \in call'[d].todo
          PROVE  m[1] = d /\ job'[m].state = "none" /\ call'[d].pc # "idle"
      <4>1. m \in call[d].todo /\ m \in Notifs /\ m[1] = d /\ job[m].state = "none"
            /\ call'[d].pc # "idle"
        BY <1>1, <3>2 DEF Known, Typed, Call, AddedOnce
      <4>2. m # n
        BY <1>2, <2>1, <3>2, <4>1
      <4> QED BY <2>3, <4>1, <4>2
    <3> QED BY <3>1, <3>2 DEF AddedOnce
  <2>6. \A w \in Workers : work[w].pc # "idle" => work[w].n \in Notifs \ {n}
    BY <2>1 DEF Known, Owned, OwnedOf
  <2>7. ASSUME NEW w \in Workers PROVE OwnedOf(w)'
    BY <2>3, <2>6 DEF Known, Owned, OwnedOf
  <2>8. ASSUME NEW w \in Workers PROVE ProgressOf(w)'
    <3>1. ProgressOf(w)
      BY DEF Known, Progress
    <3> QED BY <2>3, <2>6, <3>1, SameProgress
  <2>9. ASSUME NEW m \in Notifs PROVE EndedOf(m)'
    BY <2>3 DEF Known, Ended, EndedOf, Right
  <2> QED BY <2>4, <2>5, <2>7, <2>8, <2>9 DEF Known, Owned, Progress, Ended
<1> QED BY <1>3, <1>4

LEMMA TakeStep ==
    ASSUME Known, NEW w \in Workers, NEW n \in Notifs, Take(w, n)
    PROVE  Known'
<1>1. job[n].state = "waiting" /\ work[w].pc = "idle" /\ UNCHANGED <<call, delivery>>
  BY DEF Take
<1>2. /\ job' \in [Notifs -> JobType]
      /\ \A m \in Notifs \ {n} : job'[m] = job[m]
      /\ job'[n].state = "active" /\ job'[n].holder = w /\ job'[n].stalls = job[n].stalls
  BY DEF Take, TakenBy, Moved, Known, Typed, JobType
<1>3. /\ work' \in [Workers -> WorkType]
      /\ \A v \in Workers \ {w} : work'[v] = work[v]
      /\ work'[w].pc = "read" /\ work'[w].n = n
  <2> DEFINE new == [pc |-> "read", n |-> n, left |-> <<>>]
  <2>1. new \in WorkType
    BY DEF WorkType
  <2>2. work' = [work EXCEPT ![w] = new]
    BY DEF Take
  <2> QED BY <2>1, <2>2 DEF Known, Typed
<1>4. Typed'
  BY <1>1, <1>2, <1>3 DEF Known, Typed
<1>5. AddedOnce'
  <2>1. \A m \in Notifs : job'[m].state = "none" <=> job[m].state = "none"
    BY <1>1, <1>2
  <2>2. \A c \in Callers : call[c].todo \subseteq Notifs
    BY DEF Known, Typed, Call
  <2>3. AddedOnce
    BY DEF Known
  <2> QED BY <1>1, <2>1, <2>2, <2>3 DEF AddedOnce
<1>6. \A v \in Workers : work[v].pc # "idle" /\ work[v].n = n => job[n].stalls # 0
  BY <1>1 DEF Known, Owned, OwnedOf
<1>7. ASSUME NEW v \in Workers PROVE OwnedOf(v)'
  <2>1. OwnedOf(v)
    BY DEF Known, Owned
  <2>2. CASE v = w
    BY <1>2, <1>3, <1>6, <2>2 DEF OwnedOf
  <2>3. CASE v # w /\ work[v].n = n
    BY <1>2, <1>3, <1>6, <2>3 DEF OwnedOf
  <2>4. CASE v # w /\ work[v].n # n
    BY <1>2, <1>3, <2>1, <2>4 DEF OwnedOf
  <2> QED BY <2>2, <2>3, <2>4
<1>8. ASSUME NEW v \in Workers PROVE ProgressOf(v)'
  <2>1. CASE v = w
    BY <1>3, <2>1 DEF ProgressOf
  <2>2. CASE v # w
    <3>1. ProgressOf(v) /\ (work[v].pc # "idle" => work[v].n \in Notifs)
      BY DEF Known, Progress, Owned, OwnedOf
    <3> QED BY <1>1, <1>2, <1>3, <2>2, <3>1, SameProgress
  <2> QED BY <2>1, <2>2
<1>9. ASSUME NEW m \in Notifs PROVE EndedOf(m)'
  BY <1>1, <1>2 DEF Known, Ended, EndedOf, Right
<1> QED BY <1>4, <1>5, <1>7, <1>8, <1>9 DEF Known, Owned, Progress, Ended

\* The worker in its loop: it starts, marks a channel, or meets an error.
LEMMA LoopStep ==
    ASSUME Known, NEW w \in Workers,
           ReadNotification(w) \/ Deliver(w) \/ DeliverFails(w)
    PROVE  Known'
<1>1. PICK n \in Notifs : n = work[w].n
  BY DEF ReadNotification, Deliver, DeliverFails, Known, Owned, OwnedOf
<1>2. UNCHANGED <<call, job>> /\ work[w].pc # "idle"
  BY DEF ReadNotification, Deliver, DeliverFails
<1>3. CASE ReadNotification(w)
  <2>1. /\ work' \in [Workers -> WorkType]
        /\ \A v \in Workers \ {w} : work'[v] = work[v]
        /\ work'[w].pc = "loop" /\ work'[w].n = n /\ work'[w].left = Channels
    <3>1. work \in [Workers -> WorkType] /\ Channels \in Seq(ChannelSet)
      BY ChannelsTyped DEF Known, Typed
    <3>2. work' = [work EXCEPT ![w].pc = "loop", ![w].left = Channels]
      BY <1>3 DEF ReadNotification
    <3>3. /\ work' \in [Workers -> WorkType]
          /\ \A v \in Workers \ {w} : work'[v] = work[v]
      BY <3>1, <3>2 DEF WorkType
    <3>4. work'[w].pc = "loop" /\ work'[w].n = work[w].n /\ work'[w].left = Channels
      BY <3>1, <3>2 DEF WorkType
    <3> QED BY <1>1, <3>3, <3>4
  <2>2. Passed(w)' = 0
    BY <2>1, ChannelsTyped DEF Passed
  <2>3. SubSeq(Channels, 1, Len(Channels)) = Channels
    BY ChannelsTyped
  <2>4. ProgressOf(w)'
    BY <2>1, <2>2, <2>3, ChannelsTyped DEF ProgressOf
  <2>5. Touches(n)
    BY <1>3, RestTouches DEF ReadNotification
  <2> QED BY <1>1, <1>2, <2>1, <2>4, <2>5, WorkerGoesOn
<1>4. ASSUME work[w].pc = "loop", work[w].left # <<>>
      PROVE  /\ Passed(w) \in 0..Len(Channels)
             /\ Passed(w) < Len(Channels)
             /\ Head(work[w].left) = Channels[Passed(w) + 1]
             /\ Tail(work[w].left) = SubSeq(Channels, Passed(w) + 2, Len(Channels))
             /\ Tail(work[w].left) \in Seq(ChannelSet)
             /\ Len(Channels) - Len(Tail(work[w].left)) = Passed(w) + 1
             /\ Head(work[w].left) \in ChannelSet
             /\ \A i \in 1..Passed(w) :
                  /\ delivery[n][Channels[i]] # "PENDING"
                  /\ job[n].stalls = 0 => Right(n, Channels[i])
  <2>1. ProgressOf(w)
    BY DEF Known, Progress
  <2>2. /\ Passed(w) \in 0..Len(Channels)
        /\ work[w].left = SubSeq(Channels, Passed(w) + 1, Len(Channels))
        /\ \A i \in 1..Passed(w) :
             /\ delivery[n][Channels[i]] # "PENDING"
             /\ job[n].stalls = 0 => Right(n, Channels[i])
    BY <1>1, <1>4, <2>1 DEF ProgressOf
  <2>3. /\ Passed(w) < Len(Channels)
        /\ Head(work[w].left) = Channels[Passed(w) + 1]
        /\ Tail(work[w].left) = SubSeq(Channels, Passed(w) + 2, Len(Channels))
        /\ Len(Tail(work[w].left)) = Len(work[w].left) - 1
        /\ Len(work[w].left) = Len(Channels) - Passed(w)
    BY <1>4, <2>2, NextChannel
  <2>4. Tail(work[w].left) \in Seq(ChannelSet)
    BY <1>4, HeadTailProperties DEF Known, Typed, WorkType
  <2>5. Len(Channels) - Len(Tail(work[w].left)) = Passed(w) + 1
    <3>1. PICK k \in Nat : k = Passed(w)
      BY <2>2, LengthTyped
    <3>2. PICK len \in Nat : len = Len(Channels)
      BY LengthTyped
    <3>3. Len(Tail(work[w].left)) = len - k - 1
      BY <2>3, <3>1, <3>2
    <3> QED BY <3>1, <3>2, <3>3
  <2>6. Channels[Passed(w) + 1] \in ChannelSet
    BY <2>2, <2>3, ChannelsTyped
  <2> QED BY <2>2, <2>3, <2>4, <2>5, <2>6
<1>5. CASE Deliver(w)
  <2> DEFINE ch == Head(work[w].left)
  <2>1. work[w].pc = "loop" /\ work[w].left # <<>>
    BY <1>5 DEF Deliver
  <2>2. /\ work' \in [Workers -> WorkType]
        /\ \A v \in Workers \ {w} : work'[v] = work[v]
        /\ work'[w].pc = "loop" /\ work'[w].n = n /\ work'[w].left = Tail(work[w].left)
    BY <1>1, <1>4, <1>5, <2>1 DEF Deliver, Known, Typed, WorkType
  <2>3. Outcome(ch) = (IF ch = "IN_APP" THEN "SENT" ELSE "FAILED")
        /\ Outcome(ch) \in {"SENT", "FAILED"}
    BY DEF Outcome
  <2>4. delivery' = Marked(n, ch, Outcome(ch))
    BY <1>1, <1>5 DEF Deliver
  <2>5. Touches(n) /\ delivery' = [delivery EXCEPT ![n][ch] = Outcome(ch)]
    BY <1>4, <2>1, <2>3, <2>4, MarkTouches
  <2>6. Passed(w)' = Passed(w) + 1
    BY <1>4, <2>1, <2>2 DEF Passed
  <2>7. \A x \in ChannelSet : delivery'[n][x] = IF x = ch THEN Outcome(ch) ELSE delivery[n][x]
    BY <1>4, <2>1, <2>5 DEF Known, Typed
  <2>8. ASSUME NEW i \in 1..Passed(w) + 1
        PROVE  /\ delivery'[n][Channels[i]] # "PENDING"
               /\ job'[n].stalls = 0 => Right(n, Channels[i])'
    <3>1. Channels[i] \in ChannelSet
      BY <1>4, <2>1, ChannelsTyped
    <3>2. CASE Channels[i] = ch
      BY <2>3, <2>7, <3>1, <3>2 DEF Right
    <3>3. CASE Channels[i] # ch
      <4>1. i \in 1..Passed(w)
        BY <1>4, <2>1, <3>3
      <4>2. delivery[n][Channels[i]] # "PENDING" /\ (job[n].stalls = 0 => Right(n, Channels[i]))
        BY <1>4, <2>1, <4>1
      <4> QED BY <1>2, <2>7, <3>1, <3>3, <4>2 DEF Right
    <3> QED BY <3>2, <3>3
  <2>9. ProgressOf(w)'
    <3>1. Passed(w) + 1 \in 0..Len(Channels) /\ Passed(w) + 1 + 1 = Passed(w) + 2
      BY <1>4, <2>1, LengthTyped
    <3> QED BY <1>4, <2>1, <2>2, <2>6, <2>8, <3>1 DEF ProgressOf
  <2> QED BY <1>1, <1>2, <2>2, <2>5, <2>9, WorkerGoesOn
<1>6. CASE DeliverFails(w)
  <2> DEFINE ch == Head(work[w].left)
  <2>1. work[w].pc = "loop" /\ work[w].left # <<>>
    BY <1>6 DEF DeliverFails
  <2>2. /\ work' \in [Workers -> WorkType]
        /\ \A v \in Workers \ {w} : work'[v] = work[v]
        /\ work'[w].pc = "mark" /\ work'[w].n = n /\ work'[w].left = work[w].left
    BY <1>1, <1>6 DEF DeliverFails, Known, Typed, WorkType
  <2>3. Outcome(ch) \in {"SENT", "FAILED"}
    BY DEF Outcome
  <2>4. delivery' = Marked(n, ch, Outcome(ch)) \/ delivery' = delivery
    BY <1>1, <1>6 DEF DeliverFails
  <2>5. Touches(n)
    BY <1>4, <2>1, <2>3, <2>4, MarkTouches, RestTouches
  <2>6. Passed(w)' = Passed(w) /\ ProgressOf(w)
    BY <2>2 DEF Passed, Known, Progress
  <2>7. \A i \in 1..Passed(w) : delivery'[n][Channels[i]] # "PENDING"
    <3>1. ASSUME NEW i \in 1..Passed(w) PROVE Channels[i] \in ChannelSet
      <4>1. i \in 1..Len(Channels)
        BY <1>4, <2>1, LengthTyped
      <4> QED BY <4>1, ChannelsTyped
    <3> QED BY <1>4, <2>1, <2>5, <3>1 DEF Touches
  <2>8. ProgressOf(w)'
    BY <1>1, <2>1, <2>2, <2>6, <2>7 DEF ProgressOf
  <2> QED BY <1>1, <1>2, <2>2, <2>5, <2>8, WorkerGoesOn
<1> QED BY <1>3, <1>5, <1>6

\* The worker that gives its job back.
LEMMA FailStep ==
    ASSUME Known, NEW w \in Workers, ReadFails(w) \/ MarkDeliveryFailed(w) \/ MarkFails(w)
    PROVE  Known'
<1>1. PICK n \in Notifs : n = work[w].n
  BY DEF ReadFails, MarkDeliveryFailed, MarkFails, Known, Owned, OwnedOf
<1>2. work[w].pc # "idle" /\ call' = call /\ Reject(w)
  BY DEF ReadFails, MarkDeliveryFailed, MarkFails
<1>3. CASE ReadFails(w)
  BY <1>1, <1>2, <1>3, RestTouches, RejectStep DEF ReadFails
<1>4. CASE MarkDeliveryFailed(w) \/ MarkFails(w)
  <2>1. work[w].pc = "mark"
    BY <1>4 DEF MarkDeliveryFailed, MarkFails
  <2>2. work[w].left \in Seq(ChannelSet) /\ work[w].left # <<>>
    BY <2>1 DEF Known, Typed, WorkType, Progress, ProgressOf
  <2>3. Head(work[w].left) \in ChannelSet
    BY <2>2, HeadTailProperties
  <2>4. delivery' = Marked(n, Head(work[w].left), "FAILED") \/ delivery' = delivery
    BY <1>1, <1>4 DEF MarkDeliveryFailed, MarkFails
  <2>5. Touches(n)
    BY <2>3, <2>4, MarkTouches, RestTouches
  <2> QED BY <1>1, <1>2, <2>5, RejectStep
<1> QED BY <1>3, <1>4

\* The worker that has passed every channel.
LEMMA FinishStep ==
    ASSUME Known, NEW w \in Workers, Finish(w)
    PROVE  Known'
<1>1. PICK n \in Notifs : n = work[w].n
  BY DEF Finish, Known, Owned, OwnedOf
<1>2. work[w].pc = "loop" /\ work[w].left = <<>> /\ UNCHANGED <<call, delivery>>
  BY DEF Finish
<1>3. /\ work' \in [Workers -> WorkType]
      /\ \A v \in Workers \ {w} : work'[v] = work[v]
      /\ work'[w].pc = "idle"
  <2>1. Idle \in WorkType /\ Idle.pc = "idle"
    BY DEF Idle, WorkType
  <2> QED BY <2>1 DEF Finish, Known, Typed
<1>4. job' = [job EXCEPT ![n] = IF job[n].holder = w THEN Resolved(job[n]) ELSE job[n]]
  BY <1>1 DEF Finish, Settle
<1>5. /\ Resolved(job[n]) \in JobType
      /\ Resolved(job[n]).state = "completed"
      /\ Resolved(job[n]).stalls = job[n].stalls
  BY DEF Known, Typed, JobType, Resolved, Moved
<1>6. /\ job' \in [Notifs -> JobType]
      /\ \A m \in Notifs \ {n} : job'[m] = job[m]
      /\ job'[n] = IF job[n].holder = w THEN Resolved(job[n]) ELSE job[n]
  BY <1>4, <1>5 DEF Known, Typed
<1>7. Touches(n)
  BY <1>2, RestTouches
<1>8. \A ch \in ChannelSet : delivery[n][ch] # "PENDING" /\ (job[n].stalls = 0 => Right(n, ch))
  <2>1. Passed(w) = Len(Channels)
    BY <1>2, ChannelsTyped DEF Passed
  <2>2. \A i \in 1..Len(Channels) :
          delivery[n][Channels[i]] # "PENDING" /\ (job[n].stalls = 0 => Right(n, Channels[i]))
    BY <1>1, <1>2, <2>1 DEF Known, Progress, ProgressOf
  <2> QED BY <2>2, ChannelsTyped
<1>9. EndedOf(n)'
  BY <1>2, <1>5, <1>6, <1>8 DEF EndedOf, Right
<1>10. ProgressOf(w)'
  BY <1>3 DEF ProgressOf
<1> QED BY <1>1, <1>2, <1>3, <1>5, <1>6, <1>7, <1>9, <1>10, WorkerStep

\* A lost lock, the end of a backoff, the stalled check.
LEMMA QueueStep ==
    ASSUME Known, NEW n \in Notifs,
           \/ BackoffEnds(n)
           \/ StalledCheck(n)
           \/ \E w \in Workers :
                /\ job[n].state = "active"
                /\ job' = [job EXCEPT ![n] = Unlocked(@)]
                /\ work' = [work EXCEPT ![w] = Idle] \/ UNCHANGED work
                /\ UNCHANGED <<call, delivery>>
    PROVE  Known'
<1>1. job[n] \in JobType /\ UNCHANGED <<call, delivery>>
  BY DEF Known, Typed, BackoffEnds, StalledCheck
<1>2. PICK new \in JobType :
        /\ job' = [job EXCEPT ![n] = new]
        /\ job[n].state \in {"active", "delayed"}
        /\ new.state \notin {"none", "completed"}
        /\ new.stalls = 0 =>
             /\ job[n].stalls = 0
             /\ new.holder \in {job[n].holder, Nobody}
             /\ job[n].state = "active" => new.state \in {"active", "failed"}
        /\ work' = work \/ \E w \in Workers : work' = [work EXCEPT ![w] = Idle]
  <2>1. CASE BackoffEnds(n)
    <3>1. Promoted(job[n]) \in JobType
      BY <1>1 DEF Promoted, Moved, JobType
    <3> QED BY <1>1, <2>1, <3>1 DEF BackoffEnds, Promoted, Moved
  <2>2. CASE StalledCheck(n)
    <3>1. CASE job[n].stalls < MaxStalls
      <4>1. Again(job[n]) \in JobType /\ Again(job[n]).stalls # 0 /\ Again(job[n]).state = "waiting"
        BY <1>1 DEF Again, JobType
      <4> QED BY <2>2, <3>1, <4>1 DEF StalledCheck, IsStalled, HandedOut
    <3>2. CASE ~(job[n].stalls < MaxStalls)
      <4>1. Moved(job[n], "failed", job[n].holder) \in JobType
        BY <1>1 DEF Moved, JobType
      <4> QED BY <2>2, <3>2, <4>1 DEF StalledCheck, IsStalled, HandedOut, Moved
    <3> QED BY <3>1, <3>2
  <2>3. CASE \E w \in Workers :
                /\ job[n].state = "active"
                /\ job' = [job EXCEPT ![n] = Unlocked(@)]
                /\ work' = [work EXCEPT ![w] = Idle] \/ UNCHANGED work
    <3>1. Unlocked(job[n]) \in JobType
      BY <1>1 DEF Unlocked, Moved, JobType
    <3> QED BY <2>3, <3>1 DEF Unlocked, Moved
  <2> QED BY <2>1, <2>2, <2>3
<1>3. /\ job' \in [Notifs -> JobType]
      /\ \A m \in Notifs \ {n} : job'[m] = job[m]
      /\ job'[n] = new
  BY <1>2 DEF Known, Typed
<1> QED BY <1>1, <1>2, <1>3, JobStep

LEMMA KnownStep ==
    ASSUME Known, [Next]_vars
    PROVE  Known'
<1>1. CASE UNCHANGED vars
  <2>1. UNCHANGED <<call, delivery, job, work>>
    BY <1>1 DEF vars
  <2>2. Typed' /\ AddedOnce' /\ Owned' /\ Ended'
    BY <2>1 DEF Known, Typed, AddedOnce, Owned, OwnedOf, Ended, EndedOf, Right
  <2>3. Progress'
    BY <2>1, SameProgress DEF Known, Progress
  <2> QED BY <2>2, <2>3 DEF Known
<1>2. ASSUME NEW c \in Callers, CreateNotification(c) \/ NotifyOrganizationOwnersAndAdmins(c)
      PROVE  Known'
  <2>1. \E users \in SUBSET Recipients : Store(c, users)
    BY <1>2 DEF CreateNotification, NotifyOrganizationOwnersAndAdmins
  <2> QED BY <2>1, StoreStep
<1>3. ASSUME NEW c \in Callers, NEW n \in Notifs, AddJob(c, n) PROVE Known'
  <2>1. PICK todo : todo = call[c].todo \ {n}
    OBVIOUS
  <2>2. /\ todo \subseteq call[c].todo
        /\ n \in call[c].todo \ todo
        /\ job' = [job EXCEPT ![n] = Added]
        /\ call' = [call EXCEPT ![c].todo = todo]
        /\ UNCHANGED <<delivery, work>>
    BY <1>3, <2>1 DEF AddJob
  <2> QED BY <2>2, CallStep
<1>4. ASSUME NEW c \in Callers, CallerStops(c) PROVE Known'
  <2>1. PICK todo : todo = {}
    OBVIOUS
  <2>2. /\ todo \subseteq call[c].todo
        /\ call' = [call EXCEPT ![c].todo = todo]
        /\ job' = job
        /\ UNCHANGED <<delivery, work>>
    BY <1>4, <2>1 DEF CallerStops
  <2> QED BY <2>2, CallStep
<1>5. ASSUME NEW w \in Workers, StepWorker(w) \/ FaultOf(w) PROVE Known'
  BY <1>5, TakeStep, LoopStep, FailStep, FinishStep DEF StepWorker, FaultOf
<1>6. ASSUME NEW w \in Workers, WorkerLosesLock(w) PROVE Known'
  BY <1>6, QueueStep DEF WorkerLosesLock
<1>7. ASSUME NEW n \in Notifs, BackoffEnds(n) \/ StalledCheck(n) PROVE Known'
  BY <1>7, QueueStep
<1> QED BY <1>1, <1>2, <1>3, <1>4, <1>5, <1>6, <1>7 DEF Next

-----------------------------------------------------------------------------
LEMMA KnownAlways == Spec => []Known
<1>1. Known /\ [Next]_vars => Known'
  BY KnownStep
<1> QED BY <1>1, KnownInit, PTL DEF Spec

\* CompletedLeavesNonePending: whatever fails, stops or runs twice, a delivery is
\* PENDING only while its job is coming or after it was given up (NotificationProcessor).
THEOREM NonePending == Spec => []CompletedLeavesNonePending
<1>1. Known => CompletedLeavesNonePending
  <2> SUFFICES ASSUME Known, NEW n \in Notifs, NEW ch \in ChannelSet, delivery[n][ch] = "PENDING"
               PROVE  Coming(n) \/ GivenUp(n)
    BY DEF CompletedLeavesNonePending
  <2>1. job[n].state # "completed"
    BY DEF Known, Ended, EndedOf
  <2> QED BY <2>1 DEF Known, Typed, JobType, Coming, GivenUp
<1> QED BY <1>1, KnownAlways, PTL

\* CompletedIsDelivered: a job that never stalled completes with every channel's own
\* outcome, also after attempts that marked some of them FAILED (NotificationProcessor).
THEOREM Delivered == Spec => []CompletedIsDelivered
<1>1. Known => CompletedIsDelivered
  BY DEF Known, Ended, EndedOf, Right, CompletedIsDelivered
<1> QED BY <1>1, KnownAlways, PTL

-----------------------------------------------------------------------------
(* Types. A job stays within its attempts because only a job that is not   *)
(* at its end is held by a worker, and such a job has an attempt left.     *)

Counted(j) ==
    /\ j \in Job
    /\ j.state \notin {"completed", "failed"} => j.made < Attempts
    /\ j.holder # Nobody => j.state = "active"

Bounded ==
    /\ \A n \in Notifs : Counted(job[n])
    /\ work \in [Workers -> Work]
    /\ faults \in 0..MaxFaults
    /\ stops \in 0..MaxStops

\* Whatever a worker does to a job.
LEMMA WorkerCounted ==
    ASSUME NEW j, Counted(j), NEW w \in Workers
    PROVE  /\ j.state = "waiting" => Counted(TakenBy(j, w))
           /\ Counted(Settle(j, w, Rejected(j)))
           /\ Counted(Settle(j, w, Resolved(j)))
<1>1. w # Nobody
  OBVIOUS
<1>2. j.state = "waiting" => Counted(TakenBy(j, w))
  BY DEF Counted, Job, TakenBy, Moved
<1>3. j.holder = w => Counted(Rejected(j)) /\ Counted(Resolved(j))
  BY <1>1 DEF Counted, Job, Rejected, FailedOnce, Resolved, Moved
<1> QED BY <1>2, <1>3 DEF Settle

\* Whatever the queue does to it.
LEMMA QueueCounted ==
    ASSUME NEW j, Counted(j)
    PROVE  /\ j.state = "delayed" => Counted(Promoted(j))
           /\ j.state = "active" => Counted(Unlocked(j))
           /\ IsStalled(j) => Counted(HandedOut(j))
<1>1. j.state = "delayed" => Counted(Promoted(j))
  BY DEF Counted, Job, Promoted, Moved
<1>2. j.state = "active" => Counted(Unlocked(j))
  BY DEF Counted, Job, Unlocked, Moved
<1>3. IsStalled(j) => Counted(HandedOut(j))
  BY DEF Counted, Job, IsStalled, HandedOut, Again, Moved
<1> QED BY <1>1, <1>2, <1>3

LEMMA NewCounted == Counted(NoJob) /\ Counted(Added)
BY DEF Counted, Job, NoJob, Added, Moved

\* What a worker may have left of its loop.
LEMMA LoopTyped ==
    /\ Idle \in Work
    /\ Channels \in Suffixes /\ <<>> \in Suffixes
    /\ \A k \in 0..Len(Channels) : SubSeq(Channels, k + 1, Len(Channels)) \in Suffixes
<1>1. \A k \in 0..Len(Channels) : SubSeq(Channels, k + 1, Len(Channels)) \in Suffixes
  <2> SUFFICES ASSUME NEW k \in 0..Len(Channels) PROVE k + 1 \in 1..Len(Channels) + 1
    BY DEF Suffixes
  <2> QED BY LengthTyped
<1>2. Channels = SubSeq(Channels, 0 + 1, Len(Channels)) /\ 0 \in 0..Len(Channels)
  BY ChannelsTyped
<1>3. <<>> = SubSeq(Channels, Len(Channels) + 1, Len(Channels)) /\ Len(Channels) \in 0..Len(Channels)
  BY ChannelsTyped, SubSeqEmpty
<1>4. Channels \in Suffixes
  BY <1>1, <1>2
<1>5. <<>> \in Suffixes
  BY <1>1, <1>3
<1>6. Idle \in Work
  BY <1>5 DEF Idle, Work
<1> QED BY <1>1, <1>4, <1>5, <1>6

\* One job changes, or none.
LEMMA OneJob ==
    ASSUME Known, Bounded, NEW n \in Notifs, NEW new, Counted(new),
           job' = [job EXCEPT ![n] = new]
    PROVE  \A m \in Notifs : Counted(job'[m])
BY DEF Known, Typed, Bounded

LEMMA BoundedInit == Init => Bounded
BY NewCounted, LoopTyped DEF Init, Bounded

LEMMA BoundedStep ==
    ASSUME Known, Bounded, [Next]_vars
    PROVE  Bounded'
<1> DEFINE Jobs == \A m \in Notifs : Counted(job'[m])
           Works == work' \in [Workers -> Work]
           Numbers == faults' \in 0..MaxFaults /\ stops' \in 0..MaxStops
<1>1. job' = job => Jobs
  BY DEF Bounded
<1>2. work' = work => Works
  BY DEF Bounded
<1>3. \A w \in Workers : work' = [work EXCEPT ![w] = Idle] => Works
  BY LoopTyped DEF Bounded
<1>4. /\ faults' = faults \/ Fault
      /\ stops' = stops \/ (stops < MaxStops /\ stops' = stops + 1)
      => Numbers
  BY DEF Bounded, Fault
<1>5. CASE UNCHANGED vars
  BY <1>1, <1>2, <1>4, <1>5 DEF vars, Bounded
<1>6. ASSUME NEW c \in Callers,
             CreateNotification(c) \/ NotifyOrganizationOwnersAndAdmins(c) \/ CallerStops(c)
      PROVE  Bounded'
  BY <1>1, <1>2, <1>4, <1>6
     DEF Bounded, CreateNotification, NotifyOrganizationOwnersAndAdmins, Store, CallerStops
<1>7. ASSUME NEW c \in Callers, NEW n \in Notifs, AddJob(c, n) PROVE Bounded'
  <2>1. Jobs
    BY <1>7, NewCounted, OneJob DEF AddJob
  <2> QED BY <1>2, <1>4, <1>7, <2>1 DEF Bounded, AddJob
<1>8. ASSUME NEW w \in Workers, NEW n \in Notifs, Take(w, n) PROVE Bounded'
  <2>1. Jobs
    BY <1>8, WorkerCounted, OneJob DEF Take, Bounded
  <2>2. Works
    BY <1>8, LoopTyped DEF Take, Bounded, Work
  <2> QED BY <1>4, <1>8, <2>1, <2>2 DEF Bounded, Take
<1>9. ASSUME NEW w \in Workers, ReadNotification(w) \/ Deliver(w) \/ DeliverFails(w)
      PROVE  Bounded'
  <2>1. job' = job
    BY <1>9 DEF ReadNotification, Deliver, DeliverFails
  <2>2. Works
    <3>1. work[w] \in Work /\ work \in [Workers -> Work]
      BY DEF Bounded
    <3>2. CASE ReadNotification(w)
      BY <3>1, <3>2, LoopTyped DEF ReadNotification, Work
    <3>3. CASE DeliverFails(w)
      BY <3>1, <3>3 DEF DeliverFails, Work
    <3>4. CASE Deliver(w)
      <4>1. PICK k \in 0..Len(Channels) : work[w].left = SubSeq(Channels, k + 1, Len(Channels))
        BY <3>4 DEF Deliver, Known, Progress, ProgressOf
      <4>2. k < Len(Channels) /\ Tail(work[w].left) = SubSeq(Channels, k + 2, Len(Channels))
        BY <3>4, <4>1, NextChannel DEF Deliver
      <4>3. k + 1 \in 0..Len(Channels) /\ (k + 1) + 1 = k + 2
        BY <4>2, LengthTyped
      <4>4. Tail(work[w].left) \in Suffixes
        BY <4>2, <4>3, LoopTyped
      <4> QED BY <3>1, <3>4, <4>4 DEF Deliver, Work
    <3> QED BY <1>9, <3>2, <3>3, <3>4
  <2> QED BY <1>1, <1>4, <1>9, <2>1, <2>2 DEF Bounded, ReadNotification, Deliver, DeliverFails
<1>10. ASSUME NEW w \in Workers,
              ReadFails(w) \/ MarkDeliveryFailed(w) \/ MarkFails(w) \/ Finish(w)
       PROVE  Bounded'
  <2>1. PICK n \in Notifs : n = work[w].n
    BY <1>10 DEF ReadFails, MarkDeliveryFailed, MarkFails, Finish, Known, Owned, OwnedOf
  <2>2. PICK new : /\ new \in {Settle(job[n], w, Rejected(job[n])), Settle(job[n], w, Resolved(job[n]))}
                   /\ job' = [job EXCEPT ![n] = new]
    BY <1>10, <2>1 DEF ReadFails, MarkDeliveryFailed, MarkFails, Finish, Reject
  <2>3. Counted(new)
    BY <2>2, WorkerCounted DEF Bounded
  <2>4. Jobs
    BY <2>2, <2>3, OneJob
  <2>5. Works
    BY <1>3, <1>10 DEF ReadFails, MarkDeliveryFailed, MarkFails, Finish, Reject
  <2> QED BY <1>4, <1>10, <2>4, <2>5
          DEF Bounded, ReadFails, MarkDeliveryFailed, MarkFails, Finish
<1>11. ASSUME NEW w \in Workers, WorkerLosesLock(w) PROVE Bounded'
  <2>1. Jobs
    BY <1>11, QueueCounted, OneJob DEF WorkerLosesLock, Bounded
  <2>2. Works
    BY <1>2, <1>3, <1>11 DEF WorkerLosesLock
  <2> QED BY <1>4, <1>11, <2>1, <2>2 DEF Bounded, WorkerLosesLock
<1>12. ASSUME NEW n \in Notifs, BackoffEnds(n) \/ StalledCheck(n) PROVE Bounded'
  <2>1. PICK new : new = IF BackoffEnds(n) THEN Promoted(job[n]) ELSE HandedOut(job[n])
    OBVIOUS
  <2>2. job' = [job EXCEPT ![n] = new]
    BY <1>12, <2>1 DEF BackoffEnds, StalledCheck
  <2>3. Counted(new)
    BY <1>12, <2>1, QueueCounted DEF BackoffEnds, StalledCheck, Bounded
  <2>4. Jobs
    BY <2>2, <2>3, OneJob
  <2> QED BY <1>2, <1>4, <1>12, <2>4 DEF Bounded, BackoffEnds, StalledCheck
<1> QED BY <1>5, <1>6, <1>7, <1>8, <1>9, <1>10, <1>11, <1>12 DEF Next, StepWorker, FaultOf

\* TypeOK: whatever the number of callers, workers, faults and stops, no job is tried
\* or handed out more often than it may be, and a worker's loop has a suffix of the
\* channels left (NotificationProcessor, and the options of NotificationService).
THEOREM TypeCorrect == Spec => []TypeOK
<1>1. Known /\ Bounded => TypeOK
  BY DEF Known, Typed, Bounded, Counted, TypeOK
<1>2. Known /\ Bounded /\ [Next]_vars => Bounded'
  BY BoundedStep
<1> QED BY <1>1, <1>2, BoundedInit, KnownAlways, PTL DEF Spec

-----------------------------------------------------------------------------
(* The count of unread notifications. A count is the newest while no other *)
(* was begun after it; it is the number of unread rows unless a change has *)
(* yet to be counted. A stream shows the newest that was emitted, if it    *)
(* heard it.                                                               *)

USE UnreadAssumption

PushType   == [pc : {"idle", "queue", "push", "emit"}, count : Unread!Counts, newest : BOOLEAN]
StreamType == [pc : {"closed", "first", "emit", "open"}, count : Unread!Counts]

UnreadTyped ==
    /\ status \in [Mine -> {"none", "UNREAD", "READ", "ARCHIVED"}]
    /\ subject \in BOOLEAN
    /\ stream \in [Streams -> StreamType]
    /\ shown \in [Streams -> Unread!Counts]
    /\ push \in [Calls -> PushType]
    /\ latest \in BOOLEAN
    /\ \A s \in Streams :
         /\ stream[s].pc = "open" => shown[s] # Unread!None
         /\ stream[s].pc = "emit" => stream[s].count # Unread!None
    /\ \A c \in Calls : push[c].pc = "emit" => push[c].count # Unread!None

\* A stream is open, and a push has somebody to go to, only from the first stream on.
SubjectFirst ==
    \/ subject
    \/ /\ \A s \in Streams : stream[s].pc = "closed"
       /\ \A c \in Calls : push[c].pc # "emit"

NewestCounted == \A c \in Calls : push[c].newest => push[c].pc = "emit"

CountsRight ==
    (\A c \in Calls : push[c].pc \notin {"queue", "push"}) =>
        /\ \A c \in Calls : push[c].newest => push[c].count = Unread!Count(status)
        /\ latest /\ (\A c \in Calls : ~ push[c].newest) =>
             \A s \in Streams :
               /\ stream[s].pc = "open" => shown[s] = Unread!Count(status)
               /\ stream[s].pc = "emit" => stream[s].count = Unread!Count(status)

UnreadKnown == UnreadTyped /\ SubjectFirst /\ NewestCounted /\ CountsRight

LEMMA SameCardinality == ASSUME NEW S PROVE Unread!Cardinality(S) = Cardinality(S)
BY DEF Unread!Cardinality, Cardinality

LEMMA CountTyped ==
    /\ Unread!Count(status) \in Unread!Counts
    /\ Unread!Count(status) # Unread!None
    /\ Unread!None \in Unread!Counts
<1> DEFINE unread == {n \in Mine : status[n] = "UNREAD"}
           size == Cardinality(Mine)
           count == Cardinality(unread)
<1>1. size \in Nat /\ count \in 0..size
  BY FS_Subset, FS_CardinalityType
<1>2. Unread!Count(status) = count
  BY SameCardinality DEF Unread!Count
<1>3. Unread!Counts = 0..size \cup {Unread!None}
  BY SameCardinality DEF Unread!Counts
<1> HIDE DEF size, count
<1>4. count # -1
  BY <1>1
<1> QED BY <1>1, <1>2, <1>3, <1>4 DEF Unread!None

LEMMA UnreadInit == Unread!Init => UnreadKnown
<1> SUFFICES ASSUME Unread!Init PROVE UnreadKnown
  OBVIOUS
<1>1. \A s \in Streams : stream[s].pc = "closed" /\ stream[s] \in StreamType
  BY CountTyped DEF Unread!Init, Unread!Closed, StreamType
<1>2. \A c \in Calls : push[c].pc = "idle" /\ push[c].newest = FALSE /\ push[c] \in PushType
  BY CountTyped DEF Unread!Init, Unread!Idle, PushType
<1>3. UnreadTyped
  BY <1>1, <1>2, CountTyped DEF Unread!Init, UnreadTyped
<1>4. SubjectFirst /\ NewestCounted /\ CountsRight
  BY <1>1, <1>2 DEF SubjectFirst, NewestCounted, CountsRight
<1> QED BY <1>3, <1>4 DEF UnreadKnown

\* A change of the rows: from now on one call has to push.
LEMMA ChangeKept ==
    ASSUME UnreadKnown, NEW c \in Calls,
           NEW rows \in [Mine -> {"none", "UNREAD", "READ", "ARCHIVED"}],
           NEW next \in {"queue", "push"}, Unread!Change(c, next, rows)
    PROVE  UnreadKnown'
<1>1. /\ status' = rows /\ push[c].pc = "idle" /\ UNCHANGED <<subject, stream, shown, latest>>
      /\ push' = [push EXCEPT ![c].pc = next]
  BY DEF Unread!Change
<1>2. push[c] \in PushType /\ push \in [Calls -> PushType] /\ ~ push[c].newest
  BY <1>1 DEF UnreadKnown, UnreadTyped, NewestCounted, PushType
<1>3. /\ push' \in [Calls -> PushType]
      /\ push'[c].pc = next /\ push'[c].newest = push[c].newest
      /\ \A d \in Calls \ {c} : push'[d] = push[d]
  BY <1>1, <1>2 DEF PushType
<1>4. UnreadTyped'
  BY <1>1, <1>3 DEF UnreadKnown, UnreadTyped
<1>5. SubjectFirst' /\ NewestCounted'
  BY <1>1, <1>2, <1>3 DEF UnreadKnown, SubjectFirst, NewestCounted
<1>6. CountsRight'
  BY <1>3 DEF CountsRight
<1> QED BY <1>4, <1>5, <1>6 DEF UnreadKnown

\* Every change leaves each row one of its statuses.
LEMMA ChangesKept ==
    ASSUME UnreadKnown, NEW c \in Calls,
           \/ Unread!NotificationCreated(c) \/ Unread!MarkAsRead(c)
           \/ Unread!MarkAllAsRead(c) \/ Unread!ArchiveNotification(c)
    PROVE  UnreadKnown'
<1> DEFINE Rows == [Mine -> {"none", "UNREAD", "READ", "ARCHIVED"}]
<1>1. status \in Rows
  BY DEF UnreadKnown, UnreadTyped
<1>2. \A n \in Mine : /\ [status EXCEPT ![n] = "UNREAD"] \in Rows
                      /\ [status EXCEPT ![n] = "READ"] \in Rows
                      /\ [status EXCEPT ![n] = "ARCHIVED"] \in Rows
  BY <1>1
<1>3. [n \in Mine |-> IF status[n] = "UNREAD" THEN "READ" ELSE status[n]] \in Rows
  BY <1>1
<1>4. \E rows \in Rows, next \in {"queue", "push"} : Unread!Change(c, next, rows)
  <2> HIDE DEF Rows
  <2> QED BY <1>2, <1>3
         DEF Unread!NotificationCreated, Unread!MarkAsRead, Unread!MarkAllAsRead, Unread!ArchiveNotification
<1> QED BY <1>4, ChangeKept

\* The pushes go on, none of them the newest any more.
LEMMA NoneNewestTyped ==
    ASSUME UnreadKnown
    PROVE  /\ Unread!NoneNewest \in [Calls -> PushType]
           /\ \A d \in Calls : /\ Unread!NoneNewest[d].pc = push[d].pc
                               /\ Unread!NoneNewest[d].count = push[d].count
                               /\ Unread!NoneNewest[d].newest = FALSE
<1>1. Unread!NoneNewest = [d \in Calls |-> [push[d] EXCEPT !.newest = FALSE]]
  BY DEF Unread!NoneNewest
<1>2. \A d \in Calls : push[d] \in PushType
  BY DEF UnreadKnown, UnreadTyped
<1>3. \A d \in Calls : /\ [push[d] EXCEPT !.newest = FALSE] \in PushType
                       /\ [push[d] EXCEPT !.newest = FALSE].pc = push[d].pc
                       /\ [push[d] EXCEPT !.newest = FALSE].count = push[d].count
                       /\ [push[d] EXCEPT !.newest = FALSE].newest = FALSE
  BY <1>2 DEF PushType
<1> QED BY <1>1, <1>3

\* What becomes of them when one counts, or fails to.
LEMMA NewestPassed ==
    ASSUME UnreadKnown, NEW c \in Calls, NEW new \in PushType,
           push' = [Unread!NoneNewest EXCEPT ![c] = new]
    PROVE  /\ push' \in [Calls -> PushType]
           /\ push'[c] = new
           /\ \A d \in Calls \ {c} : /\ push'[d].pc = push[d].pc
                                     /\ push'[d].count = push[d].count
                                     /\ push'[d].newest = FALSE
BY NoneNewestTyped

LEMMA PushKept ==
    ASSUME UnreadKnown, NEW c \in Calls, Unread!StepCall(c)
    PROVE  UnreadKnown'
<1>1. /\ Unread!Idle \in PushType /\ Unread!Idle.pc = "idle" /\ Unread!Idle.newest = FALSE
  BY CountTyped DEF Unread!Idle, PushType
<1>2. push \in [Calls -> PushType]
  BY DEF UnreadKnown, UnreadTyped
<1>3. CASE Unread!PushToNobody(c)
  <2>1. /\ ~ subject /\ push[c].pc = "push" /\ UNCHANGED <<status, subject, stream, shown, latest>>
        /\ push' = [push EXCEPT ![c] = Unread!Idle]
    BY <1>3 DEF Unread!PushToNobody
  <2>2. /\ push' \in [Calls -> PushType] /\ push'[c] = Unread!Idle
        /\ \A d \in Calls \ {c} : push'[d] = push[d]
    BY <1>1, <1>2, <2>1
  <2>3. /\ \A s \in Streams : stream[s].pc = "closed"
        /\ \A d \in Calls : push[d].pc # "emit"
    BY <2>1 DEF UnreadKnown, SubjectFirst
  <2>4. UnreadTyped'
    BY <1>1, <2>1, <2>2 DEF UnreadKnown, UnreadTyped
  <2>5. SubjectFirst' /\ NewestCounted'
    BY <1>1, <2>1, <2>2, <2>3 DEF UnreadKnown, SubjectFirst, NewestCounted
  <2>6. \A d \in Calls : ~ push'[d].newest
    BY <1>1, <2>2, <2>3 DEF UnreadKnown, NewestCounted
  <2>7. CountsRight'
    BY <2>1, <2>3, <2>6 DEF CountsRight
  <2> QED BY <2>4, <2>5, <2>7 DEF UnreadKnown
<1>4. CASE Unread!FetchUnreadCount(c)
  <2> DEFINE n == Unread!Count(status)
             new == Unread!Counted(n)
  <2>1. /\ subject /\ UNCHANGED <<status, subject, stream, shown, latest>>
        /\ push' = [Unread!NoneNewest EXCEPT ![c] = new]
    BY <1>4 DEF Unread!FetchUnreadCount
  <2>2. new \in PushType /\ new.pc = "emit" /\ new.count = n /\ new.newest = TRUE /\ n # Unread!None
    BY CountTyped DEF Unread!Counted, PushType
  <2> HIDE DEF n, new
  <2>3. /\ push' \in [Calls -> PushType] /\ push'[c] = new
        /\ \A d \in Calls \ {c} : /\ push'[d].pc = push[d].pc
                                  /\ push'[d].count = push[d].count
                                  /\ push'[d].newest = FALSE
    BY <2>1, <2>2, NewestPassed
  <2>4. UnreadTyped'
    BY <2>1, <2>2, <2>3 DEF UnreadKnown, UnreadTyped
  <2>5. SubjectFirst' /\ NewestCounted'
    BY <2>1, <2>2, <2>3 DEF UnreadKnown, SubjectFirst, NewestCounted
  <2>6. Unread!Count(status)' = n
    BY <2>1 DEF n, Unread!Count
  <2>7. CountsRight'
    BY <2>2, <2>3, <2>6 DEF CountsRight
  <2> QED BY <2>4, <2>5, <2>7 DEF UnreadKnown
<1>5. CASE Unread!FetchFails(c) \/ Unread!QueueFails(c)
  <2>1. /\ UNCHANGED <<status, subject, stream, shown>> /\ latest' = FALSE
        /\ push' = [Unread!NoneNewest EXCEPT ![c] = Unread!Idle]
    BY <1>5 DEF Unread!FetchFails, Unread!QueueFails
  <2>2. /\ push' \in [Calls -> PushType] /\ push'[c] = Unread!Idle
        /\ \A d \in Calls \ {c} : /\ push'[d].pc = push[d].pc
                                  /\ push'[d].count = push[d].count
                                  /\ push'[d].newest = FALSE
    BY <1>1, <2>1, NewestPassed
  <2>3. UnreadTyped'
    BY <1>1, <2>1, <2>2 DEF UnreadKnown, UnreadTyped
  <2>4. SubjectFirst' /\ NewestCounted' /\ CountsRight'
    BY <1>1, <2>1, <2>2 DEF UnreadKnown, SubjectFirst, NewestCounted, CountsRight
  <2> QED BY <2>3, <2>4 DEF UnreadKnown
<1>6. CASE Unread!Emit(c)
  <2>1. /\ push[c].pc = "emit" /\ UNCHANGED <<status, subject, stream>>
        /\ push' = [push EXCEPT ![c] = Unread!Idle]
        /\ latest' = (push[c].newest /\ \A s \in Streams : stream[s].pc # "emit")
        /\ shown' = [s \in Streams |-> IF stream[s].pc = "open" THEN push[c].count ELSE shown[s]]
    BY <1>6 DEF Unread!Emit, Unread!Hears
  <2>2. /\ push' \in [Calls -> PushType] /\ push'[c] = Unread!Idle
        /\ \A d \in Calls \ {c} : push'[d] = push[d]
    BY <1>1, <1>2, <2>1
  <2>3. push[c].count \in Unread!Counts /\ push[c].count # Unread!None /\ push[c].newest \in BOOLEAN
    BY <1>2, <2>1 DEF UnreadKnown, UnreadTyped, PushType
  <2>4. UnreadTyped'
    BY <1>1, <2>1, <2>2, <2>3 DEF UnreadKnown, UnreadTyped
  <2>5. SubjectFirst' /\ NewestCounted'
    BY <1>1, <2>1, <2>2 DEF UnreadKnown, SubjectFirst, NewestCounted
  <2>6. Unread!Count(status)' = Unread!Count(status)
    BY <2>1 DEF Unread!Count
  <2>7. ASSUME \A d \in Calls : push'[d].pc \notin {"queue", "push"}
        PROVE  \A d \in Calls : push[d].pc \notin {"queue", "push"}
    BY <2>1, <2>2, <2>7
  <2>8. CountsRight'
    BY <1>1, <2>1, <2>2, <2>6, <2>7 DEF UnreadKnown, CountsRight
  <2> QED BY <2>4, <2>5, <2>8 DEF UnreadKnown
<1>7. CASE Unread!JobAdded(c)
  <2>1. /\ push[c].pc = "queue" /\ UNCHANGED <<status, subject, stream, shown, latest>>
        /\ push' = [push EXCEPT ![c].pc = "push"]
    BY <1>7 DEF Unread!JobAdded
  <2>2. push[c] \in PushType /\ ~ push[c].newest
    BY <1>2, <2>1 DEF UnreadKnown, NewestCounted
  <2>3. /\ push' \in [Calls -> PushType]
        /\ push'[c].pc = "push" /\ push'[c].newest = push[c].newest
        /\ \A d \in Calls \ {c} : push'[d] = push[d]
    BY <1>2, <2>1, <2>2 DEF PushType
  <2>4. UnreadTyped'
    BY <2>1, <2>3 DEF UnreadKnown, UnreadTyped
  <2>5. SubjectFirst' /\ NewestCounted'
    BY <2>1, <2>2, <2>3 DEF UnreadKnown, SubjectFirst, NewestCounted
  <2>6. CountsRight'
    BY <2>3 DEF CountsRight
  <2> QED BY <2>4, <2>5, <2>6 DEF UnreadKnown
<1> QED BY <1>3, <1>4, <1>5, <1>6, <1>7 DEF Unread!StepCall

\* Rows changed in another process: no count under way is known to be right.
LEMMA ElsewhereKept ==
    ASSUME UnreadKnown, Unread!ChangeElsewhere
    PROVE  UnreadKnown'
<1>1. /\ UNCHANGED <<subject, stream, shown>> /\ latest' = FALSE /\ push' = Unread!NoneNewest
      /\ \E n \in Mine, to \in {"UNREAD", "READ", "ARCHIVED"} : status' = [status EXCEPT ![n] = to]
  BY DEF Unread!ChangeElsewhere
<1>2. status' \in [Mine -> {"none", "UNREAD", "READ", "ARCHIVED"}]
  BY <1>1 DEF UnreadKnown, UnreadTyped
<1>3. /\ push' \in [Calls -> PushType]
      /\ \A d \in Calls : /\ push'[d].pc = push[d].pc
                          /\ push'[d].count = push[d].count
                          /\ push'[d].newest = FALSE
  BY <1>1, NoneNewestTyped
<1>4. UnreadTyped'
  BY <1>1, <1>2, <1>3 DEF UnreadKnown, UnreadTyped
<1>5. SubjectFirst' /\ NewestCounted' /\ CountsRight'
  BY <1>1, <1>3 DEF UnreadKnown, SubjectFirst, NewestCounted, CountsRight
<1> QED BY <1>4, <1>5 DEF UnreadKnown

\* Stream s goes on to new, and shows count.
LEMMA StreamKept ==
    ASSUME UnreadKnown, NEW s \in Streams, NEW new \in StreamType, NEW count \in Unread!Counts,
           UNCHANGED <<status, push, latest>>, subject \/ new.pc = "closed",
           subject' \in BOOLEAN, subject => subject', subject' \/ new.pc = "closed",
           ~ subject' => ~ subject,
           stream' = [stream EXCEPT ![s] = new], shown' = [shown EXCEPT ![s] = count],
           new.pc = "open" => count # Unread!None /\ stream[s].pc = "emit" /\ count = stream[s].count,
           new.pc = "emit" => new.count = Unread!Count(status)
    PROVE  UnreadKnown'
<1>1. /\ stream'[s] = new /\ shown'[s] = count
      /\ \A r \in Streams \ {s} : stream'[r] = stream[r] /\ shown'[r] = shown[r]
      /\ stream' \in [Streams -> StreamType] /\ shown' \in [Streams -> Unread!Counts]
  BY DEF UnreadKnown, UnreadTyped
<1>2. UnreadTyped'
  BY <1>1, CountTyped DEF UnreadKnown, UnreadTyped
<1>3. SubjectFirst' /\ NewestCounted'
  BY <1>1 DEF UnreadKnown, SubjectFirst, NewestCounted
<1>4. Unread!Count(status)' = Unread!Count(status)
  BY DEF Unread!Count
<1>5. CountsRight'
  BY <1>1, <1>4 DEF UnreadKnown, CountsRight
<1> QED BY <1>2, <1>3, <1>5 DEF UnreadKnown

LEMMA UnreadStep ==
    ASSUME UnreadKnown, [Unread!Next]_(Unread!vars)
    PROVE  UnreadKnown'
<1>1. /\ Unread!Closed \in StreamType /\ Unread!Closed.pc = "closed"
      /\ Unread!None \in Unread!Counts /\ Unread!Count(status) \in Unread!Counts
  BY CountTyped DEF Unread!Closed, StreamType
<1>2. ASSUME NEW s \in Streams PROVE /\ stream[s] \in StreamType /\ shown[s] \in Unread!Counts
                                     /\ subject \in BOOLEAN
                                     /\ stream[s].pc = "closed" \/ subject
                                     /\ shown = [shown EXCEPT ![s] = shown[s]]
  BY DEF UnreadKnown, UnreadTyped, SubjectFirst
<1>3. ASSUME NEW s \in Streams, Unread!GetStream(s) PROVE UnreadKnown'
  <2> DEFINE new == [stream[s] EXCEPT !.pc = "first"]
  <2>1. new \in StreamType /\ new.pc = "first"
    BY <1>2 DEF StreamType
  <2>2. /\ stream' = [stream EXCEPT ![s] = new] /\ subject' = TRUE
        /\ UNCHANGED <<status, shown, push, latest>>
    BY <1>3 DEF Unread!GetStream
  <2> HIDE DEF new
  <2>3. /\ stream'[s] = new /\ \A r \in Streams \ {s} : stream'[r] = stream[r]
        /\ stream' \in [Streams -> StreamType]
    BY <2>1, <2>2 DEF UnreadKnown, UnreadTyped
  <2>4. Unread!Count(status)' = Unread!Count(status)
    BY <2>2 DEF Unread!Count
  <2>5. UnreadTyped' /\ SubjectFirst' /\ NewestCounted'
    BY <2>1, <2>2, <2>3 DEF UnreadKnown, UnreadTyped, SubjectFirst, NewestCounted
  <2>6. CountsRight'
    BY <2>1, <2>2, <2>3, <2>4 DEF UnreadKnown, CountsRight
  <2> QED BY <2>5, <2>6 DEF UnreadKnown
<1>4. ASSUME NEW s \in Streams, Unread!FirstCount(s) PROVE UnreadKnown'
  <2> DEFINE new == [pc |-> "emit", count |-> Unread!Count(status)]
  <2>1. new \in StreamType /\ new.pc = "emit" /\ new.count = Unread!Count(status)
    BY <1>1 DEF StreamType
  <2>2. /\ stream' = [stream EXCEPT ![s] = new] /\ stream[s].pc = "first"
        /\ UNCHANGED <<status, subject, shown, push, latest>>
    BY <1>4 DEF Unread!FirstCount
  <2> HIDE DEF new
  <2> QED BY <1>2, <2>1, <2>2, StreamKept
<1>5. ASSUME NEW s \in Streams, Unread!Listen(s) PROVE UnreadKnown'
  <2> DEFINE new == [Unread!Closed EXCEPT !.pc = "open"]
  <2>1. new \in StreamType /\ new.pc = "open"
    BY <1>1 DEF Unread!Closed, StreamType
  <2>2. /\ stream' = [stream EXCEPT ![s] = new] /\ stream[s].pc = "emit"
        /\ shown' = [shown EXCEPT ![s] = stream[s].count]
        /\ UNCHANGED <<status, subject, push, latest>>
    BY <1>5 DEF Unread!Listen
  <2>3. stream[s].count \in Unread!Counts /\ stream[s].count # Unread!None
    BY <1>2, <2>2 DEF UnreadKnown, UnreadTyped, StreamType
  <2> HIDE DEF new
  <2> QED BY <1>2, <2>1, <2>2, <2>3, StreamKept
<1>6. ASSUME NEW s \in Streams, Unread!Close(s) PROVE UnreadKnown'
  BY <1>1, <1>2, <1>6, StreamKept DEF Unread!Close
<1>7. CASE UNCHANGED Unread!vars
  <2>1. UNCHANGED <<status, subject, stream, shown, push, latest>>
    BY <1>7 DEF Unread!vars
  <2> QED BY <2>1 DEF UnreadKnown, UnreadTyped, SubjectFirst, NewestCounted, CountsRight, Unread!Count
<1> QED BY <1>3, <1>4, <1>5, <1>6, <1>7, ChangesKept, PushKept, ElsewhereKept DEF Unread!Next

LEMMA UnreadAlways == Unread!Spec => []UnreadKnown
<1>1. UnreadKnown /\ [Unread!Next]_(Unread!vars) => UnreadKnown'
  BY UnreadStep
<1> QED BY <1>1, UnreadInit, PTL DEF Unread!Spec

\* UnreadTypeOK: with any notifications, streams and calls, a stream that is open
\* shows a number, and every number is one of as many rows as there are
\* (NotificationSseService).
THEOREM UnreadTypeCorrect == Unread!Spec => []UnreadTypeOK
<1>1. UnreadKnown => UnreadTypeOK
  BY DEF UnreadKnown, UnreadTyped, UnreadTypeOK, Unread!TypeOK, PushType, StreamType
<1> QED BY <1>1, UnreadAlways, PTL

\* StaleOnlyByOvertaking: once no call is under way, every open stream shows the
\* number of unread rows, unless the push that counted last was overtaken, failed or
\* came before a stream listened, or a change was not pushed here: its job could not
\* be added, or another process made it (createNotification of NotificationService;
\* pushUnreadCount and getStream of NotificationSseService).
THEOREM StaleByOvertaking == Unread!Spec => []StaleOnlyByOvertaking
<1>1. UnreadKnown => StaleOnlyByOvertaking
  BY DEF UnreadKnown, NewestCounted, CountsRight, StaleOnlyByOvertaking, Unread!StaleOnlyByOvertaking
<1> QED BY <1>1, UnreadAlways, PTL
=============================================================================
