---------------------------- MODULE MetricsProofs ----------------------------
(***************************************************************************)
(* For any number of evaluations, workers, days, faults and stops: nothing *)
(* committed is lost from the sum, a job is counted no more often than it  *)
(* was handed out, and a day has no more buckets than there are workers.   *)
(* The counting arguments need the sums and cardinalities of finite sets;  *)
(* their lemmas come first.                                                *)
(***************************************************************************)
EXTENDS Metrics, FiniteSetTheorems, SequenceTheorems, TLAPS

(* Induction.                                                              *)

LEMMA Smallest ==
    ASSUME NEW T, T \subseteq Nat, T # {}
    PROVE  \E n \in T : \A m \in T : n <= m
<1>1. PICK n \in T : \A m \in T : <<m, n>> \notin OpToRel(<, Nat)
  BY WFMin, NatLessThanWellFounded
<1>2. ASSUME NEW m \in T PROVE ~ (m < n)
  <2>1. <<m, n>> \notin OpToRel(<, Nat) /\ <<m, n>> \in Nat \X Nat
    BY <1>1
  <2> QED BY <2>1 DEF OpToRel
<1> QED BY <1>2

\* What holds of 0, and of n + 1 if of n, holds of every natural number.
LEMMA Upward ==
    ASSUME NEW G, 0 \in G, \A n \in Nat : n \in G => n + 1 \in G
    PROVE  Nat \subseteq G
<1> DEFINE Bad == Nat \ G
<1> SUFFICES ASSUME Bad # {} PROVE FALSE
  OBVIOUS
<1>1. PICK n \in Bad : \A m \in Bad : n <= m
  BY Smallest
<1>2. n # 0
  OBVIOUS
<1>3. n - 1 \in Nat /\ n - 1 \notin Bad
  BY <1>1, <1>2
<1> QED BY <1>3

FiniteSubsets(S) == \A T \in SUBSET S : IsFiniteSet(T) /\ Cardinality(T) \in Nat

LEMMA SubsetsAreFinite ==
    ASSUME NEW S, IsFiniteSet(S)
    PROVE  FiniteSubsets(S)
BY FS_Subset, FS_CardinalityType DEF FiniteSubsets

LEMMA OneLess ==
    ASSUME NEW T, IsFiniteSet(T), NEW x \in T, NEW n \in Nat, Cardinality(T) = n + 1
    PROVE  Cardinality(T \ {x}) = n
<1>1. Cardinality(T \ {x}) = Cardinality(T) - 1
  BY FS_RemoveElement
<1> QED BY <1>1

\* What holds of the empty set, and of a subset of S if of all that lack one element,
\* holds of S.
LEMMA Growing ==
    ASSUME NEW S, IsFiniteSet(S), NEW G, {} \in G,
           \A T \in SUBSET S : T # {} /\ (\A x \in T : T \ {x} \in G) => T \in G
    PROVE  S \in G
<1> DEFINE N == {n \in Nat : \A T \in SUBSET S : Cardinality(T) = n => T \in G}
<1>1. \A T \in SUBSET S : IsFiniteSet(T) /\ Cardinality(T) \in Nat
  BY SubsetsAreFinite DEF FiniteSubsets
<1>2. 0 \in N
  BY <1>1, FS_EmptySet
<1>3. ASSUME NEW n \in Nat, n \in N PROVE n + 1 \in N
  <2> SUFFICES ASSUME NEW T \in SUBSET S, Cardinality(T) = n + 1 PROVE T \in G
    OBVIOUS
  <2>1. T # {}
    <3>1. Cardinality({}) = 0
      BY FS_EmptySet
    <3> QED BY <3>1
  <2>2. \A x \in T : T \ {x} \in G
    BY <1>1, <1>3, OneLess
  <2> QED BY <2>1, <2>2
<1>4. Nat \subseteq N
  <2> HIDE DEF N
  <2> QED BY <1>2, <1>3, Upward
<1>5. Cardinality(S) \in N
  BY <1>1, <1>4
<1> QED BY <1>5

-----------------------------------------------------------------------------
(* Sums. SumFunctionOnSet takes the elements one by one, in an order of    *)
(* its own, by a recursive function on the subsets; that there is one has  *)
(* to be shown first.                                                      *)

First(s) == CHOOSE x \in s : TRUE

FromRest(f, sum, s) == IF s = {} THEN 0 ELSE f[First(s)] + sum[s \ {First(s)}]

Sums(f, sum, D) == sum = [s \in D |-> FromRest(f, sum, s)]

SumOf(f, S) == CHOOSE sum : Sums(f, sum, SUBSET S)

LEMMA SumIsSumOf ==
    ASSUME NEW f, NEW S
    PROVE  SumFunctionOnSet(f, S) = SumOf(f, S)[S]
BY DEF SumFunctionOnSet, FoldFunctionOnSet, MapThenFoldSet, SumOf, Sums, FromRest, First

LEMMA FirstIn ==
    ASSUME NEW s, s # {}
    PROVE  First(s) \in s
BY DEF First

\* A function for the sets of up to n + 1 elements comes from one for up to n.
LEMMA SumOfExists ==
    ASSUME NEW f, NEW S, IsFiniteSet(S)
    PROVE  Sums(f, SumOf(f, S), SUBSET S)
<1> DEFINE Upto(n) == {s \in SUBSET S : Cardinality(s) <= n}
           N == {n \in Nat : \E sum : Sums(f, sum, Upto(n))}
<1>1. \A T \in SUBSET S : IsFiniteSet(T) /\ Cardinality(T) \in Nat /\ Cardinality(T) <= Cardinality(S)
  BY FS_Subset, FS_CardinalityType
<1>2. 0 \in N
  <2> DEFINE sum == [s \in Upto(0) |-> 0]
  <2>1. \A s \in Upto(0) : s = {}
    BY <1>1, FS_EmptySet
  <2>2. Sums(f, sum, Upto(0))
    BY <2>1 DEF Sums, FromRest
  <2> QED BY <2>2
<1>3. ASSUME NEW n \in Nat, n \in N PROVE n + 1 \in N
  <2>1. PICK sum : Sums(f, sum, Upto(n))
    BY <1>3
  <2> DEFINE more == [s \in Upto(n + 1) |-> FromRest(f, sum, s)]
  <2>2. ASSUME NEW s \in Upto(n + 1), s # {} PROVE s \ {First(s)} \in Upto(n)
    <3>1. Cardinality(s \ {First(s)}) = Cardinality(s) - 1
      BY <1>1, <2>2, FirstIn, FS_RemoveElement
    <3> QED BY <1>1, <3>1
  <2>3. \A s \in Upto(n) : s \in Upto(n + 1) /\ sum[s] = FromRest(f, sum, s)
    BY <1>1, <2>1 DEF Sums
  <2>4. \A s \in Upto(n) : more[s] = sum[s]
    BY <2>3
  <2>5. \A s \in Upto(n + 1) : FromRest(f, more, s) = FromRest(f, sum, s)
    <3> HIDE DEF more, Upto
    <3> QED BY <2>2, <2>4 DEF FromRest
  <2>6. Sums(f, more, Upto(n + 1))
    BY <2>5 DEF Sums
  <2>7. \E any : Sums(f, any, Upto(n + 1))
    <3> HIDE DEF more
    <3> QED BY <2>6
  <2>8. n + 1 \in Nat
    OBVIOUS
  <2> HIDE DEF Upto
  <2> QED BY <2>7, <2>8
<1>4. Nat \subseteq N
  <2> HIDE DEF N
  <2> QED BY <1>2, <1>3, Upward
<1>5. Cardinality(S) \in N
  BY <1>1, <1>4, FS_CardinalityType
<1>6. Upto(Cardinality(S)) = SUBSET S
  BY <1>1
<1> QED BY <1>5, <1>6 DEF SumOf

LEMMA SumOfFromRest ==
    ASSUME NEW f, NEW S, IsFiniteSet(S), NEW T \in SUBSET S
    PROVE  SumOf(f, S)[T] = FromRest(f, SumOf(f, S), T)
<1> DEFINE sum == SumOf(f, S)
<1>1. Sums(f, sum, SUBSET S)
  BY SumOfExists
<1> HIDE DEF sum
<1>2. sum = [s \in SUBSET S |-> FromRest(f, sum, s)]
  BY <1>1 DEF Sums
<1>3. sum[T] = FromRest(f, sum, T)
  BY <1>2
<1> QED BY <1>3 DEF sum

\* The function that sums over S also sums over its subsets.
LEMMA SumOfSubset ==
    ASSUME NEW f, NEW S, IsFiniteSet(S), NEW U \in SUBSET S
    PROVE  SumOf(f, S)[U] = SumFunctionOnSet(f, U)
<1> DEFINE G == {T \in SUBSET U : SumOf(f, S)[T] = SumOf(f, U)[T]}
<1>1. IsFiniteSet(U)
  BY FS_Subset
<1>2. \A T \in SUBSET U : /\ SumOf(f, S)[T] = FromRest(f, SumOf(f, S), T)
                          /\ SumOf(f, U)[T] = FromRest(f, SumOf(f, U), T)
  BY <1>1, SumOfFromRest
<1>3. {} \in G
  BY <1>2 DEF FromRest
<1>4. ASSUME NEW T \in SUBSET U, T # {}, \A x \in T : T \ {x} \in G PROVE T \in G
  BY <1>2, <1>4, FirstIn DEF FromRest
<1>5. U \in G
  <2> HIDE DEF G
  <2> QED BY <1>1, <1>3, <1>4, Growing
<1> QED BY <1>5, SumIsSumOf

LEMMA SumEmpty ==
    ASSUME NEW f
    PROVE  SumFunctionOnSet(f, {}) = 0
BY SumOfFromRest, SumIsSumOf, FS_EmptySet DEF FromRest

LEMMA SumSomeFirst ==
    ASSUME NEW f, NEW S, IsFiniteSet(S), S # {}
    PROVE  \E x \in S : SumFunctionOnSet(f, S) = f[x] + SumFunctionOnSet(f, S \ {x})
<1>1. SumOf(f, S)[S] = f[First(S)] + SumOf(f, S)[S \ {First(S)}]
  BY SumOfFromRest DEF FromRest
<1>2. SumOf(f, S)[S \ {First(S)}] = SumFunctionOnSet(f, S \ {First(S)})
  BY SumOfSubset
<1> QED BY <1>1, <1>2, SumIsSumOf, FirstIn

LEMMA SumType ==
    ASSUME NEW f, NEW S, IsFiniteSet(S), \A x \in S : f[x] \in Int
    PROVE  SumFunctionOnSet(f, S) \in Int
<1> DEFINE G == {T \in SUBSET S : SumFunctionOnSet(f, T) \in Int}
<1>1. {} \in G
  BY SumEmpty
<1>2. ASSUME NEW T \in SUBSET S, T # {}, \A x \in T : T \ {x} \in G PROVE T \in G
  <2>1. PICK x \in T : SumFunctionOnSet(f, T) = f[x] + SumFunctionOnSet(f, T \ {x})
    BY <1>2, SumSomeFirst, SubsetsAreFinite DEF FiniteSubsets
  <2> QED BY <1>2, <2>1
<1> HIDE DEF G
<1>3. S \in G
  BY <1>1, <1>2, Growing
<1> QED BY <1>3 DEF G

\* Any element may be taken first.
LEMMA SumFirst ==
    ASSUME NEW f, NEW S, IsFiniteSet(S), \A x \in S : f[x] \in Int, NEW y \in S
    PROVE  SumFunctionOnSet(f, S) = f[y] + SumFunctionOnSet(f, S \ {y})
<1> DEFINE Takes(T, z) == SumFunctionOnSet(f, T) = f[z] + SumFunctionOnSet(f, T \ {z})
           G == {T \in SUBSET S : \A z \in T : Takes(T, z)}
<1>1. {} \in G
  OBVIOUS
<1>2. \A T \in SUBSET S : IsFiniteSet(T) /\ SumFunctionOnSet(f, T) \in Int
  BY SumType, SubsetsAreFinite DEF FiniteSubsets
<1>3. ASSUME NEW T \in SUBSET S, T # {}, \A x \in T : T \ {x} \in G PROVE T \in G
  <2> SUFFICES ASSUME NEW z \in T PROVE Takes(T, z)
    OBVIOUS
  <2>1. PICK x \in T : Takes(T, x)
    BY <1>2, <1>3, SumSomeFirst
  <2>2. CASE x = z
    BY <2>1, <2>2
  <2>3. CASE x # z
    <3>1. Takes(T \ {x}, z) /\ Takes(T \ {z}, x)
      BY <1>3, <2>3
    <3>2. (T \ {x}) \ {z} = (T \ {z}) \ {x}
      OBVIOUS
    <3> DEFINE a == SumFunctionOnSet(f, T)
               b == SumFunctionOnSet(f, T \ {x})
               c == SumFunctionOnSet(f, T \ {z})
               d == SumFunctionOnSet(f, (T \ {z}) \ {x})
    <3>3. a = f[x] + b /\ b = f[z] + d /\ c = f[x] + d
      BY <2>1, <3>1, <3>2
    <3>4. f[x] \in Int /\ f[z] \in Int /\ d \in Int
      BY <1>2
    <3> HIDE DEF a, b, c, d
    <3>5. a = f[z] + c
      BY <3>3, <3>4
    <3> QED BY <3>5 DEF a, c
  <2> QED BY <2>2, <2>3
<1> HIDE DEF G
<1>4. S \in G
  BY <1>1, <1>3, Growing
<1> QED BY <1>4 DEF G

\* Only the values on S matter.
LEMMA SumSame ==
    ASSUME NEW f, NEW g, NEW S, IsFiniteSet(S), \A x \in S : f[x] \in Int /\ f[x] = g[x]
    PROVE  SumFunctionOnSet(f, S) = SumFunctionOnSet(g, S)
<1> DEFINE G == {T \in SUBSET S : SumFunctionOnSet(f, T) = SumFunctionOnSet(g, T)}
<1>1. {} \in G
  BY SumEmpty
<1>2. ASSUME NEW T \in SUBSET S, T # {}, \A x \in T : T \ {x} \in G PROVE T \in G
  <2>1. PICK x \in T : TRUE
    BY <1>2
  <2>2. IsFiniteSet(T)
    BY SubsetsAreFinite DEF FiniteSubsets
  <2>3. SumFunctionOnSet(f, T) = f[x] + SumFunctionOnSet(f, T \ {x})
    BY <2>2, SumFirst
  <2>4. SumFunctionOnSet(g, T) = g[x] + SumFunctionOnSet(g, T \ {x})
    BY <2>2, SumFirst
  <2> QED BY <1>2, <2>3, <2>4
<1> HIDE DEF G
<1>3. S \in G
  BY <1>1, <1>2, Growing
<1> QED BY <1>3 DEF G

\* One value changes: so does the sum, by as much.
LEMMA SumChanged ==
    ASSUME NEW f, NEW g, NEW S, IsFiniteSet(S), NEW y \in S, g[y] \in Int,
           \A x \in S : f[x] \in Int, \A x \in S \ {y} : g[x] = f[x]
    PROVE  SumFunctionOnSet(g, S) = SumFunctionOnSet(f, S) + g[y] - f[y]
<1> DEFINE rest == SumFunctionOnSet(f, S \ {y})
<1>1. IsFiniteSet(S \ {y})
  BY FS_RemoveElement
<1>2. SumFunctionOnSet(g, S \ {y}) = rest
  BY <1>1, SumSame
<1>3. SumFunctionOnSet(f, S) = f[y] + rest
  BY SumFirst
<1>4. SumFunctionOnSet(g, S) = g[y] + rest
  BY <1>2, SumFirst
<1>5. rest \in Int
  BY <1>1, SumType
<1> HIDE DEF rest
<1> QED BY <1>3, <1>4, <1>5

LEMMA OnceMore ==
    ASSUME NEW a \in Nat, NEW c \in Nat
    PROVE  (a + 1) * c = a * c + c /\ a * c \in Nat
OBVIOUS

-----------------------------------------------------------------------------
(* Types.                                                                  *)

USE QueueAssumption, MetricsAssumption

\* A job as its queue keeps it: only an active one is held, and one that is not at
\* its end has an attempt left.
Fit(j) ==
    /\ j \in Job
    /\ j.state \notin {"completed", "failed"} => j.made < Attempts
    /\ j.holder # Nobody => j.state = "active"

Typed ==
    /\ TypeOK
    /\ \A v \in Evaluations : Fit(job[v])
    /\ \A w \in Workers : work[w].pc # "idle" => work[w].v \in Evaluations

\* Whatever a worker does to a job.
LEMMA FitByWorker ==
    ASSUME NEW j, Fit(j), NEW w \in Workers
    PROVE  /\ j.state = "waiting" => Fit(TakenBy(j, w))
           /\ Fit(Settle(j, w, Rejected(j)))
           /\ Fit(Settle(j, w, Resolved(j)))
<1>1. w # Nobody
  OBVIOUS
<1>2. j.state = "waiting" => Fit(TakenBy(j, w))
  BY DEF Fit, Job, TakenBy, Moved
<1>3. j.holder = w => Fit(Rejected(j)) /\ Fit(Resolved(j))
  BY <1>1 DEF Fit, Job, Rejected, FailedOnce, Resolved, Moved
<1> QED BY <1>2, <1>3 DEF Settle

\* Whatever the queue does to it.
LEMMA FitByQueue ==
    ASSUME NEW j, Fit(j)
    PROVE  /\ j.state = "delayed" => Fit(Promoted(j))
           /\ j.state = "active" => Fit(Unlocked(j))
           /\ IsStalled(j) => Fit(HandedOut(j))
<1>1. j.state = "delayed" => Fit(Promoted(j))
  BY DEF Fit, Job, Promoted, Moved
<1>2. j.state = "active" => Fit(Unlocked(j))
  BY DEF Fit, Job, Unlocked, Moved
<1>3. IsStalled(j) => Fit(HandedOut(j))
  BY DEF Fit, Job, IsStalled, HandedOut, Again, Moved
<1> QED BY <1>1, <1>2, <1>3

LEMMA NewFit == Fit(NoJob) /\ Fit(Added)
BY DEF Fit, Job, NoJob, Added, Moved

\* The job of v goes on to new, the others stay.
JobGoes(v, new) ==
    /\ v \in Evaluations
    /\ Fit(new)
    /\ job' = [job EXCEPT ![v] = new]

LEMMA JobsFit ==
    ASSUME Typed, NEW v, NEW new, JobGoes(v, new)
    PROVE  /\ job' \in [Evaluations -> Job]
           /\ \A u \in Evaluations : Fit(job'[u])
           /\ job'[v] = new
           /\ \A u \in Evaluations \ {v} : job'[u] = job[u]
BY DEF JobGoes, Typed, TypeOK, Fit

\* Worker w goes on to x, the others stay.
WorkGoes(w, x) ==
    /\ x \in Work
    /\ x.pc # "idle" => x.v \in Evaluations
    /\ work' = [work EXCEPT ![w] = x]

LEMMA WorksTyped ==
    ASSUME Typed, NEW w \in Workers, NEW x, WorkGoes(w, x)
    PROVE  /\ work' \in [Workers -> Work]
           /\ \A u \in Workers : work'[u].pc # "idle" => work'[u].v \in Evaluations
           /\ work'[w] = x
           /\ \A u \in Workers \ {w} : work'[u] = work[u]
BY DEF WorkGoes, Typed, TypeOK

LEMMA IdleTyped == Idle \in Work /\ Idle.pc = "idle" /\ Idle.found = 0
BY DEF Idle, Work

\* The row that worker w found, with its count.
Increased(w) == [date |-> bucket[work[w].found].date,
                 count |-> bucket[work[w].found].count + CountOf[work[w].v]]

\* What is written to the buckets.
LEMMA WrittenTyped ==
    ASSUME Typed, NEW w \in Workers, work[w].pc = "write", live
    PROVE  /\ Written(w) \in Seq(Bucket)
           /\ work[w].found = 0 =>
                /\ Len(Written(w)) = Len(bucket) + 1
                /\ Written(w) = Append(bucket, [date |-> work[w].date, count |-> CountOf[work[w].v]])
           /\ work[w].found # 0 =>
                /\ Len(Written(w)) = Len(bucket)
                /\ work[w].found \in 1..Len(bucket)
                /\ Written(w)[work[w].found] = Increased(w)
                /\ \A i \in 1..Len(bucket) : i # work[w].found => Written(w)[i] = bucket[i]
<1> DEFINE new == [date |-> work[w].date, count |-> CountOf[work[w].v]]
           f == work[w].found
           more == Increased(w)
<1>1. /\ work[w].v \in Evaluations /\ work[w].date \in 0..LastDay
      /\ bucket \in Seq(Bucket) /\ Len(bucket) \in Nat /\ f \in 0..Len(bucket)
  BY DEF Typed, TypeOK, Work
<1>2. CountOf[work[w].v] \in Nat /\ new \in Bucket
  BY <1>1 DEF Bucket
<1>3. CASE f = 0
  <2>1. Written(w) = Append(bucket, new)
    BY <1>3 DEF Written
  <2> QED BY <1>1, <1>2, <1>3, <2>1, AppendProperties
<1>4. CASE f # 0
  <2>1. f \in 1..Len(bucket)
    BY <1>1, <1>4
  <2>2. bucket[f] \in Bucket
    BY <1>1, <2>1, ElementOfSeq
  <2>3. more \in Bucket
    BY <1>2, <2>2 DEF Bucket, Increased
  <2>4. Written(w) = [bucket EXCEPT ![f] = more]
    <3>1. [bucket[f] EXCEPT !.count = bucket[f].count + CountOf[work[w].v]] = more
      BY <2>2 DEF Bucket, Increased
    <3> HIDE DEF more
    <3>2. Written(w) = [bucket EXCEPT ![f] = more]
      BY <1>4, <3>1 DEF Written
    <3> QED BY <3>2
  <2>5. /\ Written(w) \in Seq(Bucket) /\ Len(Written(w)) = Len(bucket)
        /\ \A i \in 1..Len(bucket) : Written(w)[i] = IF i = f THEN more ELSE bucket[i]
    <3> HIDE DEF more, f
    <3> QED BY <1>1, <2>1, <2>3, <2>4, ExceptSeq
  <2> QED BY <1>1, <1>4, <2>1, <2>5
<1> QED BY <1>3, <1>4

\* A bucket that was found has its place, and keeps it.
LEMMA FoundWritten ==
    ASSUME Typed, NEW w \in Workers, work[w].pc = "write", live, work[w].found # 0,
           bucket' = Written(w)
    PROVE  /\ bucket' \in Seq(Bucket) /\ Len(bucket') = Len(bucket)
           /\ work[w].found \in 1..Len(bucket)
           /\ bucket'[work[w].found] = Increased(w)
           /\ \A i \in 1..Len(bucket) : i # work[w].found => bucket'[i] = bucket[i]
<1>1. Written(w) \in Seq(Bucket) /\ Len(Written(w)) = Len(bucket) /\ work[w].found \in 1..Len(bucket)
  BY WrittenTyped
<1>2. /\ Written(w)[work[w].found] = Increased(w)
      /\ \A i \in 1..Len(bucket) : i # work[w].found => Written(w)[i] = bucket[i]
  BY WrittenTyped
<1> QED BY <1>1, <1>2, Zenon

LEMMA TypedInit == Init => Typed
<1> SUFFICES ASSUME Init PROVE Typed
  OBVIOUS
<1>1. bucket \in Seq(Bucket) /\ Len(bucket) = 0
  BY EmptySeq DEF Init
<1>2. \A w \in Workers : work[w] = Idle
  BY DEF Init
<1>3. \A v \in Evaluations : job[v] = NoJob
  BY DEF Init
<1>4. TypeOK
  BY <1>1, <1>2, <1>3, NewFit, IdleTyped DEF Init, TypeOK, Fit
<1> QED BY <1>2, <1>3, <1>4, NewFit, IdleTyped DEF Typed

\* What FindBucket and the writing actions find.
LEMMA FindStep ==
    ASSUME Typed, NEW w \in Workers, FindBucket(w)
    PROVE  \E i \in 0..Len(bucket), x \in Work :
             /\ WorkGoes(w, x)
             /\ x.pc = "write" /\ x.v = work[w].v /\ x.date = work[w].date /\ x.found = i
             /\ i = 0 <=> BucketsOf(work[w].date) = {}
<1>1. PICK i \in IF BucketsOf(work[w].date) = {} THEN {0} ELSE BucketsOf(work[w].date) :
        work' = [work EXCEPT ![w] =
                   [pc |-> "write", v |-> @.v, date |-> @.date, found |-> i]]
  BY DEF FindBucket
<1>2. i \in 0..Len(bucket) /\ (i = 0 <=> BucketsOf(work[w].date) = {}) /\ Len(bucket) \in Nat
  BY <1>1 DEF BucketsOf, Typed, TypeOK
<1> DEFINE x == [pc |-> "write", v |-> work[w].v, date |-> work[w].date, found |-> i]
<1>3. work[w] \in Work /\ work \in [Workers -> Work]
  BY DEF Typed, TypeOK
<1>4. work[w].v \in Evaluations
  BY DEF FindBucket, Typed
<1>5. work' = [work EXCEPT ![w] = x]
  BY <1>1
<1>6. x \in Work
  BY <1>2, <1>3 DEF Work
<1> HIDE DEF x
<1>7. WorkGoes(w, x)
  BY <1>4, <1>5, <1>6 DEF WorkGoes, x
<1>8. x.pc = "write" /\ x.v = work[w].v /\ x.date = work[w].date /\ x.found = i
  BY DEF x
<1> QED BY <1>2, <1>6, <1>7, <1>8

\* What a worker does with its job and its own state; what it may do to the buckets
\* comes apart from that.
Ends(w) == /\ WorkGoes(w, Idle)
           /\ \E new : /\ JobGoes(work[w].v, new)
                       /\ new \in {Settle(job[work[w].v], w, Rejected(job[work[w].v])),
                                   Settle(job[work[w].v], w, Resolved(job[work[w].v]))}

LEMMA EndsBy ==
    ASSUME Typed, NEW w \in Workers, work[w].pc # "idle"
    PROVE  /\ Reject(w) => Ends(w)
           /\ Finish(w) => Ends(w)
<1>1. work[w].v \in Evaluations /\ Fit(job[work[w].v])
  BY DEF Typed
<1>2. work' = [work EXCEPT ![w] = Idle] => WorkGoes(w, Idle)
  BY IdleTyped DEF WorkGoes
<1> QED BY <1>1, <1>2, FitByWorker DEF Reject, Finish, Ends, JobGoes

LEMMA TypedKept ==
    ASSUME Typed,
           job' = job \/ (\E v, new : JobGoes(v, new)),
           work' = work \/ (\E w \in Workers : \E x : WorkGoes(w, x)),
           todo' \subseteq Evaluations, live' \in BOOLEAN, day' \in 0..LastDay,
           bucket' \in Seq(Bucket), applied' \in [Evaluations -> Nat],
           faults' \in 0..MaxFaults, stops' \in 0..MaxStops,
           \A w \in Workers : live' => work'[w].found \in 0..Len(bucket')
    PROVE  Typed'
<1>1. job' \in [Evaluations -> Job] /\ \A v \in Evaluations : Fit(job'[v])
  <2>1. CASE job' = job
    BY <2>1 DEF Typed, TypeOK
  <2> QED BY <2>1, JobsFit
<1>2. /\ work' \in [Workers -> Work]
      /\ \A u \in Workers : work'[u].pc # "idle" => work'[u].v \in Evaluations
  <2>1. CASE work' = work
    BY <2>1 DEF Typed, TypeOK
  <2> QED BY <2>1, WorksTyped
<1>3. TypeOK'
  BY <1>1, <1>2 DEF TypeOK
<1> QED BY <1>1, <1>2, <1>3 DEF Typed

\* One more fault, or one more stop.
LEMMA Numbers ==
    ASSUME Typed
    PROVE  /\ faults \in 0..MaxFaults /\ stops \in 0..MaxStops
           /\ faults < MaxFaults => faults + 1 \in 0..MaxFaults
           /\ stops < MaxStops => stops + 1 \in 0..MaxStops
           /\ day \in 0..LastDay
           /\ day < LastDay => day + 1 \in 0..LastDay
BY DEF Typed, TypeOK

\* The count of worker w's evaluation.
LEMMA CountedTyped ==
    ASSUME Typed, NEW w \in Workers, work[w].pc = "write", live, Counted(w)
    PROVE  /\ bucket' \in Seq(Bucket)
           /\ applied' \in [Evaluations -> Nat]
           /\ Len(bucket') \in Nat /\ Len(bucket') >= Len(bucket)
<1>1. bucket' = Written(w) /\ applied' = [applied EXCEPT ![work[w].v] = @ + 1]
  BY DEF Counted
<1>2. bucket' \in Seq(Bucket) /\ Len(bucket') \in {Len(bucket), Len(bucket) + 1}
  BY <1>1, WrittenTyped
<1>3. bucket \in Seq(Bucket) /\ Len(bucket) \in Nat
  BY DEF Typed, TypeOK
<1>4. applied' \in [Evaluations -> Nat]
  BY <1>1 DEF Typed, TypeOK
<1> QED BY <1>2, <1>3, <1>4

LEMMA TypedStep ==
    ASSUME Typed, [Next]_vars
    PROVE  Typed'
<1> DEFINE Jobs == job' = job \/ (\E v, new : JobGoes(v, new))
           Works == work' = work \/ (\E w \in Workers : \E x : WorkGoes(w, x))
           Finds == \A w \in Workers : live' => work'[w].found \in 0..Len(bucket')
           Rows == bucket' \in Seq(Bucket) /\ applied' \in [Evaluations -> Nat]
           Rest == /\ todo' \subseteq Evaluations /\ live' \in BOOLEAN
                   /\ day' \in 0..LastDay
                   /\ faults' \in 0..MaxFaults /\ stops' \in 0..MaxStops
<1>0. SUFFICES Jobs /\ Works /\ Finds /\ Rows /\ Rest
  BY TypedKept
<1>1. /\ todo \subseteq Evaluations /\ live \in BOOLEAN
      /\ bucket \in Seq(Bucket) /\ Len(bucket) \in Nat /\ applied \in [Evaluations -> Nat]
      /\ \A w \in Workers : work[w] \in Work /\ (live => work[w].found \in 0..Len(bucket))
  BY DEF Typed, TypeOK
<1>2. work' = work /\ live' = live /\ bucket' = bucket => Finds
  BY <1>1
<1>3. ASSUME NEW w \in Workers, NEW x, WorkGoes(w, x), live' = live, Len(bucket') \in Nat,
             Len(bucket') >= Len(bucket), live => x.found \in 0..Len(bucket)
      PROVE  Works /\ Finds
  <2>1. work'[w] = x /\ \A u \in Workers \ {w} : work'[u] = work[u]
    BY <1>3, WorksTyped
  <2>2. ASSUME NEW u \in Workers, live' PROVE work'[u].found \in 0..Len(bucket')
    <3>1. work'[u].found \in 0..Len(bucket)
      BY <1>1, <1>3, <2>1, <2>2
    <3> QED BY <1>1, <1>3, <3>1
  <2> QED BY <1>3, <2>2
<1>4. ASSUME NEW w \in Workers, Ends(w), live' = live, Len(bucket') \in Nat, Len(bucket') >= Len(bucket)
      PROVE  Jobs /\ Works /\ Finds
  <2>1. WorkGoes(w, Idle) /\ Jobs
    BY <1>4 DEF Ends
  <2>2. Idle.found \in 0..Len(bucket)
    BY <1>1, IdleTyped
  <2> QED BY <1>3, <1>4, <2>1, <2>2
<1>5. ASSUME NEW v \in Evaluations, AddJob(v) \/ BackoffEnds(v) \/ StalledCheck(v)
      PROVE  Jobs /\ Works /\ Finds /\ Rows /\ Rest
  <2>1. \E new : JobGoes(v, new)
    BY <1>5, FitByQueue, NewFit DEF AddJob, BackoffEnds, StalledCheck, JobGoes, Typed
  <2> QED BY <1>1, <1>2, <1>5, <2>1, Numbers DEF AddJob, BackoffEnds, StalledCheck
<1>6. ASSUME RequestStops \/ NextDay PROVE Jobs /\ Works /\ Finds /\ Rows /\ Rest
  BY <1>1, <1>2, <1>6, Numbers DEF RequestStops, NextDay
<1>7. ASSUME RemoveReferred PROVE Jobs /\ Works /\ Finds /\ Rows /\ Rest
  BY <1>1, <1>7, Numbers, EmptySeq DEF RemoveReferred
<1>8. ASSUME NEW w \in Workers, NEW v \in Evaluations, Take(w, v)
      PROVE  Jobs /\ Works /\ Finds /\ Rows /\ Rest
  <2> DEFINE x == [Idle EXCEPT !.pc = "find", !.v = v, !.date = day]
  <2>1. x \in Work /\ x.v = v /\ x.found = 0
    BY Numbers DEF Idle, Work
  <2>2. work' = [work EXCEPT ![w] = x] /\ UNCHANGED <<todo, bucket, live, day, applied, faults, stops>>
    BY <1>8 DEF Take
  <2> HIDE DEF x
  <2>3. WorkGoes(w, x)
    BY <2>1, <2>2 DEF WorkGoes
  <2>4. JobGoes(v, TakenBy(job[v], w))
    BY <1>8, FitByWorker DEF Take, JobGoes, Typed
  <2>5. Works /\ Finds
    BY <1>1, <1>3, <2>1, <2>2, <2>3
  <2> QED BY <1>1, <2>2, <2>4, <2>5, Numbers
<1>9. ASSUME NEW w \in Workers, FindBucket(w) PROVE Jobs /\ Works /\ Finds /\ Rows /\ Rest
  <2>1. UNCHANGED <<todo, job, bucket, live, day, applied, faults, stops>>
    BY <1>9 DEF FindBucket
  <2>2. PICK i \in 0..Len(bucket), x \in Work : WorkGoes(w, x) /\ x.found = i
    BY <1>9, FindStep
  <2>3. Works /\ Finds
    BY <1>1, <1>3, <2>1, <2>2
  <2> QED BY <1>1, <2>1, <2>3, Numbers
<1>10. ASSUME NEW w \in Workers, WriteBucket(w) PROVE Jobs /\ Works /\ Finds /\ Rows /\ Rest
  <2> DEFINE x == [work[w] EXCEPT !.pc = "done"]
  <2>1. Counted(w) /\ live /\ work[w].pc = "write" /\ UNCHANGED <<todo, job, live, day, faults, stops>>
    BY <1>10 DEF WriteBucket
  <2>2. work' = [work EXCEPT ![w] = x]
    BY <1>10 DEF WriteBucket
  <2>3. x \in Work /\ x.v \in Evaluations /\ x.found = work[w].found
    BY <1>1, <2>1 DEF Work, Typed
  <2> HIDE DEF x
  <2>4. WorkGoes(w, x)
    BY <2>2, <2>3 DEF WorkGoes
  <2>5. Rows /\ Len(bucket') \in Nat /\ Len(bucket') >= Len(bucket)
    BY <2>1, CountedTyped
  <2>6. Works /\ Finds
    BY <1>1, <1>3, <2>1, <2>3, <2>4, <2>5
  <2> QED BY <1>1, <2>1, <2>5, <2>6, Numbers
<1>11. ASSUME NEW w \in Workers, WriteRefused(w) \/ Finish(w)
       PROVE  Jobs /\ Works /\ Finds /\ Rows /\ Rest
  <2>1. Ends(w) /\ UNCHANGED <<todo, bucket, live, day, applied, faults, stops>>
    BY <1>11, EndsBy DEF WriteRefused, Finish
  <2>2. Jobs /\ Works /\ Finds
    BY <1>1, <1>4, <2>1
  <2> QED BY <1>1, <2>1, <2>2, Numbers
<1>12. ASSUME NEW w \in Workers, TransactionFails(w) PROVE Jobs /\ Works /\ Finds /\ Rows /\ Rest
  <2>1. Ends(w) /\ UNCHANGED <<todo, live, day, stops>> /\ faults < MaxFaults /\ faults' = faults + 1
    BY <1>12, EndsBy DEF TransactionFails
  <2>2. Rows /\ Len(bucket') \in Nat /\ Len(bucket') >= Len(bucket)
    BY <1>1, <1>12, CountedTyped DEF TransactionFails
  <2>3. Jobs /\ Works /\ Finds
    BY <1>4, <2>1, <2>2
  <2> QED BY <1>1, <2>1, <2>2, <2>3, Numbers
<1>13. ASSUME NEW w \in Workers, WorkerLosesLock(w) PROVE Jobs /\ Works /\ Finds /\ Rows /\ Rest
  <2>1. \E v \in Evaluations : JobGoes(v, Unlocked(job[v]))
    BY <1>13, FitByQueue DEF WorkerLosesLock, JobGoes, Typed
  <2>2. /\ stops < MaxStops /\ stops' = stops + 1
        /\ UNCHANGED <<todo, bucket, live, day, applied, faults>>
        /\ work' = work \/ work' = [work EXCEPT ![w] = Idle]
    BY <1>13 DEF WorkerLosesLock
  <2>3. CASE work' = work
    BY <1>1, <1>2, <2>1, <2>2, <2>3, Numbers
  <2>4. CASE work' = [work EXCEPT ![w] = Idle]
    <3>1. WorkGoes(w, Idle) /\ Idle.found \in 0..Len(bucket)
      BY <1>1, <2>4, IdleTyped DEF WorkGoes
    <3>2. Works /\ Finds
      BY <1>1, <1>3, <2>2, <3>1
    <3> QED BY <1>1, <2>1, <2>2, <3>2, Numbers
  <2> QED BY <2>2, <2>3, <2>4
<1>14. CASE UNCHANGED vars
  BY <1>1, <1>2, <1>14, Numbers DEF vars
<1> QED
  BY <1>5, <1>6, <1>7, <1>8, <1>9, <1>10, <1>11, <1>12, <1>13, <1>14 DEF Next, StepWorker

LEMMA TypedAlways == Spec => []Typed
<1>1. Typed /\ [Next]_vars => Typed'
  BY TypedStep
<1> QED BY <1>1, TypedInit, PTL DEF Spec

\* TypeOK: whatever the number of evaluations, workers, faults and stops, no job is
\* tried or handed out more often than it may be, and while the rows of its key exist a
\* worker that found a bucket holds the place of one (MetricsProcessor).
THEOREM TypeCorrect == Spec => []TypeOK
<1>1. Typed => TypeOK
  BY DEF Typed
<1> QED BY <1>1, TypedAlways, PTL

-----------------------------------------------------------------------------
(* How often an evaluation is counted. Each time its job is added, tried   *)
(* again or handed out again pays for one count: the counts made, those    *)
(* that workers may still make, and the one a waiting job will lead to are *)
(* no more than have been paid for.                                        *)

MayCount(x, v) == x.v = v /\ x.pc \in {"find", "write"}

Trying(v) == {w \in Workers : MayCount(work[w], v)}

One(b) == IF b THEN 1 ELSE 0

\* What was paid for and is not kept for the job's next worker.
Budget(j) == 1 + j.made + j.stalls - One(j.state \in {"none", "waiting", "delayed"})

PaidFor(v) == applied[v] + Cardinality(Trying(v)) <= Budget(job[v])

Paid ==
    /\ \A v \in todo : job[v] = NoJob
    /\ \A v \in Evaluations : job[v].state = "completed" => applied[v] >= 1
    /\ \A w \in Workers : work[w].pc = "done" => applied[work[w].v] >= 1
    /\ \A v \in Evaluations : PaidFor(v)

LEMMA TryingFinite == \A v : IsFiniteSet(Trying(v)) /\ Cardinality(Trying(v)) \in Nat
BY FS_Subset, FS_CardinalityType DEF Trying

\* One worker goes on: those that may count v are one more, one less, or as many.
LEMMA TryingChange ==
    ASSUME Typed, NEW w \in Workers, NEW x, WorkGoes(w, x), NEW v
    PROVE  Cardinality(Trying(v)') = Cardinality(Trying(v)) + One(MayCount(x, v)) - One(MayCount(work[w], v))
<1>1. work'[w] = x /\ \A u \in Workers \ {w} : work'[u] = work[u]
  BY WorksTyped
<1> DEFINE old == Trying(v)
           new == Trying(v)'
<1>2. IsFiniteSet(old) /\ Cardinality(old) \in Nat
  BY TryingFinite
<1>3. new = IF MayCount(x, v) THEN old \cup {w} ELSE old \ {w}
  BY <1>1 DEF Trying, MayCount
<1>4. w \in old <=> MayCount(work[w], v)
  BY DEF Trying
<1> HIDE DEF old, new
<1>5. Cardinality(old \cup {w}) = IF w \in old THEN Cardinality(old) ELSE Cardinality(old) + 1
  BY <1>2, FS_AddElement
<1>6. Cardinality(old \ {w}) = IF w \in old THEN Cardinality(old) - 1 ELSE Cardinality(old)
  BY <1>2, FS_RemoveElement
<1>7. Cardinality(new) = Cardinality(old) + One(MayCount(x, v)) - One(MayCount(work[w], v))
  BY <1>2, <1>3, <1>4, <1>5, <1>6 DEF One
<1> QED BY <1>7 DEF old, new

\* What is done to a job never takes back what was paid for.
LEMMA BudgetByWorker ==
    ASSUME NEW j, Fit(j), NEW w \in Workers
    PROVE  /\ Budget(j) \in Nat
           /\ j.state = "waiting" => Budget(TakenBy(j, w)) = Budget(j) + 1
           /\ Budget(Settle(j, w, Rejected(j))) >= Budget(j)
           /\ Budget(Settle(j, w, Resolved(j))) >= Budget(j)
<1>0. w # Nobody /\ j.made \in Nat /\ j.stalls \in Nat
  BY DEF Fit, Job
<1>1. Budget(j) \in Nat
  BY <1>0 DEF Budget, One
<1>2. j.state = "waiting" => Budget(TakenBy(j, w)) = Budget(j) + 1
  BY <1>0 DEF Budget, One, TakenBy, Moved
<1>3. j.holder = w => j.state = "active"
  BY <1>0 DEF Fit
<1>4. j.holder = w => Budget(Rejected(j)) >= Budget(j)
  BY <1>0, <1>3 DEF Budget, One, Rejected, FailedOnce
<1>5. j.holder = w => Budget(Resolved(j)) >= Budget(j)
  BY <1>0, <1>3 DEF Budget, One, Resolved, Moved
<1> QED BY <1>1, <1>2, <1>4, <1>5 DEF Settle

LEMMA BudgetByQueue ==
    ASSUME NEW j, Fit(j)
    PROVE  /\ Budget(j) \in Nat
           /\ j.state = "delayed" => Budget(Promoted(j)) = Budget(j)
           /\ j.state = "active" => Budget(Unlocked(j)) = Budget(j)
           /\ IsStalled(j) => Budget(HandedOut(j)) >= Budget(j)
<1>0. j.made \in Nat /\ j.stalls \in Nat
  BY DEF Fit, Job
<1>1. Budget(j) \in Nat
  BY <1>0 DEF Budget, One
<1>2. j.state = "delayed" => Budget(Promoted(j)) = Budget(j)
  BY <1>0 DEF Budget, One, Promoted, Moved
<1>3. j.state = "active" => Budget(Unlocked(j)) = Budget(j)
  BY <1>0 DEF Budget, One, Unlocked, Moved
<1>4. IsStalled(j) => Budget(HandedOut(j)) >= Budget(j)
  BY <1>0 DEF Budget, One, IsStalled, HandedOut, Again, Moved
<1> QED BY <1>1, <1>2, <1>3, <1>4

LEMMA PaidInit == Init => Paid
<1> SUFFICES ASSUME Init PROVE Paid
  OBVIOUS
<1>1. ASSUME NEW v \in Evaluations PROVE PaidFor(v)
  <2>1. Trying(v) = {}
    BY DEF Init, Trying, MayCount, Idle
  <2>2. Cardinality(Trying(v)) = 0
    BY <2>1, FS_EmptySet
  <2>3. applied[v] = 0 /\ Budget(job[v]) = 0
    BY DEF Init, NoJob, Budget, One
  <2> QED BY <2>2, <2>3 DEF PaidFor
<1>2. \A v \in Evaluations : job[v].state # "completed"
  BY DEF Init, NoJob
<1>3. \A w \in Workers : work[w].pc # "done"
  BY DEF Init, Idle
<1> QED BY <1>1, <1>2, <1>3 DEF Paid, Init

\* A step of the queue or of the request: no worker moves and nothing is counted.
LEMMA PaidByQueue ==
    ASSUME Typed, Paid, NEW v, NEW new, JobGoes(v, new), UNCHANGED <<work, applied>>,
           todo' \subseteq todo, v \notin todo', new.state # "completed",
           Budget(new) >= Budget(job[v])
    PROVE  Paid'
<1>1. v \in Evaluations /\ job'[v] = new /\ \A u \in Evaluations \ {v} : job'[u] = job[u]
  BY JobsFit DEF JobGoes
<1>2. todo \subseteq Evaluations
  BY DEF Typed, TypeOK
<1>3. \A u \in todo' : job'[u] = NoJob
  BY <1>1, <1>2 DEF Paid
<1>4. \A u \in Evaluations : job'[u].state = "completed" => applied'[u] >= 1
  BY <1>1 DEF Paid
<1>5. ASSUME NEW u \in Evaluations PROVE PaidFor(u)'
  <2>1. Trying(u)' = Trying(u)
    BY DEF Trying
  <2>2. Fit(new) /\ Fit(job[u]) /\ applied[u] \in Nat
    BY DEF JobGoes, Typed, TypeOK
  <2>3. Budget(new) \in Nat /\ Budget(job[u]) \in Nat /\ Cardinality(Trying(u)) \in Nat
    BY <2>2, BudgetByQueue, TryingFinite
  <2>4. Budget(job'[u]) >= Budget(job[u])
    BY <1>1, <2>3
  <2>5. PaidFor(u)
    BY DEF Paid
  <2>6. Budget(job'[u]) \in Nat
    BY <1>1, <2>3
  <2> QED BY <2>1, <2>2, <2>3, <2>4, <2>5, <2>6 DEF PaidFor
<1> QED BY <1>3, <1>4, <1>5 DEF Paid

\* A step of worker w: its evaluation may be counted, and what it counted it may not
\* count again without being paid.
LEMMA PaidByWorker ==
    ASSUME Typed, Paid, NEW w \in Workers, NEW x, WorkGoes(w, x),
           todo' = todo, NEW v \in Evaluations, v \notin todo,
           \A u \in Evaluations \ {v} : /\ job'[u] = job[u] /\ applied'[u] = applied[u]
                                        /\ ~ MayCount(x, u) /\ ~ MayCount(work[w], u),
           Fit(job'[v]), applied'[v] \in Nat, applied'[v] >= applied[v],
           job'[v].state = "completed" => applied'[v] >= 1,
           x.pc = "done" => x.v = v /\ applied'[v] >= 1,
           applied'[v] + One(MayCount(x, v)) - Budget(job'[v])
             <= applied[v] + One(MayCount(work[w], v)) - Budget(job[v])
    PROVE  Paid'
<1>1. work'[w] = x /\ \A u \in Workers \ {w} : work'[u] = work[u]
  BY WorksTyped
<1>2. todo \subseteq Evaluations /\ applied \in [Evaluations -> Nat]
  BY DEF Typed, TypeOK
<1>3. \A u \in todo' : job'[u] = NoJob
  BY <1>2 DEF Paid
<1>4. \A u \in Evaluations : job'[u].state = "completed" => applied'[u] >= 1
  BY DEF Paid
<1>5. ASSUME NEW u \in Workers, work'[u].pc = "done" PROVE applied'[work'[u].v] >= 1
  <2>1. CASE u = w
    BY <1>1, <1>5, <2>1
  <2>2. CASE u # w
    <3>1. work[u].pc = "done" /\ work'[u].v = work[u].v /\ work[u].v \in Evaluations
      BY <1>1, <1>5, <2>2 DEF Typed
    <3>2. applied[work[u].v] >= 1
      BY <3>1 DEF Paid
    <3> QED BY <1>2, <3>1, <3>2
  <2> QED BY <2>1, <2>2
<1>6. ASSUME NEW u \in Evaluations PROVE PaidFor(u)'
  <2>1. Cardinality(Trying(u)') = Cardinality(Trying(u)) + One(MayCount(x, u)) - One(MayCount(work[w], u))
    BY TryingChange
  <2>2. PaidFor(u) /\ Fit(job[u]) /\ applied[u] \in Nat
    BY <1>2 DEF Paid, Typed
  <2>3. Budget(job[u]) \in Nat /\ Cardinality(Trying(u)) \in Nat
    BY <2>2, BudgetByQueue, TryingFinite
  <2>4. CASE u = v
    <3>1. Budget(job'[v]) \in Nat
      BY BudgetByQueue
    <3> DEFINE new == Cardinality(Trying(v)')
               old == Cardinality(Trying(v))
               gain == One(MayCount(x, v))
               loss == One(MayCount(work[w], v))
    <3>2. gain \in {0, 1} /\ loss \in {0, 1}
      BY DEF One
    <3>3. new = old + gain - loss
      BY <2>1, <2>4
    <3>4. applied[v] + old <= Budget(job[v])
      BY <2>2, <2>4 DEF PaidFor
    <3>5. old \in Nat
      BY <2>3, <2>4
    <3>6. applied'[v] + gain - Budget(job'[v]) <= applied[v] + loss - Budget(job[v])
      OBVIOUS
    <3> HIDE DEF new, old, gain, loss
    <3>7. applied'[v] + new <= Budget(job'[v])
      BY <2>2, <2>3, <2>4, <3>1, <3>2, <3>3, <3>4, <3>5, <3>6
    <3> QED BY <2>4, <3>7 DEF PaidFor, new
  <2>5. CASE u # v
    <3>1. Cardinality(Trying(u)') = Cardinality(Trying(u))
      BY <2>1, <2>3, <2>5 DEF One
    <3> QED BY <2>2, <2>5, <3>1 DEF PaidFor
  <2> QED BY <2>4, <2>5
<1> QED BY <1>3, <1>4, <1>5, <1>6 DEF Paid

\* A worker that is done with its job: counted is how often it counted v just now,
\* at most once, and only while it may.
LEMMA PaidByEnd ==
    ASSUME Typed, Paid, NEW w \in Workers, Ends(w), todo' = todo, work[w].v \notin todo,
           applied' \in [Evaluations -> Nat],
           \A u \in Evaluations \ {work[w].v} : applied'[u] = applied[u],
           applied'[work[w].v] \in applied[work[w].v]..(applied[work[w].v] + One(work[w].pc = "write")),
           work[w].pc = "done" \/ job' = [job EXCEPT ![work[w].v] = Settle(@, w, Rejected(@))],
           work[w].pc # "idle"
    PROVE  Paid'
<1> DEFINE v == work[w].v
<1>1. PICK new : /\ JobGoes(v, new)
                 /\ new \in {Settle(job[v], w, Rejected(job[v])), Settle(job[v], w, Resolved(job[v]))}
  BY DEF Ends
<1>2. WorkGoes(w, Idle) /\ v \in Evaluations /\ Fit(new)
  BY <1>1 DEF Ends, JobGoes
<1>3. job'[v] = new /\ \A u \in Evaluations \ {v} : job'[u] = job[u]
  BY <1>1, JobsFit
<1>4. Fit(job[v]) /\ applied[v] \in Nat /\ applied'[v] \in Nat
  BY <1>2 DEF Typed, TypeOK
<1>5. Budget(new) >= Budget(job[v]) /\ Budget(job[v]) \in Nat /\ Budget(new) \in Nat
  BY <1>1, <1>2, <1>4, BudgetByWorker, BudgetByQueue
<1>6. \A u : ~ MayCount(Idle, u)
  BY DEF Idle, MayCount
<1>7. \A u \in Evaluations \ {v} : ~ MayCount(work[w], u)
  BY DEF MayCount
<1>8. new.state = "completed" => applied'[v] >= 1
  <2>1. job[v].state = "completed" => applied[v] >= 1
    BY <1>2 DEF Paid
  <2>2. CASE work[w].pc = "done"
    <3>1. applied[v] >= 1
      BY <2>2 DEF Paid
    <3> QED BY <1>4, <3>1
  <2>3. CASE job' = [job EXCEPT ![v] = Settle(@, w, Rejected(@))]
    <3>1. new = Settle(job[v], w, Rejected(job[v]))
      BY <1>2, <1>3, <2>3 DEF Typed, TypeOK
    <3>2. new.state = "completed" => new = job[v]
      BY <3>1 DEF Settle, Rejected, FailedOnce
    <3> QED BY <1>4, <2>1, <3>2
  <2> QED BY <2>2, <2>3
<1>9. applied'[v] + One(MayCount(Idle, v)) - Budget(new)
        <= applied[v] + One(MayCount(work[w], v)) - Budget(job[v])
  <2>1. One(MayCount(Idle, v)) = 0 /\ One(work[w].pc = "write") <= One(MayCount(work[w], v))
    BY <1>6 DEF One, MayCount
  <2>2. One(work[w].pc = "write") \in {0, 1} /\ One(MayCount(work[w], v)) \in {0, 1}
    BY DEF One
  <2>3. applied'[v] >= applied[v] /\ applied'[v] <= applied[v] + One(work[w].pc = "write")
    BY <1>4, <2>2
  <2> HIDE DEF v
  <2> QED BY <1>4, <1>5, <2>1, <2>2, <2>3 DEF v
<1>10. Idle.pc # "done" /\ applied'[v] >= applied[v]
  <2>1. One(work[w].pc = "write") \in {0, 1}
    BY DEF One
  <2> QED BY <1>4, <2>1 DEF Idle
<1> HIDE DEF v
<1> QED BY <1>2, <1>3, <1>4, <1>6, <1>7, <1>8, <1>9, <1>10, PaidByWorker DEF v

\* An evaluation whose job is still to be added is with no worker.
Adding == \A w \in Workers : work[w].pc # "idle" => work[w].v \notin todo

LEMMA AddingStep ==
    ASSUME Typed, Paid, Adding, [Next]_vars
    PROVE  Adding'
<1>1. todo' \subseteq todo
  BY DEF Next, StepWorker, AddJob, BackoffEnds, StalledCheck, RequestStops, Take, FindBucket,
         WriteBucket, WriteRefused, TransactionFails, Finish, WorkerLosesLock, NextDay,
         RemoveReferred, vars
<1>2. \A u \in Workers : work[u].pc # "idle" => work[u].v \notin todo'
  BY <1>1 DEF Adding
<1>3. work' = work => Adding'
  BY <1>2 DEF Adding
<1>4. ASSUME NEW w \in Workers, NEW x, WorkGoes(w, x), x.pc # "idle" => x.v \notin todo
      PROVE  Adding'
  <2>1. work'[w] = x /\ \A u \in Workers \ {w} : work'[u] = work[u]
    BY <1>4, WorksTyped
  <2> QED BY <1>1, <1>2, <1>4, <2>1 DEF Adding
<1>5. \A w \in Workers : work' = [work EXCEPT ![w] = Idle] => Adding'
  BY <1>4, IdleTyped DEF WorkGoes
<1>6. ASSUME NEW w \in Workers, NEW v \in Evaluations, Take(w, v) PROVE Adding'
  <2> DEFINE x == [Idle EXCEPT !.pc = "find", !.v = v, !.date = day]
  <2>1. x \in Work /\ x.v = v
    BY Numbers DEF Idle, Work
  <2>2. work' = [work EXCEPT ![w] = x]
    BY <1>6 DEF Take
  <2> HIDE DEF x
  <2>3. WorkGoes(w, x)
    BY <2>1, <2>2 DEF WorkGoes
  <2>4. v \notin todo
    BY <1>6 DEF Take, Paid, NoJob
  <2> QED BY <1>4, <2>1, <2>3, <2>4
<1>7. ASSUME NEW w \in Workers, FindBucket(w) PROVE Adding'
  <2>1. PICK x \in Work : WorkGoes(w, x) /\ x.v = work[w].v
    BY <1>7, FindStep
  <2>2. work[w].v \notin todo
    BY <1>7 DEF FindBucket, Adding
  <2> QED BY <1>4, <2>1, <2>2
<1>8. ASSUME NEW w \in Workers, WriteBucket(w) PROVE Adding'
  <2> DEFINE x == [work[w] EXCEPT !.pc = "done"]
  <2>1. x \in Work /\ x.v = work[w].v /\ work[w].v \in Evaluations /\ work[w].v \notin todo
    BY <1>8 DEF WriteBucket, Typed, TypeOK, Work, Adding
  <2>2. work' = [work EXCEPT ![w] = x]
    BY <1>8 DEF WriteBucket
  <2> HIDE DEF x
  <2> QED BY <1>4, <2>1, <2>2 DEF WorkGoes
<1>9. ASSUME NEW w \in Workers, WriteRefused(w) \/ TransactionFails(w) \/ Finish(w)
      PROVE  Adding'
  BY <1>5, <1>9 DEF WriteRefused, TransactionFails, Finish, Reject
<1>10. ASSUME NEW w \in Workers, WorkerLosesLock(w) PROVE Adding'
  BY <1>3, <1>5, <1>10 DEF WorkerLosesLock
<1>11. ASSUME NEW v \in Evaluations, AddJob(v) \/ BackoffEnds(v) \/ StalledCheck(v) PROVE Adding'
  BY <1>3, <1>11 DEF AddJob, BackoffEnds, StalledCheck
<1>12. RequestStops \/ NextDay \/ RemoveReferred \/ UNCHANGED vars => Adding'
  BY <1>3 DEF RequestStops, NextDay, RemoveReferred, vars
<1> QED BY <1>6, <1>7, <1>8, <1>9, <1>10, <1>11, <1>12 DEF Next, StepWorker

LEMMA PaidStep ==
    ASSUME Typed, Paid, Adding, [Next]_vars
    PROVE  Paid'
<1>1. ASSUME NEW v \in Evaluations, AddJob(v) PROVE Paid'
  <2>1. job[v] = NoJob /\ v \notin todo' /\ todo' \subseteq todo
    BY <1>1 DEF AddJob, Paid
  <2>2. Budget(Added) = Budget(NoJob) /\ Budget(NoJob) = 0 /\ Added.state # "completed"
    BY DEF Budget, One, Added, NoJob, Moved
  <2>3. JobGoes(v, Added) /\ UNCHANGED <<work, applied>>
    BY <1>1, NewFit DEF AddJob, JobGoes
  <2> QED BY <2>1, <2>2, <2>3, PaidByQueue
<1>2. ASSUME NEW v \in Evaluations, BackoffEnds(v) \/ StalledCheck(v) PROVE Paid'
  <2>1. PICK new : new = IF BackoffEnds(v) THEN Promoted(job[v]) ELSE HandedOut(job[v])
    OBVIOUS
  <2>2. Fit(job[v])
    BY DEF Typed
  <2>3. JobGoes(v, new) /\ UNCHANGED <<work, applied, todo>>
    BY <1>2, <2>1, <2>2, FitByQueue DEF BackoffEnds, StalledCheck, JobGoes
  <2>4. Budget(new) >= Budget(job[v])
    BY <1>2, <2>1, <2>2, BudgetByQueue DEF BackoffEnds, StalledCheck
  <2>5. new.state # "completed" /\ v \notin todo
    BY <1>2, <2>1 DEF BackoffEnds, StalledCheck, IsStalled, Promoted, HandedOut, Again, Moved, Paid, NoJob
  <2> QED BY <2>3, <2>4, <2>5, PaidByQueue
<1>3. ASSUME NEW w \in Workers, NEW v \in Evaluations, Take(w, v) PROVE Paid'
  <2> DEFINE x == [Idle EXCEPT !.pc = "find", !.v = v, !.date = day]
  <2>1. x \in Work /\ x.v = v /\ x.pc = "find"
    BY Numbers DEF Idle, Work
  <2>2. work' = [work EXCEPT ![w] = x] /\ UNCHANGED <<todo, applied>>
    BY <1>3 DEF Take
  <2> HIDE DEF x
  <2>3. WorkGoes(w, x)
    BY <2>1, <2>2 DEF WorkGoes
  <2>4. Fit(job[v]) /\ job[v].state = "waiting" /\ v \notin todo /\ work[w].pc = "idle"
    BY <1>3 DEF Typed, Take, Paid, NoJob
  <2>5. JobGoes(v, TakenBy(job[v], w))
    BY <1>3, <2>4, FitByWorker DEF Take, JobGoes
  <2>6. job'[v] = TakenBy(job[v], w) /\ \A u \in Evaluations \ {v} : job'[u] = job[u]
    BY <2>5, JobsFit
  <2>7. Budget(job'[v]) = Budget(job[v]) + 1 /\ Budget(job[v]) \in Nat /\ Fit(job'[v])
    BY <2>4, <2>5, <2>6, BudgetByWorker DEF JobGoes
  <2>8. job'[v].state # "completed"
    BY <2>6 DEF TakenBy, Moved
  <2>9. /\ \A u \in Evaluations \ {v} : ~ MayCount(x, u) /\ ~ MayCount(work[w], u)
        /\ One(MayCount(x, v)) = 1 /\ One(MayCount(work[w], v)) = 0
    BY <2>1, <2>4 DEF MayCount, One
  <2>10. applied'[v] = applied[v] /\ applied[v] \in Nat
    BY <2>2 DEF Typed, TypeOK
  <2>11. applied'[v] + One(MayCount(x, v)) - Budget(job'[v])
             <= applied[v] + One(MayCount(work[w], v)) - Budget(job[v])
    BY <2>7, <2>9, <2>10
  <2>12. applied'[v] >= applied[v] /\ x.pc # "done"
    BY <2>1, <2>10
  <2> QED BY <2>2, <2>3, <2>4, <2>6, <2>7, <2>8, <2>9, <2>10, <2>11, <2>12, PaidByWorker
<1>4. ASSUME NEW w \in Workers, FindBucket(w) PROVE Paid'
  <2>1. PICK x \in Work : WorkGoes(w, x) /\ x.v = work[w].v /\ x.pc = "write"
    BY <1>4, FindStep
  <2>2. UNCHANGED <<todo, job, applied>> /\ work[w].pc = "find"
    BY <1>4 DEF FindBucket
  <2>3. PICK v \in Evaluations : v = work[w].v
    BY <2>2 DEF Typed
  <2>4. v \notin todo /\ Fit(job[v]) /\ applied[v] \in Nat
    BY <2>2, <2>3 DEF Typed, TypeOK, Adding
  <2>5. job[v].state = "completed" => applied[v] >= 1
    BY DEF Paid
  <2>6. /\ \A u \in Evaluations \ {v} : ~ MayCount(x, u) /\ ~ MayCount(work[w], u)
        /\ One(MayCount(x, v)) = 1 /\ One(MayCount(work[w], v)) = 1
    BY <2>1, <2>2, <2>3 DEF MayCount, One
  <2>7. Budget(job[v]) \in Nat
    BY <2>4, BudgetByQueue
  <2>8. x.pc # "done"
    BY <2>1
  <2>9. /\ applied'[v] + One(MayCount(x, v)) - Budget(job'[v])
             <= applied[v] + One(MayCount(work[w], v)) - Budget(job[v])
        /\ applied'[v] >= applied[v] /\ job'[v] = job[v] /\ applied'[v] = applied[v]
    BY <2>2, <2>4, <2>6, <2>7
  <2> QED BY <2>1, <2>2, <2>4, <2>5, <2>6, <2>8, <2>9, PaidByWorker
<1>5. ASSUME NEW w \in Workers, WriteBucket(w) PROVE Paid'
  <2> DEFINE x == [work[w] EXCEPT !.pc = "done"]
  <2>1. PICK v \in Evaluations : v = work[w].v
    BY <1>5 DEF WriteBucket, Typed
  <2>2. work[w].pc = "write" /\ UNCHANGED <<todo, job>> /\ Counted(w) /\ live
    BY <1>5 DEF WriteBucket
  <2>3. x \in Work /\ x.v = v /\ x.pc = "done"
    BY <2>1 DEF Typed, TypeOK, Work
  <2>4. work' = [work EXCEPT ![w] = x]
    BY <1>5 DEF WriteBucket
  <2> HIDE DEF x
  <2>5. WorkGoes(w, x)
    BY <2>3, <2>4 DEF WorkGoes
  <2>6. v \notin todo /\ Fit(job[v]) /\ applied \in [Evaluations -> Nat]
    BY <2>1, <2>2 DEF Typed, TypeOK, Adding
  <2>7. applied' = [applied EXCEPT ![v] = @ + 1]
    BY <2>1, <2>2 DEF Counted
  <2>8. applied'[v] = applied[v] + 1 /\ \A u \in Evaluations \ {v} : applied'[u] = applied[u]
    BY <2>6, <2>7
  <2>9. /\ \A u \in Evaluations \ {v} : ~ MayCount(x, u) /\ ~ MayCount(work[w], u)
        /\ One(MayCount(x, v)) = 0 /\ One(MayCount(work[w], v)) = 1
    BY <2>1, <2>2, <2>3 DEF MayCount, One
  <2>10. Budget(job[v]) \in Nat
    BY <2>6, BudgetByQueue
  <2>11. /\ applied'[v] + One(MayCount(x, v)) - Budget(job'[v])
             <= applied[v] + One(MayCount(work[w], v)) - Budget(job[v])
         /\ applied'[v] \in Nat /\ applied'[v] >= applied[v] /\ applied'[v] >= 1
    BY <2>2, <2>6, <2>8, <2>9, <2>10
  <2> QED BY <2>2, <2>3, <2>5, <2>6, <2>8, <2>9, <2>11, PaidByWorker
<1>6. ASSUME NEW w \in Workers, WriteRefused(w) \/ TransactionFails(w) \/ Finish(w) PROVE Paid'
  <2>1. work[w].pc # "idle" /\ todo' = todo
    BY <1>6 DEF WriteRefused, TransactionFails, Finish
  <2>2. work[w].v \in Evaluations /\ work[w].v \notin todo
    BY <2>1 DEF Typed, Adding
  <2>3. Ends(w)
    BY <1>6, <2>1, EndsBy DEF WriteRefused, TransactionFails
  <2>4. applied \in [Evaluations -> Nat]
    BY DEF Typed, TypeOK
  <2>5. CASE applied' = applied
    <3>1. applied[work[w].v] \in applied[work[w].v]..(applied[work[w].v] + One(work[w].pc = "write"))
      BY <2>2, <2>4 DEF One
    <3>2. work[w].pc = "done" \/ job' = [job EXCEPT ![work[w].v] = Settle(@, w, Rejected(@))]
      BY <1>6 DEF WriteRefused, TransactionFails, Finish, Reject
    <3> QED BY <2>1, <2>2, <2>3, <2>4, <2>5, <3>1, <3>2, PaidByEnd
  <2>6. CASE TransactionFails(w) /\ work[w].pc = "write" /\ live /\ Counted(w)
    <3>1. applied' = [applied EXCEPT ![work[w].v] = @ + 1]
      BY <2>6 DEF Counted
    <3>2. /\ applied' \in [Evaluations -> Nat]
          /\ \A u \in Evaluations \ {work[w].v} : applied'[u] = applied[u]
          /\ applied'[work[w].v] \in applied[work[w].v]..(applied[work[w].v] + One(work[w].pc = "write"))
      BY <2>2, <2>4, <2>6, <3>1 DEF One
    <3>3. job' = [job EXCEPT ![work[w].v] = Settle(@, w, Rejected(@))]
      BY <2>6 DEF TransactionFails, Reject
    <3> QED BY <2>1, <2>2, <2>3, <3>2, <3>3, PaidByEnd
  <2> QED BY <1>6, <2>5, <2>6 DEF WriteRefused, TransactionFails, Finish
<1>7. ASSUME NEW w \in Workers, WorkerLosesLock(w) PROVE Paid'
  <2>1. PICK v \in Evaluations : job[v].state = "active" /\ job' = [job EXCEPT ![v] = Unlocked(@)]
    BY <1>7 DEF WorkerLosesLock
  <2>2. UNCHANGED <<todo, applied>> /\ (work' = work \/ work' = [work EXCEPT ![w] = Idle])
    BY <1>7 DEF WorkerLosesLock
  <2>3. Fit(job[v]) /\ v \notin todo /\ \A u \in Evaluations : applied[u] \in Nat
    BY <2>1 DEF Typed, TypeOK, Paid, NoJob
  <2>4. JobGoes(v, Unlocked(job[v])) /\ Budget(Unlocked(job[v])) = Budget(job[v])
    BY <2>1, <2>3, FitByQueue, BudgetByQueue DEF JobGoes
  <2>5. /\ job'[v] = Unlocked(job[v])
        /\ \A u \in Evaluations \ {v} : job'[u] = job[u]
        /\ Unlocked(job[v]).state # "completed"
    BY <2>1, <2>4, JobsFit DEF Unlocked, Moved
  <2>6. CASE work' = work
    <3>1. Budget(Unlocked(job[v])) >= Budget(job[v])
      BY <2>3, <2>4, BudgetByQueue
    <3> QED BY <2>2, <2>3, <2>4, <2>5, <2>6, <3>1, PaidByQueue
  <2>7. CASE work' = [work EXCEPT ![w] = Idle]
    <3>1. \A u \in Evaluations : Budget(job'[u]) = Budget(job[u])
      BY <2>4, <2>5
    <3>2. WorkGoes(w, Idle)
      BY <2>7, IdleTyped DEF WorkGoes
    <3>3. work'[w] = Idle /\ \A u \in Workers \ {w} : work'[u] = work[u]
      BY <3>2, WorksTyped
    <3>4. ASSUME NEW u \in Evaluations PROVE PaidFor(u)'
      <4>1. Cardinality(Trying(u)') = Cardinality(Trying(u)) + One(MayCount(Idle, u)) - One(MayCount(work[w], u))
        BY <3>2, TryingChange
      <4>2. One(MayCount(Idle, u)) = 0 /\ One(MayCount(work[w], u)) \in {0, 1}
        BY DEF Idle, MayCount, One
      <4>3. Cardinality(Trying(u)) \in Nat /\ Budget(job[u]) \in Nat /\ PaidFor(u)
        BY TryingFinite, BudgetByQueue DEF Typed, Paid
      <4> QED BY <2>2, <2>3, <3>1, <4>1, <4>2, <4>3 DEF PaidFor
    <3>5. \A u \in Evaluations : job'[u].state = "completed" => applied'[u] >= 1
      BY <2>2, <2>5 DEF Paid
    <3>6. \A u \in Workers : work'[u].pc = "done" => applied'[work'[u].v] >= 1
      BY <2>2, <3>3 DEF Paid, Idle
    <3>7. \A u \in todo' : job'[u] = NoJob
      BY <2>2, <2>3, <2>5 DEF Paid, Typed, TypeOK
    <3> QED BY <3>4, <3>5, <3>6, <3>7 DEF Paid
  <2> QED BY <2>2, <2>6, <2>7
<1>8. ASSUME UNCHANGED <<job, work, applied>>, todo' \subseteq todo PROVE Paid'
  <2>1. \A u : Trying(u)' = Trying(u)
    BY <1>8 DEF Trying
  <2>2. \A u \in Evaluations : PaidFor(u)'
    BY <1>8, <2>1 DEF Paid, PaidFor
  <2> QED BY <1>8, <2>2 DEF Paid
<1>9. RequestStops \/ NextDay \/ RemoveReferred \/ UNCHANGED vars => Paid'
  BY <1>8 DEF RequestStops, NextDay, RemoveReferred, vars
<1> QED BY <1>1, <1>2, <1>3, <1>4, <1>5, <1>6, <1>7, <1>9 DEF Next, StepWorker

\* CountedOncePerTry: whatever fails and whoever stops, a job that completed was
\* counted, and no evaluation is counted more often than its job was handed out
\* (MetricsProcessor.process and the attempts of app.module.ts).
THEOREM OncePerTry == Spec => []CountedOncePerTry
<1>1. Init => Adding
  BY DEF Init, Adding, Idle
<1>2. Typed /\ Paid /\ Adding /\ [Next]_vars => Paid' /\ Adding'
  BY PaidStep, AddingStep
<1>3. Typed /\ Paid => CountedOncePerTry
  <2> SUFFICES ASSUME Typed, Paid, NEW v \in Evaluations
               PROVE  applied[v] <= 1 + job[v].made + job[v].stalls
    BY DEF Paid, CountedOncePerTry
  <2>1. PaidFor(v) /\ Cardinality(Trying(v)) \in Nat /\ applied[v] \in Nat /\ Fit(job[v])
    BY TryingFinite DEF Paid, Typed, TypeOK
  <2>2. job[v].made \in Nat /\ job[v].stalls \in Nat
    BY <2>1 DEF Fit, Job
  <2>3. One(job[v].state \in {"none", "waiting", "delayed"}) \in {0, 1}
    BY DEF One
  <2> QED BY <2>1, <2>2, <2>3 DEF PaidFor, Budget
<1> QED BY <1>1, <1>2, <1>3, PaidInit, TypedAlways, PTL DEF Spec

-----------------------------------------------------------------------------
(* The buckets.                                                            *)

Rows(date) == {i \in 1..Len(bucket) : bucket[i].date = date}

\* Those that found no bucket of the date, and will create one.
Creators(date) == {w \in Workers : work[w].pc = "write" /\ work[w].found = 0 /\ work[w].date = date}

\* A worker becomes a creator only while the date has no bucket: from the first bucket
\* on, whoever creates another was one of them already.
Roomy == \A date \in 0..LastDay :
    Rows(date) = {} \/ Cardinality(Rows(date)) + Cardinality(Creators(date)) <= Cardinality(Workers)

Same == SumFunction([v \in Evaluations |-> applied[v] * CountOf[v]])

LEMMA RowsFinite == ASSUME Typed PROVE \A d : IsFiniteSet(Rows(d)) /\ Cardinality(Rows(d)) \in Nat
<1>1. Len(bucket) \in Nat
  BY DEF Typed, TypeOK
<1>2. IsFiniteSet(1..Len(bucket))
  BY <1>1, FS_Interval
<1> QED BY <1>2, FS_Subset, FS_CardinalityType DEF Rows

LEMMA CreatorsFinite ==
    /\ \A d : IsFiniteSet(Creators(d)) /\ Cardinality(Creators(d)) \in Nat
    /\ \A d : Cardinality(Creators(d)) <= Cardinality(Workers)
    /\ Cardinality(Workers) \in Nat
BY FS_Subset, FS_CardinalityType DEF Creators

\* A step counts an evaluation, or leaves the buckets and the counts alone, or the
\* rows that the buckets refer to go with them.
Counts(w) ==
    /\ work[w].pc = "write" /\ live /\ live' = live
    /\ Counted(w)
    /\ \E x : WorkGoes(w, x) /\ x.pc # "write"

LEMMA WhatIsCounted ==
    ASSUME Typed, [Next]_vars
    PROVE  \/ \E w \in Workers : Counts(w)
           \/ UNCHANGED <<bucket, applied, live>>
           \/ bucket' = <<>> /\ ~ live'
<1> DEFINE Goal == \/ \E w \in Workers : Counts(w)
                   \/ UNCHANGED <<bucket, applied, live>>
                   \/ bucket' = <<>> /\ ~ live'
<1>1. ASSUME NEW w \in Workers, WriteBucket(w) PROVE Goal
  <2> DEFINE x == [work[w] EXCEPT !.pc = "done"]
  <2>1. work[w] \in Work /\ work[w].v \in Evaluations
    BY <1>1 DEF WriteBucket, Typed, TypeOK
  <2>2. x \in Work /\ x.v = work[w].v /\ x.pc = "done"
    BY <2>1 DEF Work
  <2>3. work' = [work EXCEPT ![w] = x]
    BY <1>1 DEF WriteBucket
  <2> HIDE DEF x
  <2>4. WorkGoes(w, x)
    BY <2>1, <2>2, <2>3 DEF WorkGoes
  <2> QED BY <1>1, <2>2, <2>4 DEF Counts, WriteBucket
<1>2. ASSUME NEW w \in Workers, TransactionFails(w) PROVE Goal
  <2>1. Ends(w) /\ Idle.pc # "write"
    BY <1>2, EndsBy DEF TransactionFails, Idle
  <2> QED BY <1>2, <2>1 DEF Counts, Ends, TransactionFails
<1>3. RemoveReferred => Goal
  BY DEF RemoveReferred
<1>4. ASSUME NEW w \in Workers, StepWorker(w), ~ WriteBucket(w) PROVE Goal
  BY <1>4 DEF StepWorker, Take, FindBucket, WriteRefused, Finish
<1>5. \A w \in Workers : WorkerLosesLock(w) => Goal
  BY DEF WorkerLosesLock
<1>6. \A v \in Evaluations : AddJob(v) \/ BackoffEnds(v) \/ StalledCheck(v) => Goal
  BY DEF AddJob, BackoffEnds, StalledCheck
<1>7. RequestStops \/ NextDay \/ UNCHANGED vars => Goal
  BY DEF RequestStops, NextDay, vars
<1> QED BY <1>1, <1>2, <1>3, <1>4, <1>5, <1>6, <1>7 DEF Next

\* Only FindBucket makes creators.
LEMMA WhoCreates ==
    ASSUME Typed, [Next]_vars, NEW d
    PROVE  Creators(d)' \subseteq Creators(d) \/ (bucket' = bucket /\ Rows(d) = {})
<1> DEFINE Goal == Creators(d)' \subseteq Creators(d) \/ (bucket' = bucket /\ Rows(d) = {})
<1>1. work' = work => Goal
  BY DEF Creators
<1>2. ASSUME NEW w \in Workers, NEW x, WorkGoes(w, x),
             \/ x.pc # "write"
             \/ x.found # 0
             \/ bucket' = bucket /\ Rows(x.date) = {}
      PROVE  Goal
  <2>1. work'[w] = x /\ \A u \in Workers \ {w} : work'[u] = work[u]
    BY <1>2, WorksTyped
  <2> QED BY <1>2, <2>1 DEF Creators
<1>3. \A w \in Workers : work' = [work EXCEPT ![w] = Idle] => Goal
  BY <1>2, IdleTyped DEF WorkGoes
<1>4. ASSUME NEW w \in Workers, NEW v \in Evaluations, Take(w, v) PROVE Goal
  <2> DEFINE x == [Idle EXCEPT !.pc = "find", !.v = v, !.date = day]
  <2>1. x \in Work /\ x.v = v /\ x.pc = "find"
    BY Numbers DEF Idle, Work
  <2>2. work' = [work EXCEPT ![w] = x]
    BY <1>4 DEF Take
  <2> HIDE DEF x
  <2> QED BY <1>2, <2>1, <2>2 DEF WorkGoes
<1>5. ASSUME NEW w \in Workers, FindBucket(w) PROVE Goal
  <2>1. PICK i \in 0..Len(bucket), x \in Work :
          WorkGoes(w, x) /\ x.date = work[w].date /\ x.found = i /\ (i = 0 <=> BucketsOf(x.date) = {})
    BY <1>5, FindStep
  <2>2. BucketsOf(x.date) = Rows(x.date) /\ bucket' = bucket
    BY <1>5 DEF BucketsOf, Rows, FindBucket
  <2> QED BY <1>2, <2>1, <2>2
<1>6. ASSUME NEW w \in Workers, WriteBucket(w) PROVE Goal
  <2>1. \E x : WorkGoes(w, x) /\ x.pc # "write"
    <3> DEFINE x == [work[w] EXCEPT !.pc = "done"]
    <3>1. x \in Work /\ x.v \in Evaluations /\ x.pc = "done"
      BY <1>6 DEF WriteBucket, Typed, TypeOK, Work
    <3>2. work' = [work EXCEPT ![w] = x]
      BY <1>6 DEF WriteBucket
    <3> HIDE DEF x
    <3> QED BY <3>1, <3>2 DEF WorkGoes
  <2> QED BY <1>2, <2>1
<1>7. \A w \in Workers : WriteRefused(w) \/ TransactionFails(w) \/ Finish(w) \/ WorkerLosesLock(w) => Goal
  BY <1>1, <1>3 DEF WriteRefused, TransactionFails, Finish, WorkerLosesLock, Reject
<1>8. \A v \in Evaluations : AddJob(v) \/ BackoffEnds(v) \/ StalledCheck(v) => Goal
  BY <1>1 DEF AddJob, BackoffEnds, StalledCheck
<1>9. RequestStops \/ NextDay \/ RemoveReferred \/ UNCHANGED vars => Goal
  BY <1>1 DEF RequestStops, NextDay, RemoveReferred, vars
<1> QED BY <1>4, <1>5, <1>6, <1>7, <1>8, <1>9 DEF Next, StepWorker

LEMMA RoomyStep ==
    ASSUME Typed, Typed', Roomy, [Next]_vars
    PROVE  Roomy'
<1> SUFFICES ASSUME NEW d \in 0..LastDay
             PROVE  \/ Rows(d)' = {}
                    \/ Cardinality(Rows(d)') + Cardinality(Creators(d)') <= Cardinality(Workers)
  BY DEF Roomy
<1> DEFINE old == Rows(d)
           new == Rows(d)'
           before == Creators(d)
           after == Creators(d)'
<1>1. /\ IsFiniteSet(old) /\ Cardinality(old) \in Nat
      /\ IsFiniteSet(before) /\ Cardinality(before) \in Nat
      /\ Cardinality(before) <= Cardinality(Workers) /\ Cardinality(Workers) \in Nat
  BY RowsFinite, CreatorsFinite
<1>2. old = {} \/ Cardinality(old) + Cardinality(before) <= Cardinality(Workers)
  BY DEF Roomy
<1>3. ASSUME new = old, after \subseteq before \/ old = {}
      PROVE  new = {} \/ Cardinality(new) + Cardinality(after) <= Cardinality(Workers)
  <2> HIDE DEF old, new, before, after
  <2>1. CASE old = {}
    BY <1>3, <2>1
  <2>2. CASE after \subseteq before
    <3>1. Cardinality(after) \in Nat /\ Cardinality(after) <= Cardinality(before)
      BY <1>1, <2>2, FS_Subset, FS_CardinalityType
    <3> QED BY <1>1, <1>2, <1>3, <3>1
  <2> QED BY <1>3, <2>1, <2>2
<1>4. after \subseteq before \/ (bucket' = bucket /\ old = {})
  BY WhoCreates
<1>5. CASE bucket' = bucket
  <2>1. new = old
    BY <1>5 DEF Rows
  <2> QED BY <1>3, <1>4, <2>1
<1>6. CASE bucket' = <<>>
  <2>1. new = {}
    BY <1>6 DEF Rows
  <2> QED BY <2>1
<1>7. ASSUME NEW w \in Workers, Counts(w)
      PROVE  new = {} \/ Cardinality(new) + Cardinality(after) <= Cardinality(Workers)
  <2>1. bucket' = Written(w) /\ live /\ work[w].pc = "write"
    BY <1>7 DEF Counts, Counted
  <2>2. bucket \in Seq(Bucket) /\ Len(bucket) \in Nat /\ work[w] \in Work
    BY DEF Typed, TypeOK
  <2>3. CASE work[w].found # 0
    <3>0. /\ Len(bucket') = Len(bucket)
          /\ work[w].found \in 1..Len(bucket)
          /\ bucket'[work[w].found] = Increased(w)
          /\ \A i \in 1..Len(bucket) : i # work[w].found => bucket'[i] = bucket[i]
      BY <2>1, <2>3, FoundWritten
    <3>1. bucket'[work[w].found].date = bucket[work[w].found].date
      BY <3>0 DEF Increased
    <3>2. new = old
      BY <3>0, <3>1 DEF Rows
    <3>3. after \subseteq before \/ old = {}
      BY <1>4
    <3> QED BY <1>3, <3>2, <3>3
  <2>4. CASE work[w].found = 0
    <3> DEFINE n == Len(bucket) + 1
               row == [date |-> work[w].date, count |-> CountOf[work[w].v]]
    <3>1. bucket' = Append(bucket, row)
      BY <2>1, <2>4, WrittenTyped
    <3>2. /\ Len(bucket') = n /\ bucket'[n] = row
          /\ \A i \in 1..Len(bucket) : bucket'[i] = bucket[i]
      <4>1. row \in Bucket
        BY <1>7, <2>2 DEF Bucket, Work, Counts, Typed
      <4> HIDE DEF row
      <4> QED BY <2>2, <3>1, <4>1, AppendProperties
    <3>3. new = IF work[w].date = d THEN old \cup {n} ELSE old
      BY <2>2, <3>2 DEF Rows
    <3>4. after \subseteq before \ {w}
      <4>1. PICK x : WorkGoes(w, x) /\ x.pc # "write"
        BY <1>7 DEF Counts
      <4>2. work'[w] = x /\ \A u \in Workers \ {w} : work'[u] = work[u]
        BY <4>1, WorksTyped
      <4> QED BY <4>1, <4>2 DEF Creators
    <3>5. CASE work[w].date # d
      <4>1. new = old /\ after \subseteq before
        BY <3>3, <3>4, <3>5
      <4> HIDE DEF new, old, before, after
      <4> QED BY <1>3, <4>1
    <3>6. CASE work[w].date = d
      <4>1. w \in before
        BY <2>1, <2>4, <3>6 DEF Creators
      <4>2. n \notin old
        BY <2>2 DEF Rows
      <4>3. new = old \cup {n}
        BY <3>3, <3>6
      <4> HIDE DEF new, old, before, after, n
      <4>4. Cardinality(new) = Cardinality(old) + 1
        BY <1>1, <4>2, <4>3, FS_AddElement
      <4>5. IsFiniteSet(before \ {w}) /\ Cardinality(before \ {w}) = Cardinality(before) - 1
        BY <1>1, <4>1, FS_RemoveElement
      <4>6. Cardinality(after) \in Nat /\ Cardinality(after) <= Cardinality(before) - 1
        BY <3>4, <4>5, FS_Subset, FS_CardinalityType
      <4>7. CASE old = {}
        <5>1. Cardinality(old) = 0
          BY <4>7, FS_EmptySet
        <5> QED BY <1>1, <4>4, <4>6, <5>1
      <4>8. CASE Cardinality(old) + Cardinality(before) <= Cardinality(Workers)
        BY <1>1, <4>4, <4>6, <4>8
      <4> QED BY <1>2, <4>7, <4>8
    <3> QED BY <3>5, <3>6
  <2> QED BY <2>3, <2>4
<1> QED BY <1>5, <1>6, <1>7, WhatIsCounted

\* BucketPerProcess: however many evaluations are counted at once, a day has no more
\* buckets of a key than there are workers (MetricsProcessor.process looks for one
\* before it creates one).
THEOREM OneEach == Spec => []BucketPerProcess
<1>1. Init => Roomy
  BY DEF Init, Roomy, Rows
<1>2. Typed /\ Typed' /\ Roomy /\ [Next]_vars => Roomy'
  BY RoomyStep
<1>3. Typed /\ Roomy => BucketPerProcess
  <2> SUFFICES ASSUME Typed, Roomy, NEW d \in 0..LastDay
               PROVE  Cardinality({i \in DOMAIN bucket : bucket[i].date = d}) <= Cardinality(Workers)
    BY DEF BucketPerProcess
  <2> DEFINE here == {i \in DOMAIN bucket : bucket[i].date = d}
  <2>1. here = Rows(d)
    BY DEF Rows, Typed, TypeOK
  <2>2. Cardinality(Rows(d)) \in Nat /\ Cardinality(Creators(d)) \in Nat /\ Cardinality(Workers) \in Nat
    BY RowsFinite, CreatorsFinite
  <2>3. Rows(d) = {} => Cardinality(Rows(d)) = 0
    BY FS_EmptySet
  <2>4. Rows(d) = {} \/ Cardinality(Rows(d)) + Cardinality(Creators(d)) <= Cardinality(Workers)
    BY DEF Roomy
  <2> HIDE DEF here
  <2>5. Cardinality(here) <= Cardinality(Workers)
    BY <2>1, <2>2, <2>3, <2>4
  <2> QED BY <2>5 DEF here
<1> QED BY <1>1, <1>2, <1>3, TypedAlways, PTL DEF Spec

-----------------------------------------------------------------------------
(* The sums.                                                               *)

Summed == live => Exposures = Same

LEMMA SummedStep ==
    ASSUME Typed, Summed, [Next]_vars
    PROVE  Summed'
<1>1. CASE UNCHANGED <<bucket, applied, live>>
  BY <1>1 DEF Summed, Exposures, Same
<1>2. CASE ~ live'
  BY <1>2 DEF Summed
<1>3. ASSUME NEW w \in Workers, Counts(w) PROVE Exposures' = Same'
  <2>1. /\ bucket' = Written(w) /\ live /\ work[w].pc = "write"
        /\ applied' = [applied EXCEPT ![work[w].v] = @ + 1]
    BY <1>3 DEF Counts, Counted
  <2>2. /\ bucket \in Seq(Bucket) /\ Len(bucket) \in Nat /\ work[w].v \in Evaluations
        /\ applied \in [Evaluations -> Nat] /\ DOMAIN bucket = 1..Len(bucket)
    BY <2>1 DEF Typed, TypeOK
  <2> DEFINE v == work[w].v
             n == Len(bucket)
             c == CountOf[v]
             f == [i \in DOMAIN bucket |-> bucket[i].count]
             g == [i \in DOMAIN bucket' |-> bucket'[i].count]
             a == [u \in Evaluations |-> applied[u] * CountOf[u]]
             b == [u \in Evaluations |-> applied'[u] * CountOf[u]]
  <2>3. c \in Nat
    BY <2>2
  <2>4. \A i \in 1..n : f[i] = bucket[i].count /\ f[i] \in Int
    <3>1. \A i \in 1..n : bucket[i] \in Bucket
      BY <2>2, ElementOfSeq
    <3> QED BY <2>2, <3>1 DEF Bucket
  <2>5. SumFunction(a) \in Int /\ SumFunction(b) = SumFunction(a) + c
    <3>1. \A u \in Evaluations : a[u] \in Int /\ b[u] \in Int
      BY <2>1, <2>2
    <3>2. \A u \in Evaluations \ {v} : b[u] = a[u]
      BY <2>1, <2>2
    <3>3. b[v] - a[v] = c /\ v \in Evaluations
      <4>1. applied'[v] = applied[v] + 1 /\ applied[v] \in Nat
        BY <2>1, <2>2
      <4>2. (applied[v] + 1) * c = applied[v] * c + c /\ applied[v] * c \in Nat
        <5> HIDE DEF c
        <5> QED BY <2>3, <4>1, OnceMore, Zenon
      <4>3. b[v] = (applied[v] + 1) * c /\ a[v] = applied[v] * c
        BY <2>2, <4>1
      <4> HIDE DEF a, b, c
      <4> QED BY <2>2, <2>3, <4>2, <4>3
    <3>4. SumFunction(a) = SumFunctionOnSet(a, Evaluations) /\ SumFunction(b) = SumFunctionOnSet(b, Evaluations)
      BY DEF SumFunction
    <3> HIDE DEF a, b, c, v
    <3>5. SumFunctionOnSet(b, Evaluations) = SumFunctionOnSet(a, Evaluations) + b[v] - a[v]
      BY <3>1, <3>2, <3>3, SumChanged
    <3>6. SumFunctionOnSet(a, Evaluations) \in Int
      BY <3>1, SumType
    <3> QED BY <2>3, <3>1, <3>3, <3>4, <3>5, <3>6
  <2>6. IsFiniteSet(1..n) /\ SumFunction(f) = SumFunctionOnSet(f, 1..n) /\ SumFunction(f) \in Int
    <3>1. IsFiniteSet(1..n)
      BY <2>2, FS_Interval
    <3>2. SumFunction(f) = SumFunctionOnSet(f, 1..n)
      BY <2>2 DEF SumFunction
    <3> HIDE DEF f
    <3> QED BY <2>4, <3>1, <3>2, SumType
  <2>7. SumFunction(g) = SumFunction(f) + c
    <3>1. CASE work[w].found = 0
      <4> DEFINE row == [date |-> work[w].date, count |-> c]
      <4>1. bucket' = Append(bucket, row) /\ row \in Bucket /\ row.count = c
        BY <2>1, <2>2, <2>3, <3>1, WrittenTyped DEF Typed, TypeOK, Work, Bucket
      <4> HIDE DEF row
      <4>2. /\ DOMAIN bucket' = 1..n + 1
            /\ bucket'[n + 1] = row
            /\ \A i \in 1..n : bucket'[i] = bucket[i]
        BY <2>2, <4>1, AppendProperties
      <4>3. g[n + 1] = c /\ \A i \in 1..n : g[i] = f[i]
        BY <2>2, <2>4, <4>1, <4>2
      <4>4. SumFunction(g) = SumFunctionOnSet(g, 1..n + 1)
        BY <4>2 DEF SumFunction
      <4>5. IsFiniteSet(1..n + 1)
        BY <2>2, FS_Interval
      <4>6. (1..n + 1) \ {n + 1} = 1..n /\ n + 1 \in 1..n + 1
        BY <2>2
      <4>7. \A i \in 1..n + 1 : g[i] \in Int
        BY <2>2, <2>3, <2>4, <4>3
      <4> DEFINE S == 1..n
                 T == 1..n + 1
      <4>8. IsFiniteSet(S) /\ \A i \in S : f[i] \in Int /\ f[i] = g[i]
        BY <2>4, <2>6, <4>3
      <4>9. IsFiniteSet(T) /\ n + 1 \in T /\ T \ {n + 1} = S /\ \A i \in T : g[i] \in Int
        BY <4>5, <4>6, <4>7
      <4> HIDE DEF f, g, c, n, S, T
      <4>10. SumFunctionOnSet(g, T) = g[n + 1] + SumFunctionOnSet(g, T \ {n + 1})
        BY <4>9, SumFirst
      <4>11. SumFunctionOnSet(f, S) = SumFunctionOnSet(g, S)
        BY <4>8, SumSame
      <4>12. SumFunction(g) = SumFunctionOnSet(g, T) /\ SumFunction(f) = SumFunctionOnSet(f, S)
        BY <2>6, <4>4 DEF S, T
      <4>13. SumFunctionOnSet(g, T) = c + SumFunctionOnSet(f, S)
        BY <4>3, <4>9, <4>10, <4>11, Zenon
      <4>14. SumFunction(f) \in Int
        BY <2>6
      <4> QED BY <2>3, <4>12, <4>13, <4>14
    <3>2. CASE work[w].found # 0
      <4> DEFINE k == work[w].found
      <4>1. /\ k \in 1..n /\ bucket' \in Seq(Bucket) /\ Len(bucket') = n
            /\ bucket'[k] = Increased(w)
            /\ \A i \in 1..n : i # k => bucket'[i] = bucket[i]
        BY <2>1, <3>2, FoundWritten
      <4>2. DOMAIN bucket' = 1..n /\ bucket'[k].count = bucket[k].count + c
        BY <2>2, <4>1 DEF Increased
      <4>3. g[k] = f[k] + c /\ \A i \in (1..n) \ {k} : g[i] = f[i]
        BY <2>4, <4>1, <4>2
      <4>4. SumFunction(g) = SumFunctionOnSet(g, 1..n)
        BY <4>2 DEF SumFunction
      <4> DEFINE S == 1..n
      <4>5. f[k] \in Int /\ g[k] \in Int
        <5>1. f[k] \in Int
          BY <2>4, <4>1
        <5> HIDE DEF f, g, c, k
        <5> QED BY <2>3, <4>3, <5>1
      <4>6. k \in S /\ IsFiniteSet(S) /\ (\A i \in S : f[i] \in Int) /\ \A i \in S \ {k} : g[i] = f[i]
        BY <2>4, <2>6, <4>1, <4>3
      <4> HIDE DEF f, g, c, n, k, S
      <4>7. SumFunctionOnSet(g, S) = SumFunctionOnSet(f, S) + g[k] - f[k]
        BY <4>5, <4>6, SumChanged
      <4>8. SumFunction(g) = SumFunctionOnSet(g, S) /\ SumFunction(f) = SumFunctionOnSet(f, S)
        BY <2>6, <4>4 DEF S
      <4> QED BY <2>3, <2>6, <4>3, <4>5, <4>7, <4>8
    <3> QED BY <3>1, <3>2
  <2>8. Exposures = SumFunction(f) /\ Same = SumFunction(a)
    BY DEF Exposures, Same
  <2>9. Exposures' = SumFunction(g) /\ Same' = SumFunction(b)
    BY DEF Exposures, Same
  <2> HIDE DEF f, g, a, b, c
  <2> QED BY <2>1, <2>5, <2>7, <2>8, <2>9 DEF Summed
<1> QED BY <1>1, <1>2, <1>3, WhatIsCounted DEF Summed

\* NoCountLost: while the rows its buckets refer to exist, the sum over them is what was
\* counted, every committed transaction once, however many wrote to one bucket or
\* created one for the same day (MetricsProcessor.process, getFlagMetrics).
THEOREM NoneLost == Spec => []NoCountLost
<1>1. Init => Summed
  <2> SUFFICES ASSUME Init PROVE Exposures = Same
    BY DEF Summed
  <2> DEFINE f == [i \in DOMAIN bucket |-> bucket[i].count]
             a == [v \in Evaluations |-> applied[v] * CountOf[v]]
             Zero == {T \in SUBSET Evaluations : SumFunctionOnSet(a, T) = 0}
  <2>1. DOMAIN f = {}
    BY DEF Init
  <2>2. Exposures = 0
    <3>1. Exposures = SumFunctionOnSet(f, DOMAIN f)
      BY DEF Exposures, SumFunction
    <3> HIDE DEF f
    <3> QED BY <2>1, <3>1, SumEmpty
  <2>3. \A v \in Evaluations : a[v] = 0
    BY DEF Init
  <2>4. Same = SumFunctionOnSet(a, Evaluations)
    BY DEF Same, SumFunction
  <2> HIDE DEF a
  <2>5. {} \in Zero
    BY SumEmpty
  <2>6. ASSUME NEW T \in SUBSET Evaluations, T # {}, \A v \in T : T \ {v} \in Zero PROVE T \in Zero
    <3>1. PICK v \in T : SumFunctionOnSet(a, T) = a[v] + SumFunctionOnSet(a, T \ {v})
      BY <2>6, SumSomeFirst, FS_Subset
    <3> QED BY <2>3, <2>6, <3>1
  <2>7. Evaluations \in Zero
    <3> HIDE DEF Zero
    <3> QED BY <2>5, <2>6, Growing
  <2> QED BY <2>2, <2>4, <2>7
<1>2. Typed /\ Summed /\ [Next]_vars => Summed'
  BY SummedStep
<1>3. Summed => NoCountLost
  BY DEF Summed, Same, NoCountLost
<1> QED BY <1>1, <1>2, <1>3, TypedAlways, PTL DEF Spec
=============================================================================
