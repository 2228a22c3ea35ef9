------------------------ MODULE ConnectionPoolProofs ------------------------
(***************************************************************************)
(* For any number of requests, connections and statements: nothing leaks,  *)
(* and the pool stands still only while some transaction waits for a       *)
(* second connection. Neither needs the queue: what counts is who holds a  *)
(* connection, who holds the row locks, and that a request waits for the   *)
(* locks only inside a transaction and never for its own. The queue itself *)
(* comes last: who waits is in it once, and nobody else.                   *)
(***************************************************************************)
EXTENDS ConnectionPool, SequenceTheorems, TLAPS

USE PoolAssumption

States == {"done", "connect", "run", "locked", "connectInner", "inner"}

Call == [pc : States, opens : BOOLEAN, left : 0..MaxInner]

Typed ==
    /\ tx \in [Connections -> Requests \cup {Nobody}]
    /\ inner \in [Connections -> Requests \cup {Nobody}]
    /\ rows \in Requests \cup {Nobody}
    /\ request \in [Requests -> Call]

HeldOnce == \A c \in Connections : tx[c] = Nobody \/ inner[c] = Nobody

HeldByRunning == \A c \in Connections, r \in Requests :
    /\ tx[c] = r => request[r].pc \notin {"done", "connect"}
    /\ inner[c] = r => request[r].pc = "inner"

\* The row locks are a transaction's, and so is the wait for those of another.
LockedInside == \A r \in Requests :
    /\ rows = r => InTransaction(r)
    /\ request[r].pc = "locked" => InTransaction(r) /\ rows # r

Known == Typed /\ HeldOnce /\ HeldByRunning /\ LockedInside

-----------------------------------------------------------------------------
LEMMA KnownInit == Init => Known
<1> SUFFICES ASSUME Init PROVE Known
  OBVIOUS
<1>1. \A r \in Requests : request[r] = Done
  BY DEF Init
<1>2. Done \in Call /\ Done.pc = "done"
  BY DEF Done, States, Call
<1>3. Typed
  BY <1>2 DEF Init, Typed
<1>4. HeldOnce /\ HeldByRunning /\ LockedInside
  BY <1>1, <1>2 DEF Init, HeldOnce, HeldByRunning, LockedInside
<1> QED BY <1>3, <1>4 DEF Known

\* Request r goes on at pc, the others stay.
Goes(r, pc) ==
    /\ request' \in [Requests -> Call]
    /\ \A q \in Requests \ {r} : request'[q] = request[q]
    /\ request'[r].pc = pc
    /\ request'[r].opens = request[r].opens

LEMMA GoesByPc ==
    ASSUME Known, NEW r \in Requests, NEW pc \in States, request' = [request EXCEPT ![r].pc = pc]
    PROVE  Goes(r, pc)
BY DEF Known, Typed, Goes, Call

\* A request that does not end, takes no connection, and may take the free locks.
LEMMA Moves ==
    ASSUME Known, NEW r \in Requests, NEW pc \in States, Goes(r, pc),
           pc \notin {"done", "connect", "locked"},
           \A c \in Connections : inner'[c] = r => pc = "inner",
           \A c \in Connections : inner'[c] \in {inner[c], Nobody},
           inner' \in [Connections -> Requests \cup {Nobody}],
           UNCHANGED tx, rows' \in {rows, r},
           rows' = r => InTransaction(r),
           rows' # rows => rows = Nobody
    PROVE  Known'
<1>1. \A q \in Requests \ {r} : request'[q] = request[q]
  BY DEF Goes
<1>2. request'[r].pc = pc /\ request'[r].opens = request[r].opens
  BY DEF Goes
<1>3. Typed'
  BY DEF Known, Typed, Goes, Call
<1>4. HeldOnce'
  BY DEF Known, HeldOnce
<1>5. HeldByRunning'
  BY <1>1, <1>2 DEF Known, HeldByRunning
<1>6. \A q \in Requests : InTransaction(q)' <=> InTransaction(q)
  BY <1>1, <1>2 DEF InTransaction
<1>7. LockedInside'
  BY <1>1, <1>2, <1>6 DEF Known, LockedInside
<1> QED BY <1>3, <1>4, <1>5, <1>7 DEF Known

\* A request that ends, by whatever way.
LEMMA Leaves ==
    ASSUME Known, NEW r \in Requests, Leave(r)
    PROVE  Known'
<1>1. \A q \in Requests \ {r} : request'[q] = request[q]
  BY DEF Known, Typed, Leave
<1>2. request'[r].pc = "done"
  BY DEF Known, Typed, Leave, Done
<1>3. \A c \in Connections : /\ tx'[c] = IF tx[c] = r THEN Nobody ELSE tx[c]
                             /\ inner'[c] = IF inner[c] = r THEN Nobody ELSE inner[c]
  BY DEF Leave, Without
<1>4. rows' = IF rows = r THEN Nobody ELSE rows
  BY DEF Leave, RowsWithout
<1>5. Typed'
  <2>1. Done \in Call
    BY DEF Done, States, Call
  <2> QED BY <2>1, <1>4 DEF Known, Typed, Leave, Without
<1>6. HeldOnce'
  BY <1>3 DEF Known, HeldOnce
<1>7. HeldByRunning'
  BY <1>1, <1>2, <1>3 DEF Known, HeldByRunning
<1>8. \A q \in Requests \ {r} : InTransaction(q) => InTransaction(q)'
  BY <1>1, <1>3 DEF InTransaction
<1>9. LockedInside'
  BY <1>1, <1>2, <1>4, <1>8 DEF Known, LockedInside
<1> QED BY <1>5, <1>6, <1>7, <1>9 DEF Known

-----------------------------------------------------------------------------
(* One lemma per action that Moves and Leaves do not cover.                *)

LEMMA AskStep ==
    ASSUME Known, NEW r \in Requests, NEW opens \in BOOLEAN, NEW left \in 0..MaxInner,
           Ask(r, opens, left)
    PROVE  Known'
<1> DEFINE new == [pc |-> "connect", opens |-> opens, left |-> left]
<1>1. new \in Call /\ new.pc = "connect"
  BY DEF States, Call
<1>2. request' = [request EXCEPT ![r] = new] /\ UNCHANGED <<tx, inner, rows>>
  BY DEF Ask
<1> HIDE DEF new
<1>3. \A q \in Requests \ {r} : request'[q] = request[q]
  BY <1>2 DEF Known, Typed
<1>4. request'[r].pc = "connect" /\ request[r].pc = "done"
  BY <1>1, <1>2 DEF Known, Typed, Ask
<1>5. Typed'
  BY <1>1, <1>2 DEF Known, Typed
<1>6. \A c \in Connections : tx[c] # r /\ inner[c] # r
  BY <1>4 DEF Known, HeldByRunning
<1>7. HeldOnce' /\ HeldByRunning'
  BY <1>2, <1>3, <1>6 DEF Known, HeldOnce, HeldByRunning
<1>8. rows # r
  BY <1>6 DEF Known, LockedInside, InTransaction
<1>9. \A q \in Requests \ {r} : InTransaction(q) => InTransaction(q)'
  BY <1>2, <1>3 DEF InTransaction
<1>10. LockedInside'
  BY <1>2, <1>3, <1>4, <1>8, <1>9 DEF Known, LockedInside
<1> QED BY <1>5, <1>7, <1>10 DEF Known

LEMMA ConnectStep ==
    ASSUME Known, NEW r \in Requests, NEW c \in Connections, Connect(r, c)
    PROVE  Known'
<1> DEFINE pc == IF request[r].pc = "connect" THEN "run" ELSE "inner"
<1>1. Goes(r, pc)
  <2>1. request' = [request EXCEPT ![r].pc = pc]
    BY DEF Connect
  <2> QED BY <2>1, GoesByPc DEF States
<1>2. \A q \in Requests \ {r} : request'[q] = request[q]
  BY <1>1 DEF Goes
<1>3. request'[r].pc = pc /\ request'[r].opens = request[r].opens
  BY <1>1 DEF Goes
<1>4. tx[c] = Nobody /\ inner[c] = Nobody /\ rows' = rows
  BY DEF Connect, Free
<1>5. \/ pc = "run" /\ tx' = [tx EXCEPT ![c] = r] /\ inner' = inner /\ request[r].pc = "connect"
      \/ pc = "inner" /\ inner' = [inner EXCEPT ![c] = r] /\ tx' = tx
  BY DEF Connect
<1>6. Typed'
  <2>1. tx' \in [Connections -> Requests \cup {Nobody}] /\ inner' \in [Connections -> Requests \cup {Nobody}]
    BY <1>5 DEF Known, Typed
  <2> QED BY <1>1, <1>4, <2>1 DEF Known, Typed, Goes, Call
<1>7. HeldOnce'
  BY <1>4, <1>5 DEF Known, Typed, HeldOnce
<1>8. HeldByRunning'
  <2>1. CASE pc = "run"
    BY <1>2, <1>3, <1>5, <2>1 DEF Known, Typed, HeldByRunning
  <2>2. CASE pc = "inner"
    BY <1>2, <1>3, <1>5, <2>2 DEF Known, Typed, HeldByRunning
  <2> QED BY <2>1, <2>2
<1>9. \A q \in Requests : InTransaction(q) => InTransaction(q)'
  BY <1>2, <1>3, <1>4, <1>5 DEF InTransaction, Known, Typed
<1>10. LockedInside'
  BY <1>2, <1>3, <1>4, <1>9 DEF Known, LockedInside
<1> QED BY <1>6, <1>7, <1>8, <1>10 DEF Known

\* A transaction meets a lock of another.
LEMMA WriteStep ==
    ASSUME Known, NEW r \in Requests, Write(r)
    PROVE  Known'
<1>1. CASE rows = Nobody
  <2>1. request' = request /\ rows' = r /\ UNCHANGED <<tx, inner>> /\ InTransaction(r)
    BY <1>1 DEF Write
  <2>2. \A q \in Requests : InTransaction(q)' <=> InTransaction(q)
    BY <2>1 DEF InTransaction
  <2>3. request[r].pc = "run"
    BY DEF Write
  <2> QED BY <2>1, <2>2, <2>3 DEF Known, Typed, HeldOnce, HeldByRunning, LockedInside
<1>2. CASE rows # Nobody
  <2>1. request' = [request EXCEPT ![r].pc = "locked"] /\ UNCHANGED <<tx, inner, rows>>
    BY <1>2 DEF Write
  <2>2. \A q \in Requests \ {r} : request'[q] = request[q]
    BY <2>1 DEF Known, Typed
  <2>3. request'[r].pc = "locked" /\ request'[r].opens = request[r].opens
    BY <2>1 DEF Known, Typed
  <2>4. request[r].pc = "run" /\ InTransaction(r) /\ rows # r
    BY DEF Write
  <2>5. Typed'
    BY <2>1 DEF Known, Typed, States, Call
  <2>6. HeldOnce' /\ HeldByRunning'
    BY <2>1, <2>2, <2>3, <2>4 DEF Known, HeldOnce, HeldByRunning
  <2>7. \A q \in Requests : InTransaction(q)' <=> InTransaction(q)
    BY <2>1, <2>2, <2>3 DEF InTransaction
  <2>8. LockedInside'
    BY <2>1, <2>2, <2>4, <2>7 DEF Known, LockedInside
  <2> QED BY <2>5, <2>6, <2>8 DEF Known
<1> QED BY <1>1, <1>2

LEMMA ExpireStep ==
    ASSUME Known, NEW r \in Requests, Expire(r)
    PROVE  Known'
<1>1. \A c \in Connections : tx'[c] = IF tx[c] = r THEN Nobody ELSE tx[c]
  BY DEF Expire, Without
<1>2. rows' = (IF rows = r THEN Nobody ELSE rows) /\ UNCHANGED <<inner, request>>
  BY DEF Expire, RowsWithout
<1>3. request[r].pc # "locked"
  BY DEF Expire
<1>4. Typed'
  BY <1>2 DEF Known, Typed, Expire, Without
<1>5. HeldOnce' /\ HeldByRunning'
  BY <1>1, <1>2 DEF Known, HeldOnce, HeldByRunning
<1>6. \A q \in Requests \ {r} : InTransaction(q) => InTransaction(q)'
  BY <1>1, <1>2 DEF InTransaction
<1>7. LockedInside'
  BY <1>2, <1>3, <1>6 DEF Known, LockedInside
<1> QED BY <1>4, <1>5, <1>7 DEF Known

\* Every step keeps what is known.
LEMMA KnownStep ==
    ASSUME Known, [Next]_vars
    PROVE  Known'
<1>1. CASE UNCHANGED vars
  BY <1>1 DEF vars, Known, Typed, HeldOnce, HeldByRunning, LockedInside, InTransaction
<1>2. SUFFICES ASSUME NEW r \in Requests, Step(r) PROVE Known'
  BY <1>1 DEF Next
<1>3. request[r] \in Call
  BY DEF Known, Typed
<1>4. ASSUME Lock(r) PROVE Known'
  <2>1. Goes(r, "run")
    BY <1>4, GoesByPc DEF Lock, States
  <2>2. InTransaction(r) /\ rows = Nobody /\ rows' = r /\ UNCHANGED <<tx, inner>>
    BY <1>4 DEF Lock, Known, LockedInside
  <2>3. \A c \in Connections : inner[c] # r
    BY <1>4 DEF Lock, Known, HeldByRunning
  <2> QED BY <1>3, <2>1, <2>2, <2>3, Moves DEF States, Known, Typed
<1>5. ASSUME AskInner(r) PROVE Known'
  <2>1. request[r].left - 1 \in 0..MaxInner
    BY <1>3, <1>5 DEF AskInner, Call
  <2>2. Goes(r, "connectInner")
    BY <1>3, <1>5, <2>1 DEF AskInner, Known, Typed, Goes, Call, States
  <2>3. \A c \in Connections : inner[c] # r
    BY <1>5 DEF AskInner, Known, HeldByRunning
  <2>4. rows = r => InTransaction(r)
    BY DEF Known, LockedInside
  <2> QED BY <1>5, <2>1, <2>2, <2>3, <2>4, Moves DEF AskInner, States, Known, Typed
<1>6. ASSUME ReturnInner(r) PROVE Known'
  <2>1. Goes(r, "run")
    BY <1>6, GoesByPc DEF ReturnInner, States
  <2>2. \A c \in Connections : inner'[c] = IF inner[c] = r THEN Nobody ELSE inner[c]
    BY <1>6 DEF ReturnInner, Without
  <2>3. inner' \in [Connections -> Requests \cup {Nobody}]
    BY <1>6 DEF ReturnInner, Without, Known, Typed
  <2>4. rows = r => InTransaction(r)
    BY DEF Known, LockedInside
  <2>5. UNCHANGED <<tx, rows>>
    BY <1>6 DEF ReturnInner
  <2> QED BY <1>3, <2>1, <2>2, <2>3, <2>4, <2>5, Moves DEF States
<1>7. ASSUME InvalidationGivesUp(r) PROVE Known'
  <2>1. Goes(r, "run")
    BY <1>7, GoesByPc DEF InvalidationGivesUp, States
  <2>2. \A c \in Connections : inner[c] # r
    BY <1>7 DEF InvalidationGivesUp, Known, HeldByRunning
  <2>3. rows = r => InTransaction(r)
    BY DEF Known, LockedInside
  <2> QED BY <1>3, <1>7, <2>1, <2>2, <2>3, Moves DEF InvalidationGivesUp, States, Known, Typed
<1>8. Return(r) \/ TimeOut(r) => Leave(r)
  BY DEF Return, TimeOut
<1> QED
  BY <1>2, <1>4, <1>5, <1>6, <1>7, <1>8, Leaves, AskStep, ConnectStep, WriteStep, ExpireStep DEF Step

\* What is known bars a circle without a second connection.
LEMMA StallNeedsInner ==
    ASSUME Known, Connections # {}
    PROVE  StallsByInnerOnly
<1> SUFFICES ASSUME Stalled PROVE \E r \in Requests : request[r].pc = "connectInner"
  BY DEF StallsByInnerOnly
<1>1. PICK c \in Connections : ~Free(c)
  BY DEF Stalled
<1>2. PICK r \in Requests : tx[c] = r \/ inner[c] = r
  BY <1>1 DEF Free, Known, Typed
<1>3. request[r].pc \in {"locked", "connectInner"}
  BY <1>2 DEF Stalled, Known, Typed, HeldByRunning, States, Call
<1>4. CASE request[r].pc = "locked"
  <2>1. PICK q \in Requests : rows = q
    BY <1>4 DEF Stalled, Known, Typed
  <2>2. PICK d \in Connections : tx[d] = q
    BY <2>1 DEF Known, LockedInside, InTransaction
  <2>3. request[q].pc \in {"locked", "connectInner"}
    BY <2>2 DEF Stalled, Known, Typed, HeldByRunning, States, Call
  <2>4. request[q].pc # "locked"
    BY <2>1 DEF Known, LockedInside
  <2> QED BY <2>3, <2>4
<1> QED BY <1>3, <1>4

-----------------------------------------------------------------------------
(* The queue: everybody who waits stands in it, once.                      *)

InQueue(q) == {r \in Requests : \E i \in 1..Len(q) : q[i] = r}
OnceEach(q) == \A i, j \in 1..Len(q) : q[i] = q[j] => i = j

Waiting == {r \in Requests : request[r].pc \in {"connect", "connectInner"}}

QueueFits ==
    /\ pending \in Seq(Requests)
    /\ OnceEach(pending)
    /\ InQueue(pending) = Waiting

LEMMA AppendedOnce ==
    ASSUME NEW q \in Seq(Requests), OnceEach(q), NEW r \in Requests, r \notin InQueue(q)
    PROVE  /\ Append(q, r) \in Seq(Requests)
           /\ OnceEach(Append(q, r))
           /\ InQueue(Append(q, r)) = InQueue(q) \cup {r}
<1> DEFINE a == Append(q, r)
<1>1. /\ a \in Seq(Requests) /\ Len(a) = Len(q) + 1
      /\ \A i \in 1..Len(q) : a[i] = q[i]
      /\ a[Len(q) + 1] = r
  BY AppendProperties
<1>2. Len(q) \in Nat
  OBVIOUS
<1> HIDE DEF a
<1>3. \A i \in 1..Len(q) : q[i] # r
  BY DEF InQueue
<1>4. OnceEach(a)
  BY <1>1, <1>2, <1>3 DEF OnceEach
<1>5. InQueue(a) = InQueue(q) \cup {r}
  <2>1. ASSUME NEW s \in Requests PROVE s \in InQueue(a) <=> s \in InQueue(q) \/ s = r
    <3>1. s \in InQueue(q) => s \in InQueue(a)
      BY <1>1, <1>2 DEF InQueue
    <3>2. s = r => s \in InQueue(a)
      BY <1>1, <1>2 DEF InQueue
    <3>3. s \in InQueue(a) => s \in InQueue(q) \/ s = r
      BY <1>1, <1>2 DEF InQueue
    <3> QED BY <3>1, <3>2, <3>3
  <2> QED BY <2>1 DEF InQueue
<1> QED BY <1>1, <1>4, <1>5 DEF a

\* Whoever leaves the queue leaves the others in it, each once.
LEMMA RemovedOnce ==
    ASSUME NEW q \in Seq(Requests), OnceEach(q), NEW k \in 1..Len(q),
           NEW p \in Seq(Requests), Len(p) = Len(q) - 1,
           \A i \in 1..Len(p) : p[i] = IF i < k THEN q[i] ELSE q[i + 1]
    PROVE  OnceEach(p) /\ InQueue(p) = InQueue(q) \ {q[k]}
<1>1. Len(q) \in Nat /\ Len(p) \in Nat
  OBVIOUS
<1>2. OnceEach(p)
  <2>1. ASSUME NEW i \in 1..Len(p), NEW j \in 1..Len(p), p[i] = p[j] PROVE i = j
    <3> DEFINE at(m) == IF m < k THEN m ELSE m + 1
    <3>1. \A m \in 1..Len(p) : at(m) \in 1..Len(q) /\ p[m] = q[at(m)]
      BY <1>1
    <3>2. at(i) = at(j)
      BY <2>1, <3>1 DEF OnceEach
    <3> QED BY <1>1, <3>2
  <2> QED BY <2>1 DEF OnceEach
<1>3. ASSUME NEW r \in Requests PROVE r \in InQueue(p) <=> r \in InQueue(q) /\ r # q[k]
  <2>1. ASSUME r \in InQueue(p) PROVE r \in InQueue(q) /\ r # q[k]
    <3>1. PICK i \in 1..Len(p) : p[i] = r
      BY <2>1 DEF InQueue
    <3>2. CASE i < k
      <4>1. q[i] = r /\ i \in 1..Len(q) /\ i # k
        BY <1>1, <3>1, <3>2
      <4> QED BY <4>1 DEF InQueue, OnceEach
    <3>3. CASE ~ (i < k)
      <4>1. q[i + 1] = r /\ i + 1 \in 1..Len(q) /\ i + 1 # k
        BY <1>1, <3>1, <3>3
      <4> QED BY <4>1 DEF InQueue, OnceEach
    <3> QED BY <3>2, <3>3
  <2>2. ASSUME r \in InQueue(q), r # q[k] PROVE r \in InQueue(p)
    <3>1. PICK i \in 1..Len(q) : q[i] = r
      BY <2>2 DEF InQueue
    <3>2. i # k
      BY <2>2, <3>1
    <3>3. CASE i < k
      <4>1. i \in 1..Len(p) /\ p[i] = r
        BY <1>1, <3>1, <3>3
      <4> QED BY <4>1 DEF InQueue
    <3>4. CASE i > k
      <4>1. i - 1 \in 1..Len(p) /\ ~ (i - 1 < k)
        BY <1>1, <3>1, <3>4
      <4>2. p[i - 1] = r
        BY <1>1, <3>1, <4>1
      <4> QED BY <4>1, <4>2 DEF InQueue
    <3> QED BY <3>2, <3>3, <3>4
  <2> QED BY <2>1, <2>2
<1>4. InQueue(p) = InQueue(q) \ {q[k]}
  BY <1>3 DEF InQueue
<1> QED BY <1>2, <1>4

\* RemoveAt and Tail both do that.
LEMMA RemoveAtRemoves ==
    ASSUME NEW q \in Seq(Requests), NEW k \in 1..Len(q)
    PROVE  /\ RemoveAt(q, k) \in Seq(Requests)
           /\ Len(RemoveAt(q, k)) = Len(q) - 1
           /\ \A i \in 1..Len(q) - 1 : RemoveAt(q, k)[i] = IF i < k THEN q[i] ELSE q[i + 1]
<1> DEFINE left == SubSeq(q, 1, k - 1)
           right == SubSeq(q, k + 1, Len(q))
<1>0. Len(q) \in Nat /\ \A i \in 1..Len(q) : q[i] \in Requests
  OBVIOUS
<1>1. /\ left \in Seq(Requests) /\ Len(left) = k - 1
      /\ \A i \in 1..k - 1 : left[i] = q[i]
  <2>1. \A i \in 1..k - 1 : q[i] \in Requests
    BY <1>0
  <2>2. /\ left \in Seq(Requests)
        /\ Len(left) = IF 1 <= k - 1 THEN k - 1 - 1 + 1 ELSE 0
        /\ \A i \in 1..k - 1 - 1 + 1 : left[i] = q[1 + i - 1]
    BY <2>1, SubSeqProperties
  <2> HIDE DEF left
  <2> QED BY <2>2
<1>2. /\ right \in Seq(Requests) /\ Len(right) = Len(q) - k
      /\ \A i \in 1..Len(q) - k : right[i] = q[k + i]
  <2>1. \A i \in k + 1..Len(q) : q[i] \in Requests
    BY <1>0
  <2>2. /\ right \in Seq(Requests)
        /\ Len(right) = IF k + 1 <= Len(q) THEN Len(q) - (k + 1) + 1 ELSE 0
        /\ \A i \in 1..Len(q) - (k + 1) + 1 : right[i] = q[k + 1 + i - 1]
    BY <1>0, <2>1, SubSeqProperties
  <2> HIDE DEF right
  <2> QED BY <1>0, <2>2
<1> HIDE DEF left, right
<1>3. /\ left \o right \in Seq(Requests)
      /\ Len(left \o right) = Len(left) + Len(right)
      /\ \A i \in 1..Len(left) + Len(right) :
           (left \o right)[i] = IF i <= Len(left) THEN left[i] ELSE right[i - Len(left)]
  BY <1>1, <1>2, ConcatProperties
<1>4. RemoveAt(q, k) = left \o right
  BY DEF RemoveAt, left, right
<1> DEFINE all == left \o right
<1>5. Len(all) = Len(q) - 1
  BY <1>0, <1>1, <1>2, <1>3
<1>6. ASSUME NEW i \in 1..Len(q) - 1 PROVE all[i] = IF i < k THEN q[i] ELSE q[i + 1]
  <2>1. i \in 1..Len(left) + Len(right)
    BY <1>0, <1>1, <1>2
  <2>2. all[i] = IF i <= k - 1 THEN left[i] ELSE right[i - (k - 1)]
    BY <1>1, <1>3, <2>1
  <2>3. CASE i < k
    BY <1>1, <2>2, <2>3
  <2>4. CASE ~ (i < k)
    <3>1. i - (k - 1) \in 1..Len(q) - k /\ k + (i - (k - 1)) = i + 1
      BY <1>0, <2>4
    <3>2. all[i] = right[i - (k - 1)]
      BY <2>2, <2>4
    <3> QED BY <1>2, <2>4, <3>1, <3>2
  <2> QED BY <2>3, <2>4
<1> QED BY <1>3, <1>4, <1>5, <1>6

\* The first goes: Tail.
LEMMA TailRemoves ==
    ASSUME NEW q \in Seq(Requests), q # <<>>
    PROVE  /\ Tail(q) \in Seq(Requests) /\ 1 \in 1..Len(q) /\ Head(q) = q[1]
           /\ Len(Tail(q)) = Len(q) - 1
           /\ \A i \in 1..Len(Tail(q)) : Tail(q)[i] = IF i < 1 THEN q[i] ELSE q[i + 1]
<1>1. Tail(q) \in Seq(Requests) /\ Len(Tail(q)) = Len(q) - 1
      /\ \A i \in 1..Len(Tail(q)) : Tail(q)[i] = q[i + 1]
  BY HeadTailProperties
<1>2. Len(q) \in Nat /\ Len(q) # 0
  BY EmptySeq
<1>3. \A i \in 1..Len(Tail(q)) : ~ (i < 1)
  OBVIOUS
<1> QED BY <1>1, <1>2, <1>3

\* A request that moves between other states than waiting.
LEMMA StaysOut ==
    ASSUME QueueFits, NEW r \in Requests, UNCHANGED pending,
           \A q \in Requests \ {r} : request'[q] = request[q],
           r \in Waiting <=> r \in Waiting'
    PROVE  QueueFits'
<1>1. Waiting' = Waiting
  BY DEF Waiting
<1> QED BY <1>1 DEF QueueFits

\* A request that goes to the end of the queue.
LEMMA Joins ==
    ASSUME QueueFits, NEW r \in Requests, r \notin Waiting, r \in Waiting',
           pending' = Append(pending, r),
           \A q \in Requests \ {r} : request'[q] = request[q]
    PROVE  QueueFits'
<1>1. Waiting' = Waiting \cup {r}
  BY DEF Waiting
<1>2. /\ pending' \in Seq(Requests) /\ OnceEach(pending')
      /\ InQueue(pending') = InQueue(pending) \cup {r}
  BY AppendedOnce DEF QueueFits
<1> QED BY <1>1, <1>2 DEF QueueFits

\* A request that leaves it, from wherever it stands.
LEMMA LeavesQueue ==
    ASSUME QueueFits, NEW r \in Requests, r \notin Waiting',
           LeaveQueue(r) \/ (pending # <<>> /\ r = Head(pending) /\ pending' = Tail(pending)),
           \A q \in Requests \ {r} : request'[q] = request[q]
    PROVE  QueueFits'
<1>1. Waiting' = Waiting \ {r}
  BY DEF Waiting
<1>2. pending \in Seq(Requests) /\ OnceEach(pending) /\ InQueue(pending) = Waiting
  BY DEF QueueFits
<1>3. \E k \in 1..Len(pending) :
          /\ pending[k] = r /\ pending' \in Seq(Requests) /\ Len(pending') = Len(pending) - 1
          /\ \A i \in 1..Len(pending') :
                pending'[i] = IF i < k THEN pending[i] ELSE pending[i + 1]
  <2>1. CASE LeaveQueue(r)
    <3>1. PICK k \in DOMAIN pending : pending[k] = r /\ pending' = RemoveAt(pending, k)
      BY <2>1 DEF LeaveQueue
    <3>2. k \in 1..Len(pending)
      BY <1>2, <3>1
    <3>3. /\ pending' \in Seq(Requests) /\ Len(pending') = Len(pending) - 1
          /\ \A i \in 1..Len(pending) - 1 :
                pending'[i] = IF i < k THEN pending[i] ELSE pending[i + 1]
      BY <1>2, <3>1, <3>2, RemoveAtRemoves
    <3> QED BY <3>1, <3>2, <3>3
  <2>2. CASE pending # <<>> /\ r = Head(pending) /\ pending' = Tail(pending)
    BY <1>2, <2>2, TailRemoves
  <2> QED BY <2>1, <2>2
<1>4. /\ pending' \in Seq(Requests) /\ OnceEach(pending')
      /\ InQueue(pending') = InQueue(pending) \ {r}
  BY <1>2, <1>3, RemovedOnce
<1> QED BY <1>1, <1>2, <1>4 DEF QueueFits

\* Every step leaves those in the queue who wait, in their order.
LEMMA QueueStep ==
    ASSUME Known, QueueFits, [Next]_vars
    PROVE  QueueFits'
<1>t. request \in [Requests -> Call]
  BY DEF Known, Typed
<1>1. CASE UNCHANGED vars
  BY <1>1 DEF vars, QueueFits, Waiting
<1>2. SUFFICES ASSUME NEW r \in Requests, Step(r) PROVE QueueFits'
  BY <1>1 DEF Next
<1>3. ASSUME NEW opens \in BOOLEAN, NEW left \in 0..MaxInner, Ask(r, opens, left)
      PROVE  QueueFits'
  <2>1. r \notin Waiting /\ r \in Waiting' /\ \A q \in Requests \ {r} : request'[q] = request[q]
    BY <1>t, <1>3 DEF Ask, Waiting
  <2> QED BY <1>3, <2>1, Joins DEF Ask
<1>4. ASSUME NEW c \in Connections, Connect(r, c) PROVE QueueFits'
  <2> DEFINE pc == IF request[r].pc = "connect" THEN "run" ELSE "inner"
  <2>1. request' = [request EXCEPT ![r].pc = pc]
    BY <1>4 DEF Connect
  <2>2. r \notin Waiting' /\ \A q \in Requests \ {r} : request'[q] = request[q]
    BY <1>t, <2>1 DEF Waiting, Call
  <2> QED BY <1>4, <2>2, LeavesQueue DEF Connect
<1>5. ASSUME Write(r) \/ Lock(r) \/ ReturnInner(r) PROVE QueueFits'
  <2>1. \/ request' = request
        \/ \E pc \in {"run", "locked"} : request' = [request EXCEPT ![r].pc = pc]
    BY <1>5 DEF Write, Lock, ReturnInner
  <2>2. UNCHANGED pending /\ request[r].pc \notin {"connect", "connectInner"}
    BY <1>5 DEF Write, Lock, ReturnInner
  <2>3. /\ r \notin Waiting /\ r \notin Waiting'
        /\ \A q \in Requests \ {r} : request'[q] = request[q]
    BY <1>t, <2>1, <2>2 DEF Waiting, Call
  <2> QED BY <2>2, <2>3, StaysOut
<1>6. ASSUME AskInner(r) PROVE QueueFits'
  <2>1. r \notin Waiting /\ r \in Waiting' /\ \A q \in Requests \ {r} : request'[q] = request[q]
    BY <1>t, <1>6 DEF AskInner, Waiting, Call
  <2> QED BY <1>6, <2>1, Joins DEF AskInner
<1>7. ASSUME Leave(r) PROVE r \notin Waiting' /\ \A q \in Requests \ {r} : request'[q] = request[q]
  BY <1>t, <1>7 DEF Leave, Done, Waiting
<1>8. ASSUME Return(r) PROVE QueueFits'
  <2>1. Leave(r) /\ UNCHANGED pending /\ r \notin Waiting
    BY <1>8 DEF Return, Waiting
  <2> QED BY <1>7, <2>1, StaysOut
<1>9. ASSUME TimeOut(r) PROVE QueueFits'
  <2>1. Leave(r) /\ LeaveQueue(r)
    BY <1>9 DEF TimeOut
  <2> QED BY <1>7, <2>1, LeavesQueue
<1>10. ASSUME InvalidationGivesUp(r) PROVE QueueFits'
  <2>1. LeaveQueue(r) /\ request' = [request EXCEPT ![r].pc = "run"]
    BY <1>10 DEF InvalidationGivesUp
  <2>2. r \notin Waiting' /\ \A q \in Requests \ {r} : request'[q] = request[q]
    BY <1>t, <2>1 DEF Waiting, Call
  <2> QED BY <2>1, <2>2, LeavesQueue
<1>11. ASSUME Expire(r) PROVE QueueFits'
  <2>1. UNCHANGED <<pending, request>>
    BY <1>11 DEF Expire
  <2> QED BY <2>1 DEF QueueFits, Waiting
<1> QED
  BY <1>2, <1>3, <1>4, <1>5, <1>6, <1>8, <1>9, <1>10, <1>11 DEF Step

-----------------------------------------------------------------------------
LEMMA KnownAlways == Spec => []Known
<1>1. Known /\ [Next]_vars => Known'
  BY KnownStep
<1> QED BY <1>1, KnownInit, PTL DEF Spec

\* NothingLeaks: no order of errors, timeouts and expiries leaves a connection with a
\* request that ended or the row locks without their transaction (PrismaService's
\* pool as the strategy handlers use it).
THEOREM Leakless == Spec => []NothingLeaks
<1>1. Known => NothingLeaks
  BY DEF Known, Typed, HeldOnce, HeldByRunning, LockedInside, NothingLeaks
<1> QED BY <1>1, KnownAlways, PTL

\* StallsByInnerOnly: a pool of any size stands still only while a callback of
\* createStrategy, updateStrategy or addVariantToStrategy asks for a second connection.
THEOREM StallsNeedInner ==
    ASSUME Connections # {}
    PROVE  Spec => []StallsByInnerOnly
<1>1. Known => StallsByInnerOnly
  BY StallNeedsInner
<1> QED BY <1>1, KnownAlways, PTL

\* TypeOK: whoever waits for a connection stands in the queue, once, whatever order of
\* timeouts and releases took others out of its middle, and nobody else does.
THEOREM TypeCorrect == Spec => []TypeOK
<1>1. Init => QueueFits
  <2> SUFFICES ASSUME Init PROVE QueueFits
    OBVIOUS
  <2>1. Waiting = {}
    BY DEF Init, Done, Waiting
  <2>2. pending = <<>> /\ Len(pending) = 0 /\ pending \in Seq(Requests)
    BY DEF Init
  <2> QED BY <2>1, <2>2 DEF QueueFits, OnceEach, InQueue
<1>2. Known /\ QueueFits /\ [Next]_vars => QueueFits'
  BY QueueStep
<1>3. Known /\ QueueFits => TypeOK
  <2> SUFFICES ASSUME Known, QueueFits PROVE TypeOK
    OBVIOUS
  <2>1. pending \in Seq(Requests) /\ DOMAIN pending = 1..Len(pending)
    BY DEF QueueFits
  <2>2. IsInjective(pending)
    BY <2>1 DEF QueueFits, OnceEach, IsInjective
  <2>3. ToSet(pending) = InQueue(pending)
    BY <2>1 DEF ToSet, InQueue
  <2>4. Waiting = {r \in Requests : request[r].pc \in {"connect", "connectInner"}}
    BY DEF Waiting
  <2>5. InQueue(pending) = Waiting
    BY DEF QueueFits
  <2> QED BY <2>1, <2>2, <2>3, <2>4, <2>5 DEF Known, Typed, TypeOK, Call, States
<1> QED BY <1>1, <1>2, <1>3, KnownAlways, PTL DEF Spec
=============================================================================
