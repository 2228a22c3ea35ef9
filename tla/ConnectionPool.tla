--------------------------- MODULE ConnectionPool ---------------------------
(***************************************************************************)
(* The pool of database connections that all requests share                *)
(* (PrismaService). A transaction keeps a connection for its callback;     *)
(* createStrategy, updateStrategy and addVariantToStrategy run further      *)
(* statements on this.prisma inside the callback (the environment's        *)
(* version, the caches of the project, the audit log), each of them on a   *)
(* second connection, while the transaction waits with its row locks.      *)
(*                                                                         *)
(* The pool and the transactions of Prisma are external; here they are as  *)
(* this code configures and uses them.                                     *)
(***************************************************************************)
EXTENDS Naturals, SequencesExt

CONSTANTS
    Requests,
    Connections,  \* max of the pool
    MaxInner,     \* bound: statements on this.prisma in one callback
    Nobody

ASSUME PoolAssumption == Nobody \notin Requests /\ MaxInner \in Nat

VARIABLES
    tx,       \* tx[c]: the request whose transaction or statement has connection c
    inner,    \* inner[c]: the request whose statement inside a callback has c
    pending,  \* the requests that wait for a connection, in order
    rows,     \* the request that has the lock of the rows (of one flag's strategies)
    request   \* request[r]: where r is; opens: it runs a transaction; left: the
              \* statements on this.prisma it may still run

vars == <<tx, inner, pending, rows, request>>

Done == [pc |-> "done", opens |-> FALSE, left |-> 0]

Init ==
    /\ tx = [c \in Connections |-> Nobody]
    /\ inner = [c \in Connections |-> Nobody]
    /\ pending = <<>>
    /\ rows = Nobody
    /\ request = [r \in Requests |-> Done]

TypeOK ==
    /\ tx \in [Connections -> Requests \cup {Nobody}]
    /\ inner \in [Connections -> Requests \cup {Nobody}]
    /\ rows \in Requests \cup {Nobody}
    /\ request \in [Requests -> [pc : {"done", "connect", "run", "locked", "connectInner", "inner"},
                                 opens : BOOLEAN, left : 0..MaxInner]]
    /\ pending \in Seq(Requests)
    /\ IsInjective(pending)
    /\ ToSet(pending) = {r \in Requests : request[r].pc \in {"connect", "connectInner"}}

Free(c) == tx[c] = Nobody /\ inner[c] = Nobody

Without(conn, r) == [c \in Connections |-> IF conn[c] = r THEN Nobody ELSE conn[c]]

\* Slip: the lock outlives its transaction.
RowsKept(r) == rows

RowsWithout(r) == IF rows = r THEN Nobody ELSE rows

\* The handler returns or throws: its connections go back, its locks are gone.
Leave(r) ==
    /\ tx' = Without(tx, r)
    /\ inner' = Without(inner, r)
    /\ rows' = RowsWithout(r)
    /\ request' = [request EXCEPT ![r] = Done]

-----------------------------------------------------------------------------
\* One statement (no transaction), a transaction, or one with inner statements.
Ask(r, opens, left) ==
    /\ request[r].pc = "done"
    /\ left > 0 => opens
    /\ request' = [request EXCEPT ![r] = [pc |-> "connect", opens |-> opens, left |-> left]]
    /\ pending' = Append(pending, r)
    /\ UNCHANGED <<tx, inner, rows>>

\* The longest waiting request gets a free connection.
Connect(r, c) ==
    /\ pending # <<>>
    /\ r = Head(pending)
    /\ Free(c)
    /\ pending' = Tail(pending)
    /\ IF request[r].pc = "connect"
       THEN /\ tx' = [tx EXCEPT ![c] = r]
            /\ request' = [request EXCEPT ![r].pc = "run"]
            /\ UNCHANGED inner
       ELSE /\ inner' = [inner EXCEPT ![c] = r]
            /\ request' = [request EXCEPT ![r].pc = "inner"]
            /\ UNCHANGED tx
    /\ UNCHANGED rows

InTransaction(r) == request[r].opens /\ \E c \in Connections : tx[c] = r

\* The transaction writes rows that another may have locked.
Write(r) ==
    /\ request[r].pc = "run"
    /\ InTransaction(r)
    /\ rows # r
    /\ IF rows = Nobody
       THEN rows' = r /\ UNCHANGED request
       ELSE request' = [request EXCEPT ![r].pc = "locked"] /\ UNCHANGED rows
    /\ UNCHANGED <<tx, inner, pending>>

Lock(r) ==
    /\ request[r].pc = "locked"
    /\ rows = Nobody
    /\ rows' = r
    /\ request' = [request EXCEPT ![r].pc = "run"]
    /\ UNCHANGED <<tx, inner, pending>>

\* incrementEnvironmentVersion, invalidateCacheByProject, logAction.
AskInner(r) ==
    /\ request[r].pc = "run"
    /\ request[r].left > 0
    /\ request' = [request EXCEPT ![r].pc = "connectInner", ![r].left = @ - 1]
    /\ pending' = Append(pending, r)
    /\ UNCHANGED <<tx, inner, rows>>

ReturnInner(r) ==
    /\ request[r].pc = "inner"
    /\ inner' = Without(inner, r)
    /\ request' = [request EXCEPT ![r].pc = "run"]
    /\ UNCHANGED <<tx, pending, rows>>

\* Commit, or an error of any statement and the rollback.
Return(r) ==
    /\ request[r].pc \in {"run", "inner"}
    /\ Leave(r)
    /\ UNCHANGED pending

\* From wherever it stands.
LeaveQueue(r) == \E i \in DOMAIN pending : pending[i] = r /\ pending' = RemoveAt(pending, i)

\* Slip: only the wait for the first connection has a limit.
TimeOutFirst(r) ==
    /\ request[r].pc = "connect"
    /\ LeaveQueue(r)
    /\ Leave(r)

\* Slip: a request that gave up still stands in the queue.
TimeOutInQueue(r) ==
    /\ request[r].pc \in {"connect", "connectInner"}
    /\ Leave(r)
    /\ UNCHANGED pending

\* Slip: the callback's error does not end the transaction.
TimeOutKeeps(r) ==
    /\ request[r].pc \in {"connect", "connectInner"}
    /\ LeaveQueue(r)
    /\ request' = [request EXCEPT ![r] = Done]
    /\ UNCHANGED <<tx, inner, rows>>

\* connectionTimeoutMillis: the wait ends with an error, and so does the handler.
TimeOut(r) ==
    /\ request[r].pc \in {"connect", "connectInner"}
    /\ LeaveQueue(r)
    /\ Leave(r)

\* The wait was that of invalidateCacheByProject: its error is logged and the
\* callback goes on.
InvalidationGivesUp(r) ==
    /\ request[r].pc = "connectInner"
    /\ LeaveQueue(r)
    /\ request' = [request EXCEPT ![r].pc = "run"]
    /\ UNCHANGED <<tx, inner, rows>>

\* The transaction's own limit: it is rolled back under the callback, which goes on
\* until its next statement in it.
Expire(r) ==
    /\ request[r].pc \in {"run", "connectInner", "inner"}
    /\ InTransaction(r)
    /\ tx' = Without(tx, r)
    /\ rows' = RowsWithout(r)
    /\ UNCHANGED <<inner, pending, request>>

-----------------------------------------------------------------------------
Step(r) ==
    \/ \E opens \in BOOLEAN, left \in 0..MaxInner : Ask(r, opens, left)
    \/ \E c \in Connections : Connect(r, c)
    \/ Write(r)
    \/ Lock(r)
    \/ AskInner(r)
    \/ ReturnInner(r)
    \/ Return(r)
    \/ TimeOut(r)
    \/ InvalidationGivesUp(r)
    \/ Expire(r)

Next == \E r \in Requests : Step(r)

Spec == Init /\ [][Next]_vars

\* The database answers, the pool's timer fires, and PostgreSQL grants a row lock to
\* those who wait for it in turn. Nothing is assumed of Expire.
FairSpec ==
    /\ Spec
    /\ \A r \in Requests :
         /\ WF_vars(\E c \in Connections : Connect(r, c))
         /\ WF_vars(AskInner(r) \/ ReturnInner(r) \/ Return(r))
         /\ WF_vars(TimeOut(r))
         /\ SF_vars(Lock(r))

-----------------------------------------------------------------------------
(* Properties.                                                             *)

\* A connection is held by one request only, that has not ended, and the row locks
\* by a transaction that still has its connection: no error or timeout, in whatever
\* order, leaves one behind.
NothingLeaks ==
    /\ \A c \in Connections : tx[c] = Nobody \/ inner[c] = Nobody
    /\ \A c \in Connections : tx[c] # Nobody => request[tx[c]].pc \notin {"done", "connect"}
    /\ \A c \in Connections : inner[c] # Nobody => request[inner[c]].pc = "inner"
    /\ rows # Nobody => InTransaction(rows)

\* The pool stands still.
Stalled ==
    /\ pending # <<>>
    /\ \A c \in Connections : ~Free(c)
    /\ \A r \in Requests : request[r].pc \notin {"run", "inner"}
    /\ \A r \in Requests : request[r].pc = "locked" => rows # Nobody

\* Requests wait for one another in a circle only if one of them asks for a second
\* connection inside its transaction: requests that keep to their own connection
\* never bring the pool to a stand, however few connections there are.
StallsByInnerOnly == Stalled => \E r \in Requests : request[r].pc = "connectInner"

\* Every request ends, also when transactions hold all the connections and each of
\* them waits for another: the pool's timeout breaks the circle.
RequestsEnd == \A r \in Requests : (request[r].pc # "done") ~> (request[r].pc = "done")
=============================================================================
