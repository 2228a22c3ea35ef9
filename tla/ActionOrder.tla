---------------------------- MODULE ActionOrder ----------------------------
(***************************************************************************)
(* The order in which the strategies of one action are evaluated:          *)
(* updateAction deletes, changes and adds strategies as its request says   *)
(* of the strategies it read, and then renumbers all it finds;             *)
(* reorderActionStrategies numbers those it is given.                      *)
(*                                                                         *)
(* A request may carry fields of the action itself: their update is then  *)
(* the first statement of the transaction and locks the action's row until *)
(* the commit. Without them (the MCP tool update_action allows it) Prisma  *)
(* leaves that update out, and only the strategies' rows are locked.       *)
(***************************************************************************)
EXTENDS Integers, FiniteSets

CONSTANTS
    Strategies,   \* ids; one that nobody knows any more is used again
    Requests,     \* concurrent calls of updateAction
    MaxGiven      \* bound: priorities that a request gives

NoRow == -1   \* no such row
Keep   == -2   \* the request gives no priority

VARIABLES
    row,   \* row[s]: the priority of s, or NoRow; NoAction before and after
    tx,    \* tx[r]: the call of updateAction that runs in r
    met    \* met[r] (history): did a transaction overlap that of r, one of the two
           \* without the lock of the action's row?

vars == <<row, tx, met>>

\* Does the request carry the action's own fields (own)? What the call read (known),
\* gives for the strategies it keeps (given) and adds (fresh), and the rows as its
\* transaction sees them (view).
Idle == [pc |-> "idle", own |-> FALSE, known |-> {}, given |-> <<>>, fresh |-> {}, view |-> <<>>]

NoAction == <<>>

Live(rows) == {s \in DOMAIN rows : rows[s] # NoRow}

\* orderBy priority desc: numbers n-1 .. 0, rows of equal priority in any order.
Descending(rows) ==
    LET n == Cardinality(Live(rows))
    IN  {f \in [Live(rows) -> 0..n - 1] :
            \A s, t \in Live(rows) : s # t =>
                f[s] # f[t] /\ (rows[s] > rows[t] => f[s] > f[t])}

TypeOK ==
    /\ row \in [Strategies -> {NoRow} \cup Nat] \cup {NoAction}
    /\ met \in [Requests -> BOOLEAN]
    /\ \A r \in Requests :
         /\ tx[r].pc \in {"idle", "begin", "ops", "recalculated"}
         /\ DOMAIN tx[r].given \subseteq tx[r].known
         /\ tx[r].known \cup tx[r].fresh \subseteq Strategies

Init ==
    /\ row = NoAction
    /\ tx = [r \in Requests |-> Idle]
    /\ met = [r \in Requests |-> FALSE]

Numbered(f) == [s \in Strategies |-> IF s \in DOMAIN f THEN f[s] ELSE NoRow]

\* The strategies of the request, in its order. A call that is still about the
\* action deleted before can only fail, so nothing is lost by having it do so first.
CreateAction(S) ==
    /\ row = NoAction
    /\ \A r \in Requests : tx[r].pc = "idle"
    /\ \E f \in Descending([s \in S |-> 0]) : row' = Numbered(f)
    /\ UNCHANGED <<tx, met>>

-----------------------------------------------------------------------------
(* updateAction.                                                           *)

\* Ids are not handed out again while a call knows them.
Mentioned == UNION {tx[r].known \cup tx[r].fresh \cup Live(tx[r].view) : r \in Requests}

\* The strategies that the request keeps are among those the handler reads: of
\* others it makes new ones.
UpdateAction(r) ==
    /\ tx[r].pc = "idle"
    /\ row # NoAction
    /\ \E own \in BOOLEAN, kept \in SUBSET Live(row) :
       \E given \in [kept -> 0..MaxGiven \cup {Keep}] :
       \E fresh \in SUBSET (Strategies \ (Live(row) \cup Mentioned)) :
         tx' = [tx EXCEPT ![r] = [pc |-> "begin", own |-> own, known |-> Live(row),
                                  given |-> given, fresh |-> fresh, view |-> <<>>]]
    /\ UNCHANGED <<row, met>>

\* The transaction has written and not yet committed.
Writing(r) == tx[r].pc \in {"ops", "recalculated"}

\* Slip: the action's own fields are written last.
NotLocked(r) == TRUE

ActionLock(r) == tx[r].own => \A q \in Requests : ~(Writing(q) /\ tx[q].own)

\* The strategies that the transaction has written, and nobody else can write.
Locked(r) == IF Writing(r) THEN tx[r].known \cup tx[r].fresh ELSE {}

\* The rows as they are after the statements about the request's strategies.
Changed(r) ==
    [s \in Strategies |->
        IF s \in tx[r].fresh THEN 0
        ELSE IF s \in DOMAIN tx[r].given
             THEN IF tx[r].given[s] = Keep THEN row[s] ELSE tx[r].given[s]
        ELSE IF s \in tx[r].known THEN NoRow
        ELSE row[s]]

\* The transaction goes on with rows as it sees them now; of those it read before,
\* there may be less.
Sees(r, pc, known, view) ==
    tx' = [tx EXCEPT ![r] = [pc |-> pc, own |-> @.own, known |-> known, given |-> @.given,
                             fresh |-> @.fresh, view |-> view]]

Beside(q, r) == q # r /\ Writing(q) /\ ~(tx[q].own /\ tx[r].own)

WriteStrategies(r) ==
    LET known == tx[r].known \cap Live(row)
    IN  /\ tx[r].pc = "begin"
        /\ row # NoAction
        /\ ActionLock(r)
        /\ DOMAIN tx[r].given \subseteq known
        /\ \A q \in Requests : known \cap Locked(q) = {}
        /\ Sees(r, "ops", known, Changed(r))
        /\ met' = [q \in Requests |-> IF q = r THEN \E p \in Requests : Beside(p, r)
                                     ELSE met[q] \/ Beside(q, r)]
        /\ UNCHANGED row

\* Slip: the strategies are listed outside of the transaction.
CommittedRows(r) == row

\* What it did not write it sees as it is committed now.
View(r) == [s \in Strategies |-> IF s \in Locked(r) THEN tx[r].view[s] ELSE row[s]]

Recalculate(r) ==
    /\ tx[r].pc = "ops"
    /\ row # NoAction
    /\ \E f \in Descending(View(r)) : Sees(r, "recalculated", tx[r].known, Numbered(f))
    /\ UNCHANGED <<row, met>>

\* All rows listed get their numbers, and those that others have written and not
\* committed are waited for.
Commit(r) ==
    LET listed == Live(tx[r].view) \ Locked(r)
    IN  /\ tx[r].pc = "recalculated"
        /\ listed \subseteq Live(row)
        /\ row # NoAction
        /\ \A q \in Requests : listed \cap Locked(q) = {}
        /\ row' = [s \in Strategies |->
                     IF s \in Locked(r) \cup listed THEN tx[r].view[s] ELSE row[s]]
        /\ tx' = [tx EXCEPT ![r] = Idle]
        /\ met' = [met EXCEPT ![r] = FALSE]

\* A strategy to update is gone, the transaction times out or is the victim of a
\* deadlock, the process stops.
UpdateFails(r) ==
    /\ tx[r].pc # "idle"
    /\ tx' = [tx EXCEPT ![r] = Idle]
    /\ met' = [met EXCEPT ![r] = FALSE]
    /\ UNCHANGED row

-----------------------------------------------------------------------------
\* In one transaction, on rows that no other transaction has written.
ReorderActionStrategies(given) ==
    /\ given # {}
    /\ given \subseteq Live(row)
    /\ \A r \in Requests : given \cap Locked(r) = {}
    /\ \E f \in Descending([s \in given |-> 0]) :
         row' = [s \in Strategies |-> IF s \in given THEN f[s] ELSE row[s]]
    /\ UNCHANGED <<tx, met>>

\* Its strategies go with it. A transaction that holds a lock of the action or of one
\* of them, or that inserted one (the foreign key), is waited for.
DeleteAction ==
    /\ row # NoAction
    /\ \A r \in Requests : Writing(r) => ~tx[r].own /\ Locked(r) = {}
    /\ row' = NoAction
    /\ UNCHANGED <<tx, met>>

-----------------------------------------------------------------------------
Step(r) ==
    \/ UpdateAction(r)
    \/ WriteStrategies(r)
    \/ Recalculate(r)
    \/ Commit(r)
    \/ UpdateFails(r)

Next ==
    \/ \E r \in Requests : Step(r)
    \/ \E given \in SUBSET Strategies : ReorderActionStrategies(given)
    \/ \E S \in SUBSET Strategies : CreateAction(S)
    \/ DeleteAction

Spec == Init /\ [][Next]_vars

-----------------------------------------------------------------------------
(* Properties.                                                             *)

Compact(rows) == {rows[s] : s \in Live(rows)} = 0..Cardinality(Live(rows)) - 1

\* updateAction leaves the priorities n-1 .. 0, each once, whatever ties a reordering
\* of a part made, and although others read the strategies before it changed any,
\* unless its transaction overlapped another of which one did not lock the action's
\* row, its request having strategies only (action.service.ts:257-355).
UpdateLeavesCompact == [][\A r \in Requests : Commit(r) /\ ~met[r] => Compact(row')]_vars

\* Strategies keep the order that the request gives them, next to strategies that it
\* adds or that others added since it read them, whatever was reordered meanwhile, and
\* although nothing but its own strategies may be locked (action.service.ts:282-355).
UpdateKeepsGivenOrder ==
    [][\A r \in Requests : Commit(r) =>
         \A s, t \in DOMAIN tx[r].given :
             tx[r].given[s] > tx[r].given[t] /\ tx[r].given[t] # Keep => row'[s] > row'[t]]_vars
=============================================================================
