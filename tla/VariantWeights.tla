--------------------------- MODULE VariantWeights ---------------------------
(***************************************************************************)
(* The weights of one strategy's variants. Every handler that changes them *)
(* is one interactive transaction of PostgreSQL at READ COMMITTED: each    *)
(* statement sees what is committed when it runs, plus what its own        *)
(* transaction wrote; a row another transaction has written is waited for. *)
(* A handler checks the sum of the custom weights, writes one row, reads   *)
(* all the rows back and spreads what the custom weights leave over the    *)
(* other rows, one update at a time (redistributeNonCustomWeights).        *)
(*                                                                         *)
(* A row is named by its variant (strategyId and variantId are unique      *)
(* together). `gone' and `deleted' keep a row or variant that was removed  *)
(* apart from one that was created later under the same name.              *)
(***************************************************************************)
EXTENDS Integers, Sequences, FiniteSetsExt, Functions

CONSTANTS
    Variants,  \* the variants of the flag
    Txs,       \* concurrent requests
    Total,     \* the weights are shares of Total (100)
    Given,     \* the weights a request may give
    MaxBatch,  \* bound: variants in one batch
    None

VARIABLES
    sv,  \* sv[v]: the committed row of variant v, or None
    tx   \* tx[t]: the transaction of request t

vars == <<sv, tx>>

Row  == [weight : 0 .. Total, custom : BOOLEAN]

\* What the constants are assumed to be.
WeightsAssumption ==
    /\ IsFiniteSet(Variants)
    /\ Total \in Nat
    /\ Given \subseteq 0 .. Total
    /\ MaxBatch \in Nat \ {0}
    /\ None \notin Row

\* What a request does to one row: the row it writes (None: it deletes it) and
\* whether it checks the sum of the custom weights first.
Item == [v : Variants, row : Row \cup {None}, checks : BOOLEAN]

\* `mine': the rows written so far. `plan': the updates of the redistribution
\* still to do. `seen': did deleteVariant find the row? `alone' (history): has
\* no other request run since this one began?
Idle == [pc |-> "idle", op |-> None, todo |-> <<>>, mine |-> <<>>, plan |-> <<>>,
         gone |-> {}, deleted |-> {}, seen |-> TRUE, alone |-> TRUE]

Partial(f, S) == DOMAIN f \subseteq Variants /\ \A v \in DOMAIN f : f[v] \in S

TypeOK ==
    /\ sv \in [Variants -> Row \cup {None}]
    /\ \A t \in Txs :
         /\ tx[t].pc \in {"idle", "check", "write", "read", "spread", "commit"}
         /\ tx[t].op \in {None, "add", "update", "remove", "delete"}
         /\ \A i \in DOMAIN tx[t].todo : tx[t].todo[i] \in Item
         /\ Partial(tx[t].mine, Row \cup {None})
         /\ Partial(tx[t].plan, 0 .. Total)
         /\ tx[t].gone \subseteq Variants /\ tx[t].deleted \subseteq Variants
         /\ tx[t].pc # "idle" => tx[t].todo # <<>>

Init ==
    /\ sv = [v \in Variants |-> None]
    /\ tx = [t \in Txs |-> Idle]

-----------------------------------------------------------------------------
(* What a transaction sees.                                                *)

View(t) == [v \in Variants |-> IF v \in DOMAIN tx[t].mine THEN tx[t].mine[v] ELSE sv[v]]

Customs(rows) == {v \in Variants : rows[v] # None /\ rows[v].custom}
Autos(rows)   == {v \in Variants : rows[v] # None /\ ~ rows[v].custom}

WeightOf(rows, S) == MapThenSumSet(LAMBDA v : rows[v].weight, S)

\* No other transaction holds the row's lock.
Free(t, v) == \A u \in Txs \ {t} : v \notin DOMAIN tx[u].mine

Put(f, v, x) == [w \in DOMAIN f \cup {v} |-> IF w = v THEN x ELSE f[w]]

-----------------------------------------------------------------------------
(* The handlers, up to their transaction.                                  *)

Begin(t, op, items, seen) ==
    /\ tx[t].pc = "idle"
    /\ tx' = [u \in Txs |->
                IF u = t
                THEN [Idle EXCEPT !.pc = "check", !.op = op, !.todo = items, !.seen = seen,
                                  !.alone = \A w \in Txs : tx[w].pc = "idle"]
                ELSE IF tx[u].pc = "idle" THEN tx[u] ELSE [tx[u] EXCEPT !.alone = FALSE]]
    /\ UNCHANGED sv

\* A variant is added without a custom weight, or with the one given.
Additions ==
    {[v |-> v, row |-> [weight |-> 0, custom |-> FALSE], checks |-> FALSE] : v \in Variants}
    \cup {[v |-> v, row |-> [weight |-> w, custom |-> TRUE], checks |-> w > 0] :
            v \in Variants, w \in Given \cup {0}}

AddVariantToStrategy(t) == \E item \in Additions : Begin(t, "add", <<item>>, TRUE)

\* (A batch that names a variant twice ends at its check: Fails covers it.)
BatchAddVariantsToStrategy(t) ==
    \E n \in 1 .. MaxBatch : \E items \in [1 .. n -> Additions] :
        /\ \A i, j \in 1 .. n : items[i].v = items[j].v => i = j
        /\ Begin(t, "add", items, TRUE)

\* The row is read before the transaction, and its weight is kept, unchecked,
\* when the request gives none.
UpdateStrategyVariant(t) ==
    \E v \in Variants, custom \in BOOLEAN, w \in Given \cup {None} :
        /\ sv[v] # None
        /\ Begin(t, "update",
                 <<[v |-> v, checks |-> custom /\ w # None,
                    row |-> [custom |-> custom,
                             weight |-> IF ~ custom THEN 0
                                        ELSE IF w = None THEN sv[v].weight ELSE w]]>>,
                 TRUE)

RemoveVariantFromStrategy(t) == \E v \in Variants :
    /\ sv[v] # None
    /\ Begin(t, "remove", <<[v |-> v, row |-> None, checks |-> FALSE]>>, TRUE)

\* VariantService.deleteVariant: which strategies have the variant is read
\* before the transaction.
DeleteVariant(t) == \E v \in Variants :
    Begin(t, "delete", <<[v |-> v, row |-> None, checks |-> FALSE]>>, sv[v] # None)

-----------------------------------------------------------------------------
(* The statements of the transaction.                                      *)

Rollback(t) == tx' = [tx EXCEPT ![t] = Idle] /\ UNCHANGED sv

\* Slip: the weight asked for is left out of the sum.
SumFull(t, item) ==
    item.checks /\ WeightOf(View(t), Customs(View(t)) \ {item.v}) > Total

SumTooLarge(t, item) ==
    item.checks /\ WeightOf(View(t), Customs(View(t)) \ {item.v}) + item.row.weight > Total

Check(t) ==
    LET item == Head(tx[t].todo)
    IN  /\ tx[t].pc = "check"
        /\ IF (tx[t].op = "add" /\ View(t)[item.v] # None) \/ SumTooLarge(t, item)
           THEN Rollback(t)
           ELSE tx' = [tx EXCEPT ![t].pc = "write"] /\ UNCHANGED sv

\* The insert, update or delete. An insert fails on a row that appeared, or on
\* a variant that was deleted; an update or a delete of one row on a row that
\* is gone.
Write(t) ==
    LET item == Head(tx[t].todo)
        fails == CASE tx[t].op = "add" -> View(t)[item.v] # None \/ item.v \in tx[t].deleted
                   [] tx[t].op \in {"update", "remove"} -> item.v \in tx[t].gone
                   [] tx[t].op = "delete" -> FALSE
    IN  /\ tx[t].pc = "write"
        /\ Free(t, item.v)
        /\ IF fails
           THEN Rollback(t)
           ELSE /\ tx' = [tx EXCEPT ![t] = [tx[t] EXCEPT
                     !.mine = IF tx[t].op = "delete" /\ sv[item.v] = None
                              THEN tx[t].mine ELSE Put(tx[t].mine, item.v, item.row),
                     !.pc   = IF tx[t].seen THEN "read" ELSE "commit"]]
                /\ UNCHANGED sv

\* After a redistribution: the next variant of the batch, or the commit.
Onward(r) ==
    IF Len(r.todo) > 1 THEN [r EXCEPT !.pc = "check", !.todo = Tail(@)]
                       ELSE [r EXCEPT !.pc = "commit"]

\* What the custom weights leave, and each row's share of it.
Remaining(rows) ==
    LET left == Total - WeightOf(rows, Customs(rows)) IN IF left < 0 THEN 0 ELSE left
Share(rows) == Remaining(rows) \div Cardinality(Autos(rows))

\* Slip: the rounding is not reduced by what the other rows got.
SharesNotReduced(rows, first) ==
    [v \in Autos(rows) |-> IF v = first THEN Share(rows) + Remaining(rows) ELSE Share(rows)]

\* The first row (no order is asked for) gets what the rounding leaves.
Shares(rows, first) ==
    [v \in Autos(rows) |->
        IF v = first
        THEN Remaining(rows) - Share(rows) * (Cardinality(Autos(rows)) - 1)
        ELSE Share(rows)]

\* Slip: the rows as they were before the write are spread over.
ReadRowsBefore(t) ==
    /\ tx[t].pc = "read"
    /\ \/ /\ Autos(sv) = {}
          /\ tx' = [tx EXCEPT ![t] = Onward(tx[t])]
       \/ \E first \in Autos(sv) :
             tx' = [tx EXCEPT ![t] = [tx[t] EXCEPT !.pc = "spread", !.gone = {},
                                                   !.plan = Shares(sv, first)]]
    /\ UNCHANGED sv

ReadRows(t) ==
    /\ tx[t].pc = "read"
    /\ \/ /\ Autos(View(t)) = {}
          /\ tx' = [tx EXCEPT ![t] = Onward(tx[t])]
       \/ \E first \in Autos(View(t)) :
             tx' = [tx EXCEPT ![t] = [tx[t] EXCEPT !.pc = "spread", !.gone = {},
                                                   !.plan = Shares(View(t), first)]]
    /\ UNCHANGED sv

\* One update of the redistribution: only the weight is written.
Spread(t, v) ==
    LET row  == [View(t)[v] EXCEPT !.weight = tx[t].plan[v]]
        done == [tx[t] EXCEPT !.mine = Put(tx[t].mine, v, row),
                              !.plan = Restrict(tx[t].plan, DOMAIN tx[t].plan \ {v})]
    IN  /\ tx[t].pc = "spread"
        /\ v \in DOMAIN tx[t].plan
        /\ Free(t, v)
        /\ IF v \in tx[t].gone
           THEN Rollback(t)
           ELSE /\ tx' = [tx EXCEPT ![t] = IF DOMAIN tx[t].plan = {v} THEN Onward(done) ELSE done]
                /\ UNCHANGED sv

\* Does the transaction still write rows, or insert variants, it has found?
RowsAhead(r) ==
    r.pc = "spread" \/ (r.op \in {"update", "remove"} /\ r.pc \in {"check", "write"})
InsertsAhead(r) == r.op = "add" /\ (r.pc \in {"check", "write"} \/ Len(r.todo) > 1)

\* deleteVariant deletes the variant last, and with it (ON DELETE CASCADE) a
\* row that was added since its deleteMany.
Commit(t) ==
    LET target  == Head(tx[t].todo).v
        whole   == tx[t].op = "delete"
        new     == IF whole THEN [View(t) EXCEPT ![target] = None] ELSE View(t)
        removed == {v \in Variants : sv[v] # None /\ new[v] = None}
    IN  /\ tx[t].pc = "commit"
        /\ whole => Free(t, target)
        /\ sv' = new
        /\ tx' = [u \in Txs |->
                    IF u = t THEN Idle
                    ELSE IF tx[u].pc = "idle" THEN tx[u]
                    ELSE [tx[u] EXCEPT
                            !.gone    = IF RowsAhead(tx[u]) THEN tx[u].gone \cup removed ELSE {},
                            !.deleted = IF ~ InsertsAhead(tx[u]) THEN {}
                                        ELSE tx[u].deleted \cup (IF whole THEN {target} ELSE {})]]

\* The process stops, the transaction's 5 s are over, or it is the victim of a
\* deadlock of row locks.
Fails(t) == tx[t].pc # "idle" /\ Rollback(t)

-----------------------------------------------------------------------------
Next == \E t \in Txs :
    \/ AddVariantToStrategy(t)
    \/ BatchAddVariantsToStrategy(t)
    \/ UpdateStrategyVariant(t)
    \/ RemoveVariantFromStrategy(t)
    \/ DeleteVariant(t)
    \/ Check(t)
    \/ Write(t)
    \/ ReadRows(t)
    \/ \E v \in Variants : Spread(t, v)
    \/ Commit(t)
    \/ Fails(t)

Spec == Init /\ [][Next]_vars

-----------------------------------------------------------------------------
(* Properties.                                                             *)

\* The rows without a custom weight have exactly what the others leave, in
\* equal shares but for one that also has the rounding.
SplitEqually(rows) ==
    Autos(rows) # {} =>
        /\ WeightOf(rows, Autos(rows)) = Remaining(rows)
        /\ \E first \in Autos(rows) :
             \A v \in Autos(rows) \ {first} : rows[v].weight = Share(rows)

\* docs/variants.md:101, "Total custom weight sum cannot exceed 100".
CustomsFit(rows) == WeightOf(rows, Customs(rows)) <= Total

\* Whatever overlapping requests did to the weights before, a request that runs
\* with no other beside it and redistributes leaves them split correctly
\* (redistributeNonCustomWeights reads every row back; docs/variants.md:104,
\* "Non-custom variants automatically receive the remaining weight split
\* equally").
RepairsWhenAlone ==
    [][\A t \in Txs : tx[t].alone /\ tx[t].seen /\ Commit(t) => SplitEqually(sv')]_vars

\* From weights that are in order, a request that runs with no other beside it
\* leaves custom weights that fit: also one that switches a variant to a custom
\* weight without giving one, whose share is then kept unchecked
\* (updateStrategyVariant).
FitsWhenAlone ==
    [][\A t \in Txs : tx[t].alone /\ Commit(t) =>
         (CustomsFit(sv) /\ SplitEqually(sv) => CustomsFit(sv'))]_vars

=============================================================================
