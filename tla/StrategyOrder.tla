--------------------------- MODULE StrategyOrder ---------------------------
(***************************************************************************)
(* The order in which the strategies of a flag are evaluated: the          *)
(* priority, the environment and the default mark of each, as the handlers *)
(* of StrategyService change them. createStrategy and updateStrategy check *)
(* first and write in a transaction later (READ COMMITTED); inside it each *)
(* environment of the request is read and then written. Writes become      *)
(* visible at the commit; rows written before it are locked.               *)
(*                                                                         *)
(* strat is a sequence because ids are handed out in order and never       *)
(* again: a strategy is an index of strat.                                 *)
(***************************************************************************)
EXTENDS Integers, FiniteSets, SequencesExt

CONSTANTS
    Envs,           \* the environments of one flag (featureFlagEnvironment)
    Requests,       \* concurrent calls of createStrategy and updateStrategy
    Given,          \* the priorities a request may name
    MaxStrategies,  \* bound: strategies ever created
    None,
    Deleted

VARIABLES
    strat,  \* strat[i]: the row of strategy i, or Deleted
    req     \* req[r]: the call that runs in r

vars == <<strat, req>>

Row == [env : Envs, default : BOOLEAN, priority : Nat]

\* What the constants are assumed to be.
OrderAssumption ==
    /\ Given \subseteq Nat
    /\ MaxStrategies \in Nat
    /\ None \notin Nat /\ None \notin Requests
    /\ Deleted \notin Row

\* The call: `among' are the environments its default check looks at, `row'
\* and `target' what updateStrategy moves and where to, `default' and
\* `priority' (None: left to the code) what it writes, `todo' the environments
\* it still has to create a strategy in, `listed' and `next' what it read of
\* the first of them, `mine' the rows it changed and `new' those it created.
\* `reordered' (history): has a reordering committed since the call began?
Idle == [pc |-> "idle", among |-> {}, row |-> 0, target |-> None, default |-> None,
         priority |-> None, copied |-> None, todo |-> {}, env |-> None, listed |-> <<>>,
         next |-> 0, mine |-> <<>>, new |-> <<>>, reordered |-> FALSE]

TypeOK ==
    /\ Len(strat) <= MaxStrategies
    /\ \A i \in DOMAIN strat : strat[i] \in Row \cup {Deleted}
    /\ \A r \in Requests :
         /\ req[r].pc \in {"idle", "check", "move", "read", "write", "commit"}
         /\ req[r].todo \subseteq Envs
         /\ req[r].pc = "write" => req[r].env \in req[r].todo
         /\ \A i \in DOMAIN req[r].mine : i \in DOMAIN strat /\ req[r].mine[i] \in Row
         /\ \A i \in DOMAIN req[r].new : req[r].new[i] \in Row

Init == strat = <<>> /\ req = [r \in Requests |-> Idle]

Live(rows) == {i \in DOMAIN rows : rows[i] # Deleted}
InEnv(rows, e) == {i \in Live(rows) : rows[i].env = e}
View(r) == [i \in DOMAIN strat |-> IF i \in DOMAIN req[r].mine THEN req[r].mine[i] ELSE strat[i]]

\* No transaction but r's (None: none at all) has written the rows S.
Free(r, S) == \A q \in Requests \ {r} : S \cap DOMAIN req[q].mine = {}

-----------------------------------------------------------------------------
(* createStrategy and updateStrategy.                                      *)

CreateStrategy(r) ==
    \E es \in SUBSET Envs \ {{}}, default \in BOOLEAN, given \in Given \cup {None} :
        /\ req[r].pc = "idle"
        /\ req' = [req EXCEPT ![r] =
             [pc |-> IF default THEN "check" ELSE "read", among |-> es, row |-> 0,
              target |-> None, default |-> default, priority |-> IF default THEN 0 ELSE given,
              copied |-> default, todo |-> es, env |-> None, listed |-> <<>>, next |-> 0,
              mine |-> <<>>, new |-> <<>>, reordered |-> FALSE]]
        /\ UNCHANGED strat

\* The strategy stays in its environment if the request names it, or names
\* none; the others of the request get a copy.
UpdateStrategy(r) ==
    \E i \in Live(strat), es \in SUBSET Envs, default \in BOOLEAN \cup {None},
       given \in Given \cup {None} :
        LET here == strat[i].env
            stays == es = {} \/ here \in es
        IN  \E target \in (IF stays THEN {here} ELSE es) :
            /\ req[r].pc = "idle"
            /\ req' = [req EXCEPT ![r] =
                 [pc |-> IF default = TRUE THEN "check" ELSE "move",
                  among |-> IF es = {} THEN {here} ELSE es, row |-> i, target |-> target,
                  default |-> default, priority |-> given,
                  copied |-> IF default = None THEN strat[i].default ELSE default,
                  todo |-> es \ {target}, env |-> None, listed |-> <<>>, next |-> 0,
                  mine |-> <<>>, new |-> <<>>, reordered |-> FALSE]]
            /\ UNCHANGED strat

OtherDefaults(r) ==
    {j \in Live(strat) : strat[j].default /\ strat[j].env \in req[r].among /\ j # req[r].row}

\* Another default strategy where one is asked for: BadRequestException.
CheckDefault(r) ==
    /\ req[r].pc = "check"
    /\ req' = [req EXCEPT ![r] =
                 IF OtherDefaults(r) # {} THEN Idle
                 ELSE [req[r] EXCEPT !.pc = IF req[r].row = 0 THEN "read" ELSE "move"]]
    /\ UNCHANGED strat

OrElse(x, old) == IF x = None THEN old ELSE x

Onward(todo) == IF todo = {} THEN "commit" ELSE "read"

\* updateStrategy's own row; it may have been deleted since it was read.
MoveStrategy(r) ==
    LET i == req[r].row
    IN  /\ req[r].pc = "move"
        /\ Free(r, {i})
        /\ req' = [req EXCEPT ![r] =
                     IF strat[i] = Deleted THEN Idle
                     ELSE [req[r] EXCEPT
                             !.pc = Onward(req[r].todo),
                             !.mine = [x \in {i} |->
                                         [env |-> req[r].target,
                                          default |-> OrElse(req[r].default, strat[i].default),
                                          priority |-> OrElse(req[r].priority, strat[i].priority)]]]]
        /\ UNCHANGED strat

\* Slip: the strategies are counted.
CountedPriority(rows, S) == Cardinality(S) - 1

\* Slip: a new strategy goes below the others instead of above them.
PriorityBelow(rows, S) == IF S = {} THEN -1 ELSE Min({rows[i].priority : i \in S}) - 2

HighestPriority(rows, S) == IF S = {} THEN -1 ELSE Max({rows[i].priority : i \in S})

\* Ascending by priority, ties in any order.
Ascending(rows, S) ==
    {s \in SetToSeqs(S) : \A m, n \in DOMAIN s : m < n => rows[s[m]].priority <= rows[s[n]].priority}

\* Slip: sorted the way strategies are listed everywhere else.
Descending(rows, S) ==
    {s \in SetToSeqs(S) : \A m, n \in DOMAIN s : m < n => rows[s[m]].priority >= rows[s[n]].priority}

ExistingStrategies(rows, S) == Ascending(rows, S)

\* A new default strategy goes below the others, which are renumbered for that.
Renumbers(c) == c.row = 0 /\ c.default = TRUE

\* The highest priority of the environment, and the list of those to renumber.
ReadEnv(r, e) ==
    LET rows == View(r)
    IN  /\ req[r].pc = "read"
        /\ e \in req[r].todo
        /\ \E listed \in (IF Renumbers(req[r]) THEN ExistingStrategies(rows, InEnv(rows, e))
                                              ELSE {<<>>}) :
             req' = [req EXCEPT ![r] =
                       [req[r] EXCEPT !.pc = "write", !.env = e, !.listed = listed,
                                      !.next = HighestPriority(rows, InEnv(rows, e)) + 1]]
        /\ UNCHANGED strat

\* The listed strategies get the priorities 1, 2, ..., the new one its own.
WriteEnv(r) ==
    LET me == req[r]
        changed == ToSet(me.listed)
        written == [i \in changed \cup DOMAIN me.mine |->
            IF i \in changed
            THEN [strat[i] EXCEPT !.priority = CHOOSE n \in DOMAIN me.listed : me.listed[n] = i]
            ELSE me.mine[i]]
        created == [env |-> me.env, default |-> me.copied,
                    priority |-> OrElse(me.priority, me.next)]
        left == me.todo \ {me.env}
    IN  /\ me.pc = "write"
        /\ Free(r, changed)
        /\ req' = [req EXCEPT ![r] =
                     IF \E i \in changed : strat[i] = Deleted THEN Idle
                     ELSE [me EXCEPT !.pc = Onward(left), !.todo = left,
                                     !.mine = written, !.new = Append(me.new, created)]]
        /\ UNCHANGED strat

Commit(r) ==
    /\ req[r].pc = "commit"
    /\ Len(strat) + Len(req[r].new) <= MaxStrategies
    /\ strat' = View(r) \o req[r].new
    /\ req' = [req EXCEPT ![r] = Idle]

\* The process stops, the transaction times out or loses a deadlock.
Fails(r) ==
    /\ req[r].pc # "idle"
    /\ req' = [req EXCEPT ![r] = Idle]
    /\ UNCHANGED strat

-----------------------------------------------------------------------------
(* Handlers of one statement, or of one batch.                             *)

DeleteStrategy(i) ==
    /\ i \in Live(strat)
    /\ Free(None, {i})
    /\ strat' = [strat EXCEPT ![i] = Deleted]
    /\ UNCHANGED req

\* The ids are the request's, in one environment or several: the handler does not look
\* at the one that the route names before it has written.
ReorderStrategies(ids) ==
    /\ ids # <<>>
    /\ Free(None, ToSet(ids))
    /\ strat' = [i \in DOMAIN strat |->
                   IF i \in ToSet(ids)
                   THEN [strat[i] EXCEPT
                           !.priority = Len(ids) + 1 - CHOOSE n \in DOMAIN ids : ids[n] = i]
                   ELSE strat[i]]
    /\ req' = [r \in Requests |->
                 IF req[r].pc = "idle" THEN Idle ELSE [req[r] EXCEPT !.reordered = TRUE]]

-----------------------------------------------------------------------------
Next ==
    \/ \E r \in Requests :
         \/ CreateStrategy(r)
         \/ UpdateStrategy(r)
         \/ CheckDefault(r)
         \/ MoveStrategy(r)
         \/ \E e \in Envs : ReadEnv(r, e)
         \/ WriteEnv(r)
         \/ Commit(r)
         \/ Fails(r)
    \/ \E i \in DOMAIN strat : DeleteStrategy(i)
    \/ \E ids \in SetToAllKPermutations(Live(strat)) : ReorderStrategies(ids)

Spec == Init /\ [][Next]_vars

-----------------------------------------------------------------------------
(* Properties.                                                             *)

\* Undisturbed: no reordering has committed since the call of createStrategy began.
Creates(r) == Commit(r) /\ req[r].row = 0 /\ ~req[r].reordered

\* Whatever order moving and copying between environments, partial reorderings and
\* priorities named by requests left behind, ties included, creating a strategy
\* never swaps two that exist: the renumbering before a default strategy keeps who
\* is evaluated before whom, deletions at any moment included.
CreateKeepsOrder ==
    [][\A r \in Requests : Creates(r) =>
         \A i, j \in Live(strat) :
             /\ strat[i].env = strat[j].env
             /\ strat[i].priority < strat[j].priority
             => strat'[i].priority < strat'[j].priority]_vars

\* A strategy created without a priority gets a number above those of all others of
\* its environment, a default strategy one below them (strategy.service.ts:122,
\* "Default strategies always have zero priority so they stay strictly below all
\* other strategies in the environment"), even if a deletion commits between
\* reading the highest number and creating it. Highest first is the order in which
\* the service lists them and docs/strategies.md:33 has them evaluated; the property
\* is about the creation and not about what a later reordering does.
CreatedInPlace ==
    [][\A r \in Requests : Creates(r) /\ (req[r].default \/ req[r].priority = None) =>
         \A i \in DOMAIN strat' \ DOMAIN strat, j \in Live(strat') :
             i # j /\ strat'[i].env = strat'[j].env =>
                 IF strat'[i].default THEN strat'[i].priority < strat'[j].priority
                                      ELSE strat'[i].priority > strat'[j].priority]_vars
=============================================================================
