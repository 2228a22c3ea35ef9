---------------------------- MODULE FlagsProofs ----------------------------
(***************************************************************************)
(* The rows that hang on a project's flags, for any number of flags,       *)
(* environments, variants, strategies and calls: which flag misses its row *)
(* in an environment, what the weights of a strategy's variants add up to, *)
(* and where a new strategy is put in the order of evaluation. Each of the *)
(* three has an inductive invariant of its own: Known, AllProper and, for  *)
(* a single call, AllTidy.                                                 *)
(***************************************************************************)
EXTENDS MCFlags, FiniteSetTheorems, SequenceTheorems, TLAPS

-----------------------------------------------------------------------------
(* Which flags have a row in which environments.                           *)

USE SystemAssumption

Call == [pc : {"idle", "list", "sync", "flags"}, envs : SUBSET Envs, flags : SUBSET Flags]

Excused(f, e, q) ==
    /\ e \in req[q].envs
    /\ req[q].pc = "list" \/ (req[q].pc = "sync" /\ f \in req[q].flags)

Accounted(f, e) == <<f, e>> \in row \cup gap \/ \E q \in Requests : Excused(f, e, q)

OneEnvironment(q) ==
    req[q].pc \in {"list", "sync"} => \A d, e \in req[q].envs : d = e

Typed ==
    /\ TypeOK
    /\ req \in [Requests -> Call]

Known ==
    /\ Typed
    /\ \A q \in Requests : OneEnvironment(q)
    /\ \A f \in Existing, e \in env : Accounted(f, e)

-----------------------------------------------------------------------------
\* The property is a part of it.
LEMMA KnownIsProperty == Known => MissingRowsAreKnown
BY DEF Known, MissingRowsAreKnown, Accounted, Excused

\* No flags exist.
LEMMA KnownInit ==
    Init => Known
BY DEF Init, Known, Typed, TypeOK, Call, Idle, OneEnvironment, Existing

\* Flags and environments stay, a call goes on to c, and what excused a pair it was
\* about has become a row or is on record.
LEMMA CallStep ==
    ASSUME Known, NEW r \in Requests, NEW c \in Call,
           req' = [req EXCEPT ![r] = c], UNCHANGED <<flag, env>>,
           row \subseteq row', row' \subseteq Existing \X env,
           gap \subseteq gap', gap' \subseteq Existing \X env,
           c.pc \in {"list", "sync"} => \A d, e \in c.envs : d = e,
           \A f \in Existing, e \in env : Excused(f, e, r) =>
               \/ <<f, e>> \in row' \cup gap'
               \/ e \in c.envs /\ (c.pc = "list" \/ (c.pc = "sync" /\ f \in c.flags))
    PROVE  Known'
<1>1. \A q \in Requests : req'[q] = IF q = r THEN c ELSE req[q]
  BY DEF Known, Typed
<1>2. Existing' = Existing
  BY DEF Existing
<1>3. Typed'
  <2>1. req' \in [Requests -> Call]
    BY DEF Known, Typed
  <2>2. \A q \in Requests : /\ req'[q].pc \in {"idle", "list", "sync", "flags"}
                            /\ req'[q].envs \subseteq Envs /\ req'[q].flags \subseteq Flags
    BY <2>1 DEF Call
  <2> QED BY <1>2, <2>1, <2>2 DEF Known, Typed, TypeOK
<1>4. \A q \in Requests : OneEnvironment(q)'
  BY <1>1 DEF Known, OneEnvironment
<1>5. ASSUME NEW f \in Existing, NEW e \in env PROVE Accounted(f, e)'
  <2>1. CASE <<f, e>> \in row \cup gap
    BY <2>1 DEF Accounted
  <2>2. ASSUME NEW q \in Requests, Excused(f, e, q) PROVE Accounted(f, e)'
    <3>1. CASE q = r
      BY <1>1, <2>2, <3>1 DEF Accounted, Excused
    <3>2. CASE q # r
      BY <1>1, <2>2, <3>2 DEF Accounted, Excused
    <3> QED BY <3>1, <3>2
  <2> QED BY <2>1, <2>2 DEF Known, Accounted
<1> QED BY <1>2, <1>3, <1>4, <1>5 DEF Known

-----------------------------------------------------------------------------
(* One lemma for each action that is more than such a step.                *)

\* The new environment is still to be listed; the call that creates it was idle.
LEMMA CreateEnvironmentStep ==
    ASSUME Known, NEW r \in Requests, NEW e \in Envs, CreateEnvironment(r, e)
    PROVE  Known'
<1> DEFINE c == [pc |-> "list", envs |-> {e}, flags |-> {}]
<1>1. c \in Call
  BY DEF Call
<1>2. \A q \in Requests : req'[q] = IF q = r THEN c ELSE req[q]
  BY DEF Known, Typed, CreateEnvironment
<1>3. Existing' = Existing /\ env' = env \cup {e} /\ UNCHANGED <<row, gap, flag>>
  BY DEF Existing, CreateEnvironment
<1>4. req' \in [Requests -> Call]
  BY <1>1 DEF Known, Typed, CreateEnvironment
<1>5. Typed'
  <2>1. \A q \in Requests : /\ req'[q].pc \in {"idle", "list", "sync", "flags"}
                            /\ req'[q].envs \subseteq Envs /\ req'[q].flags \subseteq Flags
    BY <1>4 DEF Call
  <2> QED BY <1>3, <1>4, <2>1 DEF Known, Typed, TypeOK
<1>6. \A q \in Requests : OneEnvironment(q)'
  BY <1>2 DEF Known, OneEnvironment
<1>7. ASSUME NEW f \in Existing, NEW d \in env \cup {e} PROVE Accounted(f, d)'
  <2>1. CASE d = e
    BY <1>2, <2>1 DEF Accounted, Excused
  <2>2. CASE d \in env /\ <<f, d>> \in row \cup gap
    BY <1>3, <2>2 DEF Accounted
  <2>3. ASSUME NEW q \in Requests, Excused(f, d, q) PROVE Accounted(f, d)'
    <3>1. q # r
      BY <2>3 DEF Excused, CreateEnvironment
    <3> QED BY <1>2, <2>3, <3>1 DEF Accounted, Excused
  <2> QED BY <2>1, <2>2, <2>3 DEF Known, Accounted
<1> QED BY <1>3, <1>5, <1>6, <1>7 DEF Known

\* Live flags wait for their row, archived ones are on record; an environment that is
\* gone needs no rows.
LEMMA ListFlagsStep ==
    ASSUME Known, NEW r \in Requests, ListFlags(r)
    PROVE  Known'
<1> DEFINE live == {f \in Flags : flag[f] = "live"}
           c == IF live = {} \/ ~ req[r].envs \subseteq env THEN Idle
                ELSE [req[r] EXCEPT !.pc = "sync", !.flags = live]
<1>1. req[r] \in Call /\ req[r].pc = "list"
  BY DEF Known, Typed, ListFlags
<1>2. Idle \in Call /\ [req[r] EXCEPT !.pc = "sync", !.flags = live] \in Call
  BY <1>1 DEF Idle, Call
<1>3. c \in Call
  BY <1>2
<1>4. req' = [req EXCEPT ![r] = c] /\ UNCHANGED <<flag, env, row>>
  BY DEF ListFlags, End
<1>5. gap' = gap \cup (((Existing \ live) \X (req[r].envs \cap env)) \ row)
  BY DEF ListFlags, Gap
<1>6. gap \subseteq gap' /\ gap' \subseteq Existing \X env
  BY <1>5 DEF Known, Typed, TypeOK
<1>7. c.pc \in {"list", "sync"} => \A d, e \in c.envs : d = e
  BY <1>1 DEF Known, OneEnvironment, Idle, Call
<1>8. ASSUME NEW f \in Existing, NEW e \in env, Excused(f, e, r)
      PROVE  <<f, e>> \in row' \cup gap' \/ (e \in c.envs /\ c.pc = "sync" /\ f \in c.flags)
  <2>1. e \in req[r].envs /\ req[r].envs \subseteq env
    BY <1>1, <1>8 DEF Excused, Known, OneEnvironment
  <2>2. CASE f \notin live
    BY <1>4, <1>5, <2>1, <2>2
  <2>3. CASE f \in live
    <3>1. c = [req[r] EXCEPT !.pc = "sync", !.flags = live]
      BY <2>1, <2>3
    <3> HIDE DEF c, live
    <3> QED BY <1>1, <2>1, <2>3, <3>1 DEF Call
  <2> QED BY <2>2, <2>3
<1>9. row' \subseteq Existing \X env /\ row \subseteq row'
  BY <1>4 DEF Known, Typed, TypeOK
<1> HIDE DEF c
<1> QED BY <1>3, <1>4, <1>6, <1>7, <1>8, <1>9, CallStep

\* The flags that waited have their rows, or all of them are on record.
LEMMA SyncFlagsStep ==
    ASSUME Known, NEW r \in Requests, SyncFlags(r)
    PROVE  Known'
<1> DEFINE me == req[r]
<1>1. Idle \in Call /\ Idle.pc = "idle"
  BY DEF Idle, Call
<1>2. req' = [req EXCEPT ![r] = Idle] /\ UNCHANGED <<flag, env>>
  BY DEF SyncFlags, End
<1>3. row \subseteq Existing \X env /\ gap \subseteq Existing \X env
  BY DEF Known, Typed, TypeOK
<1>4. CASE /\ me.envs \subseteq env /\ me.flags \subseteq Existing
           /\ row' = row \cup (me.flags \X me.envs) /\ UNCHANGED gap
  <2>1. row' \subseteq Existing \X env /\ row \subseteq row'
    BY <1>3, <1>4
  <2>2. \A f \in Existing, e \in env : Excused(f, e, r) => <<f, e>> \in row'
    BY <1>4 DEF Excused, SyncFlags
  <2> QED BY <1>1, <1>2, <1>3, <1>4, <2>1, <2>2, CallStep
<1>5. CASE row' = row /\ Gap((me.flags \cap Existing) \X (me.envs \cap env))
  <2>1. gap' \subseteq Existing \X env /\ gap \subseteq gap'
    BY <1>3, <1>5 DEF Gap
  <2>2. \A f \in Existing, e \in env : Excused(f, e, r) => <<f, e>> \in row' \cup gap'
    BY <1>5 DEF Excused, SyncFlags, Gap
  <2> QED BY <1>1, <1>2, <1>3, <1>5, <2>1, <2>2, CallStep
<1> QED BY <1>4, <1>5 DEF SyncFlags

\* New flags have rows where their creation read an environment, are still to be
\* listed, or are on record.
LEMMA CommitFlagsStep ==
    ASSUME Known, NEW r \in Requests, CommitFlags(r)
    PROVE  Known'
<1> DEFINE me == req[r]
<1>1. Idle \in Call /\ Idle.pc = "idle" /\ me \in Call /\ me.pc = "flags"
  BY DEF Idle, Call, Known, Typed, CommitFlags
<1>2. req' = [req EXCEPT ![r] = Idle] /\ env' = env
  BY DEF CommitFlags, End
<1>3. row \subseteq Existing \X env /\ gap \subseteq Existing \X env
  BY DEF Known, Typed, TypeOK
<1>4. CASE UNCHANGED <<flag, row, gap>>
  BY <1>1, <1>2, <1>3, <1>4, CallStep DEF Excused
<1>5. CASE /\ me.envs \subseteq env
           /\ flag' = [f \in Flags |-> IF f \in me.flags THEN "live" ELSE flag[f]]
           /\ row' = row \cup NewRows(me)
           /\ Gap(me.flags \X ((env \ me.envs) \ ToBeListed))
  <2>1. Existing' = Existing \cup me.flags
    BY <1>1, <1>5 DEF Existing, Call
  <2>2. \A q \in Requests : req'[q] = IF q = r THEN Idle ELSE req[q]
    BY <1>2 DEF Known, Typed
  <2>3. gap' = gap \cup ((me.flags \X ((env \ me.envs) \ ToBeListed)) \ row)
    BY <1>5 DEF Gap
  <2>4. Typed'
    <3>1. row' \subseteq Existing' \X env'
      BY <1>2, <1>3, <1>5, <2>1 DEF NewRows
    <3>2. gap' \subseteq Existing' \X env'
      BY <1>2, <1>3, <2>1, <2>3
    <3>3. flag' \in [Flags -> {"none", "live", "archived"}]
      BY <1>5 DEF Known, Typed, TypeOK
    <3>4. req' \in [Requests -> Call]
      BY <1>1, <1>2 DEF Known, Typed
    <3>5. \A q \in Requests : /\ req'[q].pc \in {"idle", "list", "sync", "flags"}
                              /\ req'[q].envs \subseteq Envs /\ req'[q].flags \subseteq Flags
      BY <3>4 DEF Call
    <3> QED BY <1>2, <3>1, <3>2, <3>3, <3>4, <3>5 DEF Known, Typed, TypeOK
  <2>5. \A q \in Requests : OneEnvironment(q)'
    BY <1>1, <2>2 DEF Known, OneEnvironment
  <2>6. ASSUME NEW f \in Existing \cup me.flags, NEW e \in env PROVE Accounted(f, e)'
    <3>1. CASE f \in me.flags /\ e \in me.envs
      BY <1>5, <3>1 DEF NewRows, Accounted
    <3>2. CASE f \in me.flags /\ e \notin me.envs /\ e \in ToBeListed
      <4>1. PICK q \in Requests : req[q].pc = "list" /\ e \in req[q].envs
        BY <3>2 DEF ToBeListed
      <4>2. q # r
        BY <1>1, <4>1
      <4> QED BY <2>2, <4>1, <4>2 DEF Accounted, Excused
    <3>3. CASE f \in me.flags /\ e \notin me.envs /\ e \notin ToBeListed
      BY <1>5, <2>3, <3>3 DEF Accounted
    <3>4. CASE f \in Existing
      <4>1. CASE <<f, e>> \in row \cup gap
        BY <1>5, <2>3, <4>1 DEF Accounted
      <4>2. ASSUME NEW q \in Requests, Excused(f, e, q) PROVE Accounted(f, e)'
        <5>1. q # r
          BY <1>1, <4>2 DEF Excused
        <5> QED BY <2>2, <4>2, <5>1 DEF Accounted, Excused
      <4> QED BY <3>4, <4>1, <4>2 DEF Known, Accounted
    <3> QED BY <3>1, <3>2, <3>3, <3>4
  <2> QED BY <1>2, <2>1, <2>4, <2>5, <2>6 DEF Known
<1> QED BY <1>4, <1>5 DEF CommitFlags

\* What the call was still to do for its environment is on record.
LEMMA FailsStep ==
    ASSUME Known, NEW r \in Requests, Fails(r)
    PROVE  Known'
<1>1. Idle \in Call /\ Idle.pc = "idle" /\ req[r] \in Call
  BY DEF Idle, Call, Known, Typed
<1>2. req' = [req EXCEPT ![r] = Idle] /\ UNCHANGED <<flag, env, row>>
  BY DEF Fails, End
<1>3. row \subseteq Existing \X env /\ gap \subseteq Existing \X env
  BY DEF Known, Typed, TypeOK
<1>4. CASE req[r].pc = "flags" /\ UNCHANGED gap
  BY <1>1, <1>2, <1>3, <1>4, CallStep DEF Excused
<1>5. CASE gap' = gap \cup ((Existing \X (req[r].envs \cap env)) \ row)
  <2>1. gap' \subseteq Existing \X env /\ gap \subseteq gap'
    BY <1>3, <1>5
  <2>2. \A f \in Existing, e \in env : Excused(f, e, r) => <<f, e>> \in row' \cup gap'
    BY <1>2, <1>5 DEF Excused
  <2> QED BY <1>1, <1>2, <1>3, <2>1, <2>2, CallStep
<1> QED BY <1>4, <1>5 DEF Fails, Gap

\* Calls stay, and of what still exists no row and no record is dropped.
LEMMA RowsStep ==
    ASSUME Known, UNCHANGED req, TypeOK',
           Existing' \subseteq Existing, env' \subseteq env,
           \A f \in Existing', e \in env' : <<f, e>> \in row \cup gap => <<f, e>> \in row' \cup gap'
    PROVE  Known'
<1>1. Typed' /\ \A q \in Requests : OneEnvironment(q)'
  BY DEF Known, Typed, OneEnvironment
<1>2. ASSUME NEW f \in Existing', NEW e \in env' PROVE Accounted(f, e)'
  BY <1>2 DEF Known, Accounted, Excused
<1> QED BY <1>1, <1>2 DEF Known

-----------------------------------------------------------------------------
\* Every step keeps what is known.
LEMMA EveryStep ==
    ASSUME Known, [Next]_vars
    PROVE  Known'
<1>1. CASE UNCHANGED vars
  BY <1>1 DEF vars, Known, Typed, TypeOK, OneEnvironment, Existing, Accounted, Excused
<1>2. ASSUME NEW r \in Requests, NEW e \in Envs, CreateEnvironment(r, e) PROVE Known'
  BY <1>2, CreateEnvironmentStep
<1>3. ASSUME NEW r \in Requests, ListFlags(r) PROVE Known'
  BY <1>3, ListFlagsStep
<1>4. ASSUME NEW r \in Requests, SyncFlags(r) PROVE Known'
  BY <1>4, SyncFlagsStep
<1>5. ASSUME NEW r \in Requests, NEW new \in SUBSET Flags, CreateFeatureFlags(r, new) PROVE Known'
  <2> DEFINE c == [pc |-> "flags", envs |-> env, flags |-> new]
  <2>1. c \in Call /\ c.pc = "flags"
    BY DEF Call, Known, Typed, TypeOK
  <2>2. req' = [req EXCEPT ![r] = c] /\ UNCHANGED <<flag, env, row, gap>> /\ req[r].pc = "idle"
    BY <1>5 DEF CreateFeatureFlags
  <2>3. row \subseteq Existing \X env /\ gap \subseteq Existing \X env
    BY DEF Known, Typed, TypeOK
  <2> QED BY <2>1, <2>2, <2>3, CallStep DEF Excused
<1>6. ASSUME NEW r \in Requests, CommitFlags(r) PROVE Known'
  BY <1>6, CommitFlagsStep
<1>7. ASSUME NEW r \in Requests, Fails(r) PROVE Known'
  BY <1>7, FailsStep
<1>8. TypeOK
  BY DEF Known, Typed
<1>9. ASSUME NEW f \in Flags, NEW e \in Envs, ConfigureFlagForEnvironment(f, e) PROVE Known'
  <2>1. Existing' = Existing /\ TypeOK'
    BY <1>8, <1>9 DEF ConfigureFlagForEnvironment, TypeOK, Existing
  <2> QED BY <1>9, <2>1, RowsStep DEF ConfigureFlagForEnvironment
<1>10. ASSUME NEW f \in Flags, NEW archived \in BOOLEAN, UpdateFeatureFlag(f, archived) PROVE Known'
  <2>1. flag' \in [Flags -> {"none", "live", "archived"}] /\ Existing' = Existing
    BY <1>8, <1>10 DEF UpdateFeatureFlag, TypeOK, Existing
  <2>2. TypeOK'
    BY <1>8, <1>10, <2>1 DEF UpdateFeatureFlag, TypeOK
  <2> QED BY <1>10, <2>1, <2>2, RowsStep DEF UpdateFeatureFlag
<1>11. ASSUME NEW f \in Flags, DeleteFeatureFlag(f) PROVE Known'
  <2>1. flag' \in [Flags -> {"none", "live", "archived"}] /\ Existing' = Existing \ {f}
    BY <1>8, <1>11 DEF DeleteFeatureFlag, TypeOK, Existing
  <2>2. row' \subseteq Existing' \X env /\ gap' \subseteq Existing' \X env
    BY <1>8, <1>11, <2>1 DEF DeleteFeatureFlag, TypeOK
  <2>3. TypeOK'
    BY <1>8, <1>11, <2>1, <2>2 DEF DeleteFeatureFlag, TypeOK
  <2>4. \A g \in Existing', e \in env' : <<g, e>> \in row \cup gap => <<g, e>> \in row' \cup gap'
    BY <1>11, <2>1 DEF DeleteFeatureFlag
  <2> QED BY <1>11, <2>1, <2>3, <2>4, RowsStep DEF DeleteFeatureFlag
<1>12. ASSUME NEW e \in Envs, RemoveEnvironment(e) PROVE Known'
  <2>1. Existing' = Existing /\ env' = env \ {e}
    BY <1>12 DEF RemoveEnvironment, Existing
  <2>2. row' \subseteq Existing \X env' /\ gap' \subseteq Existing \X env'
    BY <1>8, <1>12, <2>1 DEF RemoveEnvironment, TypeOK
  <2>3. TypeOK'
    BY <1>8, <1>12, <2>1, <2>2 DEF RemoveEnvironment, TypeOK
  <2>4. \A g \in Existing', d \in env' : <<g, d>> \in row \cup gap => <<g, d>> \in row' \cup gap'
    BY <1>12, <2>1 DEF RemoveEnvironment
  <2> QED BY <1>12, <2>1, <2>3, <2>4, RowsStep DEF RemoveEnvironment
<1> QED
  BY <1>1, <1>2, <1>3, <1>4, <1>5, <1>6, <1>7, <1>9, <1>10, <1>11, <1>12 DEF Next

\* For any number of flags, environments and overlapping creations, a missing row is
\* one that is still to come or was left out in one of the ways on record.
THEOREM MissingRowsKnown ==
    Spec => []MissingRowsAreKnown
<1>1. Known /\ [Next]_vars => Known'
  BY EveryStep
<1> QED BY <1>1, KnownInit, KnownIsProperty, PTL DEF Spec

HIDE SystemAssumption

-----------------------------------------------------------------------------
(* Induction.                                                              *)

\* A set of natural numbers has a least one.
LEMMA Smallest ==
    ASSUME NEW T, T \subseteq Nat, T # {}
    PROVE  \E n \in T : \A m \in T : n <= m
<1>1. PICK n \in T : \A m \in T : <<m, n>> \notin OpToRel(<, Nat)
  BY WFMin, NatLessThanWellFounded
<1>2. ASSUME NEW m \in T PROVE ~ (m < n)
  <2>1. <<m, n>> \notin OpToRel(<, Nat) /\ <<m, n>> \in Nat \X Nat
    BY <1>1
  <2> QED BY <2>1 DEF OpToRel
<1> QED BY <1>2

\* What holds of 0, and of n + 1 if of n, holds of every natural number.
LEMMA Upward ==
    ASSUME NEW G, 0 \in G, \A n \in Nat : n \in G => n + 1 \in G
    PROVE  Nat \subseteq G
<1> DEFINE Bad == Nat \ G
<1> SUFFICES ASSUME Bad # {} PROVE FALSE
  OBVIOUS
<1>1. PICK n \in Bad : \A m \in Bad : n <= m
  BY Smallest
<1>2. n # 0
  OBVIOUS
<1>3. n - 1 \in Nat /\ n - 1 \notin Bad
  BY <1>1, <1>2
<1> QED BY <1>3

FiniteSubsets(S) == \A T \in SUBSET S : IsFiniteSet(T) /\ Cardinality(T) \in Nat

\* The subsets of a finite set are finite.
LEMMA SubsetsAreFinite ==
    ASSUME NEW S, IsFiniteSet(S)
    PROVE  FiniteSubsets(S)
BY FS_Subset, FS_CardinalityType DEF FiniteSubsets

\* Taking an element away.
LEMMA OneLess ==
    ASSUME NEW T, IsFiniteSet(T), NEW x \in T, NEW n \in Nat, Cardinality(T) = n + 1
    PROVE  Cardinality(T \ {x}) = n
<1>1. Cardinality(T \ {x}) = Cardinality(T) - 1
  BY FS_RemoveElement
<1> QED BY <1>1

\* What holds of the empty set, and of a subset of S if of all that lack one element,
\* holds of S.
LEMMA Growing ==
    ASSUME NEW S, IsFiniteSet(S), NEW G, {} \in G,
           \A T \in SUBSET S : T # {} /\ (\A x \in T : T \ {x} \in G) => T \in G
    PROVE  S \in G
<1> DEFINE N == {n \in Nat : \A T \in SUBSET S : Cardinality(T) = n => T \in G}
<1>1. \A T \in SUBSET S : IsFiniteSet(T) /\ Cardinality(T) \in Nat
  BY SubsetsAreFinite DEF FiniteSubsets
<1>2. 0 \in N
  BY <1>1, FS_EmptySet
<1>3. ASSUME NEW n \in Nat, n \in N PROVE n + 1 \in N
  <2> SUFFICES ASSUME NEW T \in SUBSET S, Cardinality(T) = n + 1 PROVE T \in G
    OBVIOUS
  <2>1. T # {}
    <3>1. Cardinality({}) = 0
      BY FS_EmptySet
    <3> QED BY <3>1
  <2>2. \A x \in T : T \ {x} \in G
    BY <1>1, <1>3, OneLess
  <2> QED BY <2>1, <2>2
<1>4. Nat \subseteq N
  <2> HIDE DEF N
  <2> QED BY <1>2, <1>3, Upward
<1>5. Cardinality(S) \in N
  BY <1>1, <1>4
<1> QED BY <1>5

-----------------------------------------------------------------------------
(* Sums. SumFunctionOnSet takes the elements one by one, in an order of    *)
(* its own, by a recursive function on the subsets; that there is one has  *)
(* to be shown first.                                                      *)

First(s) == CHOOSE x \in s : TRUE

FromRest(f, sum, s) == IF s = {} THEN 0 ELSE f[First(s)].weight + sum[s \ {First(s)}]

Sums(f, sum, D) == sum = [s \in D |-> FromRest(f, sum, s)]

SumOf(f, S) == CHOOSE sum : Sums(f, sum, SUBSET S)

\* The sums of the model are such sums.
LEMMA SumIsSumOf ==
    ASSUME NEW f, NEW S
    PROVE  Weights!WeightOf(f, S) = SumOf(f, S)[S]
BY DEF Weights!WeightOf, Weights!MapThenSumSet, Weights!MapThenFoldSet, SumOf, Sums, FromRest, First

\* The element taken first.
LEMMA FirstIn ==
    ASSUME NEW s, s # {}
    PROVE  First(s) \in s
BY DEF First

\* A function for the sets of up to n + 1 elements comes from one for up to n.
LEMMA SumOfExists ==
    ASSUME NEW f, NEW S, IsFiniteSet(S)
    PROVE  Sums(f, SumOf(f, S), SUBSET S)
<1> DEFINE Upto(n) == {s \in SUBSET S : Cardinality(s) <= n}
           N == {n \in Nat : \E sum : Sums(f, sum, Upto(n))}
<1>1. \A T \in SUBSET S : IsFiniteSet(T) /\ Cardinality(T) \in Nat /\ Cardinality(T) <= Cardinality(S)
  BY FS_Subset, FS_CardinalityType
<1>2. 0 \in N
  <2> DEFINE sum == [s \in Upto(0) |-> 0]
  <2>1. \A s \in Upto(0) : s = {}
    BY <1>1, FS_EmptySet
  <2>2. Sums(f, sum, Upto(0))
    BY <2>1 DEF Sums, FromRest
  <2> QED BY <2>2
<1>3. ASSUME NEW n \in Nat, n \in N PROVE n + 1 \in N
  <2>1. PICK sum : Sums(f, sum, Upto(n))
    BY <1>3
  <2> DEFINE more == [s \in Upto(n + 1) |-> FromRest(f, sum, s)]
  <2>2. ASSUME NEW s \in Upto(n + 1), s # {} PROVE s \ {First(s)} \in Upto(n)
    <3>1. Cardinality(s \ {First(s)}) = Cardinality(s) - 1
      BY <1>1, <2>2, FirstIn, FS_RemoveElement
    <3> QED BY <1>1, <3>1
  <2>3. \A s \in Upto(n) : s \in Upto(n + 1) /\ sum[s] = FromRest(f, sum, s)
    BY <1>1, <2>1 DEF Sums
  <2>4. \A s \in Upto(n) : more[s] = sum[s]
    BY <2>3
  <2>5. \A s \in Upto(n + 1) : FromRest(f, more, s) = FromRest(f, sum, s)
    <3> HIDE DEF more, Upto
    <3> QED BY <2>2, <2>4 DEF FromRest
  <2>6. Sums(f, more, Upto(n + 1))
    BY <2>5 DEF Sums
  <2>7. \E any : Sums(f, any, Upto(n + 1))
    <3> HIDE DEF more
    <3> QED BY <2>6
  <2>8. n + 1 \in Nat
    OBVIOUS
  <2> HIDE DEF Upto
  <2> QED BY <2>7, <2>8
<1>4. Nat \subseteq N
  <2> HIDE DEF N
  <2> QED BY <1>2, <1>3, Upward
<1>5. Cardinality(S) \in N
  BY <1>1, <1>4, FS_CardinalityType
<1>6. Upto(Cardinality(S)) = SUBSET S
  BY <1>1
<1> QED BY <1>5, <1>6 DEF SumOf

\* The function that sums over the subsets of S, applied to one.
LEMMA SumOfFromRest ==
    ASSUME NEW f, NEW S, IsFiniteSet(S), NEW T \in SUBSET S
    PROVE  SumOf(f, S)[T] = FromRest(f, SumOf(f, S), T)
<1> DEFINE sum == SumOf(f, S)
<1>1. Sums(f, sum, SUBSET S)
  BY SumOfExists
<1> HIDE DEF sum
<1>2. sum = [s \in SUBSET S |-> FromRest(f, sum, s)]
  BY <1>1 DEF Sums
<1>3. sum[T] = FromRest(f, sum, T)
  BY <1>2
<1> QED BY <1>3 DEF sum

\* The function that sums over S also sums over its subsets.
LEMMA SumOfSubset ==
    ASSUME NEW f, NEW S, IsFiniteSet(S), NEW U \in SUBSET S
    PROVE  SumOf(f, S)[U] = Weights!WeightOf(f, U)
<1> DEFINE G == {T \in SUBSET U : SumOf(f, S)[T] = SumOf(f, U)[T]}
<1>1. IsFiniteSet(U)
  BY FS_Subset
<1>2. \A T \in SUBSET U : /\ SumOf(f, S)[T] = FromRest(f, SumOf(f, S), T)
                          /\ SumOf(f, U)[T] = FromRest(f, SumOf(f, U), T)
  BY <1>1, SumOfFromRest
<1>3. {} \in G
  BY <1>2 DEF FromRest
<1>4. ASSUME NEW T \in SUBSET U, T # {}, \A x \in T : T \ {x} \in G PROVE T \in G
  BY <1>2, <1>4, FirstIn DEF FromRest
<1>5. U \in G
  <2> HIDE DEF G
  <2> QED BY <1>1, <1>3, <1>4, Growing
<1> QED BY <1>5, SumIsSumOf

\* Of nothing.
LEMMA SumEmpty ==
    ASSUME NEW f
    PROVE  Weights!WeightOf(f, {}) = 0
BY SumOfFromRest, SumIsSumOf, FS_EmptySet DEF FromRest

\* Of the element taken first, and the rest.
LEMMA SumSomeFirst ==
    ASSUME NEW f, NEW S, IsFiniteSet(S), S # {}
    PROVE  \E x \in S : Weights!WeightOf(f, S) = f[x].weight + Weights!WeightOf(f, S \ {x})
<1>1. SumOf(f, S)[S] = f[First(S)].weight + SumOf(f, S)[S \ {First(S)}]
  BY SumOfFromRest DEF FromRest
<1>2. SumOf(f, S)[S \ {First(S)}] = Weights!WeightOf(f, S \ {First(S)})
  BY SumOfSubset
<1> QED BY <1>1, <1>2, SumIsSumOf, FirstIn

\* A sum of natural numbers.
LEMMA SumType ==
    ASSUME NEW f, NEW S, IsFiniteSet(S), \A x \in S : f[x].weight \in Int
    PROVE  Weights!WeightOf(f, S) \in Int
<1> DEFINE G == {T \in SUBSET S : Weights!WeightOf(f, T) \in Int}
<1>1. {} \in G
  BY SumEmpty
<1>2. ASSUME NEW T \in SUBSET S, T # {}, \A x \in T : T \ {x} \in G PROVE T \in G
  <2>1. PICK x \in T : Weights!WeightOf(f, T) = f[x].weight + Weights!WeightOf(f, T \ {x})
    BY <1>2, SumSomeFirst, SubsetsAreFinite DEF FiniteSubsets
  <2> QED BY <1>2, <2>1
<1> HIDE DEF G
<1>3. S \in G
  BY <1>1, <1>2, Growing
<1> QED BY <1>3 DEF G

\* Any element may be taken first.
LEMMA SumFirst ==
    ASSUME NEW f, NEW S, IsFiniteSet(S), \A x \in S : f[x].weight \in Int, NEW y \in S
    PROVE  Weights!WeightOf(f, S) = f[y].weight + Weights!WeightOf(f, S \ {y})
<1> DEFINE Takes(T, z) == Weights!WeightOf(f, T) = f[z].weight + Weights!WeightOf(f, T \ {z})
           G == {T \in SUBSET S : \A z \in T : Takes(T, z)}
<1>1. {} \in G
  OBVIOUS
<1>2. \A T \in SUBSET S : IsFiniteSet(T) /\ Weights!WeightOf(f, T) \in Int
  BY SumType, SubsetsAreFinite DEF FiniteSubsets
<1>3. ASSUME NEW T \in SUBSET S, T # {}, \A x \in T : T \ {x} \in G PROVE T \in G
  <2> SUFFICES ASSUME NEW z \in T PROVE Takes(T, z)
    OBVIOUS
  <2>1. PICK x \in T : Takes(T, x)
    BY <1>2, <1>3, SumSomeFirst
  <2>2. CASE x = z
    BY <2>1, <2>2
  <2>3. CASE x # z
    <3>1. Takes(T \ {x}, z) /\ Takes(T \ {z}, x)
      BY <1>3, <2>3
    <3>2. (T \ {x}) \ {z} = (T \ {z}) \ {x}
      OBVIOUS
    <3> DEFINE a == Weights!WeightOf(f, T)
               b == Weights!WeightOf(f, T \ {x})
               c == Weights!WeightOf(f, T \ {z})
               d == Weights!WeightOf(f, (T \ {z}) \ {x})
    <3>3. a = f[x].weight + b /\ b = f[z].weight + d /\ c = f[x].weight + d
      BY <2>1, <3>1, <3>2
    <3>4. f[x].weight \in Int /\ f[z].weight \in Int /\ d \in Int
      BY <1>2
    <3> HIDE DEF a, b, c, d
    <3>5. a = f[z].weight + c
      BY <3>3, <3>4
    <3> QED BY <3>5 DEF a, c
  <2> QED BY <2>2, <2>3
<1> HIDE DEF G
<1>4. S \in G
  BY <1>1, <1>3, Growing
<1> QED BY <1>4 DEF G

\* Only the values on S matter.
LEMMA SumSame ==
    ASSUME NEW f, NEW g, NEW S, IsFiniteSet(S), \A x \in S : f[x].weight \in Int /\ f[x].weight = g[x].weight
    PROVE  Weights!WeightOf(f, S) = Weights!WeightOf(g, S)
<1> DEFINE G == {T \in SUBSET S : Weights!WeightOf(f, T) = Weights!WeightOf(g, T)}
<1>1. {} \in G
  BY SumEmpty
<1>2. ASSUME NEW T \in SUBSET S, T # {}, \A x \in T : T \ {x} \in G PROVE T \in G
  <2>1. PICK x \in T : TRUE
    BY <1>2
  <2>2. IsFiniteSet(T)
    BY SubsetsAreFinite DEF FiniteSubsets
  <2>3. Weights!WeightOf(f, T) = f[x].weight + Weights!WeightOf(f, T \ {x})
    BY <2>2, SumFirst
  <2>4. Weights!WeightOf(g, T) = g[x].weight + Weights!WeightOf(g, T \ {x})
    BY <2>2, SumFirst
  <2> QED BY <1>2, <2>3, <2>4
<1> HIDE DEF G
<1>3. S \in G
  BY <1>1, <1>2, Growing
<1> QED BY <1>3 DEF G

-----------------------------------------------------------------------------
(* The weights of one strategy's variants.                                 *)

Rows == [Variants -> Weights!Row \cup {None}]

\* What is assumed of the constants of VariantWeights.
LEMMA WeightConstants ==
    /\ IsFiniteSet(Variants)
    /\ Total \in Nat
    /\ GivenWeights \subseteq 0..Total
    /\ MaxBatch \in Nat \ {0}
    /\ None \notin Weights!Row
<1>1. Weights!IsFiniteSet(Variants) <=> IsFiniteSet(Variants)
  BY DEF Weights!IsFiniteSet, IsFiniteSet
<1> QED BY <1>1, WeightsAssumption DEF Weights!WeightsAssumption

\* Cardinality is the same operator in both modules.
LEMMA CardinalityOfWeights == ASSUME NEW S PROVE Weights!Cardinality(S) = Cardinality(S)
BY DEF Weights!Cardinality, Cardinality

\* A set of variants that have a row.
HaveRows(rows, S) == rows \in Rows /\ S \subseteq Variants /\ \A v \in S : rows[v] # None

\* The weight of a row.
LEMMA RowWeight ==
    ASSUME NEW rows, NEW S, HaveRows(rows, S)
    PROVE  /\ IsFiniteSet(S) /\ Cardinality(S) \in Nat
           /\ \A v \in S : rows[v] \in Weights!Row /\ rows[v].weight \in 0..Total /\ rows[v].weight \in Int
BY WeightConstants, FS_Subset, FS_CardinalityType DEF HaveRows, Rows, Weights!Row

\* The weight of some variants that have a row.
LEMMA WeightIsNat ==
    ASSUME NEW rows, NEW S, HaveRows(rows, S)
    PROVE  Weights!WeightOf(rows, S) \in Nat
<1> DEFINE G == {T \in SUBSET S : Weights!WeightOf(rows, T) \in Nat}
<1>1. {} \in G
  BY SumEmpty
<1>2. ASSUME NEW T \in SUBSET S, T # {}, \A x \in T : T \ {x} \in G PROVE T \in G
  <2>1. HaveRows(rows, T)
    BY DEF HaveRows
  <2>2. PICK x \in T : Weights!WeightOf(rows, T) = rows[x].weight + Weights!WeightOf(rows, T \ {x})
    BY <1>2, <2>1, SumSomeFirst, RowWeight
  <2>3. rows[x].weight \in Nat
    BY <2>1, RowWeight, WeightConstants
  <2>4. Weights!WeightOf(rows, T \ {x}) \in Nat
    BY <1>2
  <2> QED BY <2>2, <2>3, <2>4
<1> HIDE DEF G
<1>3. S \in G
  BY <1>1, <1>2, Growing, RowWeight
<1> QED BY <1>3 DEF G

\* One of the weights, and the others.
LEMMA WeightAndRest ==
    ASSUME NEW rows, NEW S, HaveRows(rows, S), NEW v \in S
    PROVE  /\ Weights!WeightOf(rows, S) = rows[v].weight + Weights!WeightOf(rows, S \ {v})
           /\ Weights!WeightOf(rows, S \ {v}) \in Nat
           /\ rows[v].weight \in Nat
<1>1. HaveRows(rows, S \ {v})
  BY DEF HaveRows
<1> QED BY <1>1, WeightIsNat, SumFirst, RowWeight, WeightConstants

\* Equal weights.
LEMMA EqualWeights ==
    ASSUME NEW rows, NEW S, HaveRows(rows, S), NEW c \in Nat, \A v \in S : rows[v].weight = c
    PROVE  Weights!WeightOf(rows, S) = Cardinality(S) * c
<1> DEFINE G == {T \in SUBSET S : Weights!WeightOf(rows, T) = Cardinality(T) * c}
<1>1. {} \in G
  BY SumEmpty, FS_EmptySet
<1>2. ASSUME NEW T \in SUBSET S, T # {}, \A x \in T : T \ {x} \in G PROVE T \in G
  <2>1. HaveRows(rows, T)
    BY DEF HaveRows
  <2>2. PICK x \in T : Weights!WeightOf(rows, T) = c + Weights!WeightOf(rows, T \ {x})
    BY <1>2, <2>1, SumSomeFirst, RowWeight
  <2> DEFINE n == Cardinality(T)
             m == Cardinality(T \ {x})
             w == Weights!WeightOf(rows, T)
             z == Weights!WeightOf(rows, T \ {x})
  <2>3. n \in Nat /\ m = n - 1 /\ m \in Nat
    <3>1. HaveRows(rows, T \ {x})
      BY DEF HaveRows
    <3> QED BY <2>1, <3>1, RowWeight, FS_RemoveElement
  <2>4. z = m * c
    BY <1>2
  <2>5. w = n * c
    <3>1. w = c + z
      BY <2>2
    <3> HIDE DEF n, m, w, z
    <3> QED BY <2>3, <2>4, <3>1
  <2> QED BY <2>5
<1> HIDE DEF G
<1>3. S \in G
  BY <1>1, <1>2, Growing, RowWeight
<1> QED BY <1>3 DEF G

\* The variants that have a row, with a custom weight and without one.
LEMMA CustomsAndAutos ==
    ASSUME NEW rows \in Rows
    PROVE  /\ HaveRows(rows, Weights!Customs(rows)) /\ HaveRows(rows, Weights!Autos(rows))
           /\ \A v : HaveRows(rows, Weights!Customs(rows) \ {v})
BY DEF HaveRows, Weights!Customs, Weights!Autos

\* Dividing by a number of rows, rounded down.
LEMMA Division ==
    ASSUME NEW a \in Nat, NEW n \in Nat \ {0}
    PROVE  a \div n \in Nat /\ (a \div n) * n <= a
OBVIOUS

\* What the custom weights leave is divided among the others.
LEMMA SharesFit ==
    ASSUME NEW rows \in Rows, Weights!Autos(rows) # {}
    PROVE  /\ Weights!Remaining(rows) \in 0..Total
           /\ Weights!Share(rows) \in 0..Total
           /\ Cardinality(Weights!Autos(rows)) \in Nat \ {0}
           /\ Weights!Share(rows) * Cardinality(Weights!Autos(rows)) <= Weights!Remaining(rows)
           /\ Weights!Remaining(rows) - Weights!Share(rows) * (Cardinality(Weights!Autos(rows)) - 1) \in 0..Total
<1> DEFINE rest == Weights!Remaining(rows)
           n == Cardinality(Weights!Autos(rows))
           q == Weights!Share(rows)
           customs == Weights!WeightOf(rows, Weights!Customs(rows))
<1>1. customs \in Nat /\ Total \in Nat
  BY CustomsAndAutos, WeightIsNat, WeightConstants
<1>2. rest \in 0..Total
  <2>1. rest = IF Total - customs < 0 THEN 0 ELSE Total - customs
    BY DEF Weights!Remaining
  <2> HIDE DEF rest, customs
  <2> QED BY <1>1, <2>1
<1>3. n \in Nat \ {0}
  BY CustomsAndAutos, RowWeight, FS_EmptySet
<1>4. q = rest \div n
  BY CardinalityOfWeights DEF Weights!Share
<1> HIDE DEF rest, n, q, customs
<1>5. q \in Nat /\ q * n <= rest
  BY <1>1, <1>2, <1>3, <1>4, Division
<1>6. q <= rest
  <2>1. q <= q * n
    BY <1>3, <1>5
  <2>2. q * n \in Nat /\ rest \in Nat
    BY <1>1, <1>2, <1>3, <1>5
  <2> HIDE DEF q
  <2> QED BY <1>5, <2>1, <2>2
<1>7. rest - q * (n - 1) \in 0..rest
  <2>1. q * (n - 1) = q * n - q /\ q * (n - 1) \in Nat
    BY <1>3, <1>5
  <2>2. q * n \in Nat /\ rest \in Nat
    BY <1>1, <1>2, <1>3, <1>5
  <2> QED BY <1>5, <2>1, <2>2
<1>8. q \in 0..Total /\ rest - q * (n - 1) \in 0..Total
  BY <1>1, <1>2, <1>5, <1>6, <1>7
<1> QED BY <1>2, <1>3, <1>5, <1>8 DEF rest, n, q

-----------------------------------------------------------------------------
(* What one write, and a redistribution, do to the weights.                *)

PutRow(rows, v, x) == [w \in Variants |-> IF w = v THEN x ELSE rows[w]]

CustomWeight(rows) == Weights!WeightOf(rows, Weights!Customs(rows))
OtherWeight(rows, v) == Weights!WeightOf(rows, Weights!Customs(rows) \ {v})

\* What the custom weights add up to.
LEMMA CustomWeightIsNat ==
    ASSUME NEW rows \in Rows, NEW v
    PROVE  CustomWeight(rows) \in Nat /\ OtherWeight(rows, v) \in Nat
BY CustomsAndAutos, WeightIsNat DEF CustomWeight, OtherWeight

\* A row counts for no less than nothing.
LEMMA OtherWeightIsLess ==
    ASSUME NEW rows \in Rows, NEW v
    PROVE  OtherWeight(rows, v) <= CustomWeight(rows)
<1>1. CASE v \in Weights!Customs(rows)
  <2>1. CustomWeight(rows) = rows[v].weight + OtherWeight(rows, v) /\ rows[v].weight \in Nat
    BY <1>1, CustomsAndAutos, WeightAndRest DEF CustomWeight, OtherWeight
  <2> QED BY <2>1, CustomWeightIsNat
<1>2. CASE v \notin Weights!Customs(rows)
  <2>1. Weights!Customs(rows) \ {v} = Weights!Customs(rows)
    BY <1>2
  <2>2. OtherWeight(rows, v) = CustomWeight(rows)
    BY <2>1 DEF OtherWeight, CustomWeight
  <2> QED BY <2>2, CustomWeightIsNat
<1> QED BY <1>1, <1>2

\* The sum after a write.
LEMMA CustomWeightAfterPut ==
    ASSUME NEW rows \in Rows, NEW v \in Variants, NEW x \in Weights!Row \cup {None}
    PROVE  /\ PutRow(rows, v, x) \in Rows
           /\ x # None /\ x.custom =>
                CustomWeight(PutRow(rows, v, x)) = x.weight + OtherWeight(rows, v)
           /\ x = None \/ ~ x.custom => CustomWeight(PutRow(rows, v, x)) = OtherWeight(rows, v)
<1> DEFINE new == PutRow(rows, v, x)
<1>1. new \in Rows
  BY DEF PutRow, Rows
<1>2. Weights!Customs(new) \ {v} = Weights!Customs(rows) \ {v}
  BY DEF Weights!Customs, PutRow
<1>3. OtherWeight(new, v) = OtherWeight(rows, v)
  <2>1. HaveRows(rows, Weights!Customs(rows) \ {v})
    BY CustomsAndAutos
  <2>2. \A u \in Weights!Customs(rows) \ {v} : rows[u].weight \in Int /\ rows[u].weight = new[u].weight
    BY <2>1, RowWeight DEF PutRow, Weights!Customs
  <2>3. IsFiniteSet(Weights!Customs(rows) \ {v})
    BY <2>1, RowWeight
  <2> HIDE DEF new
  <2> QED BY <1>2, <2>2, <2>3, SumSame DEF OtherWeight
<1>4. ASSUME x # None, x.custom PROVE CustomWeight(new) = x.weight + OtherWeight(new, v)
  <2>1. v \in Weights!Customs(new) /\ new[v] = x
    BY <1>4 DEF Weights!Customs, PutRow
  <2> HIDE DEF new
  <2> QED BY <1>1, <2>1, CustomsAndAutos, WeightAndRest DEF CustomWeight, OtherWeight
<1>5. ASSUME x = None \/ ~ x.custom PROVE CustomWeight(new) = OtherWeight(new, v)
  <2>1. v \notin Weights!Customs(new)
    BY <1>5 DEF Weights!Customs, PutRow
  <2>2. Weights!Customs(new) \ {v} = Weights!Customs(new)
    BY <2>1
  <2> HIDE DEF new
  <2> QED BY <2>2 DEF CustomWeight, OtherWeight
<1> HIDE DEF new
<1>6. /\ x # None /\ x.custom => CustomWeight(new) = x.weight + OtherWeight(rows, v)
      /\ x = None \/ ~ x.custom => CustomWeight(new) = OtherWeight(rows, v)
  BY <1>3, <1>4, <1>5
<1> QED BY <1>1, <1>6 DEF new

\* A variant that keeps its weight as a custom one: it had at most what the custom
\* weights left.
LEMMA KeptWeightFits ==
    ASSUME NEW rows \in Rows, NEW v \in Variants, NEW x \in Weights!Row,
           rows[v] # None, x.custom, x.weight = rows[v].weight,
           Weights!CustomsFit(rows), Weights!SplitEqually(rows)
    PROVE  Weights!CustomsFit(PutRow(rows, v, x))
<1> DEFINE customs == CustomWeight(rows)
           others == OtherWeight(rows, v)
           w == rows[v].weight
           new == CustomWeight(PutRow(rows, v, x))
<1>1. new = w + others
  BY CustomWeightAfterPut, WeightConstants
<1>2. customs \in Nat /\ others \in Nat /\ Total \in Nat /\ customs <= Total /\ w \in Nat
  <2>1. HaveRows(rows, {v})
    BY DEF HaveRows
  <2> QED BY <2>1, CustomWeightIsNat, WeightConstants, WeightAndRest DEF Weights!CustomsFit, CustomWeight
<1>3. CASE v \in Weights!Customs(rows)
  <2>1. customs = w + others
    BY <1>3, CustomsAndAutos, WeightAndRest DEF CustomWeight, OtherWeight
  <2> QED BY <1>1, <1>2, <2>1 DEF Weights!CustomsFit, CustomWeight
<1>4. CASE v \in Weights!Autos(rows)
  <2> DEFINE autos == Weights!WeightOf(rows, Weights!Autos(rows))
             rest == Weights!WeightOf(rows, Weights!Autos(rows) \ {v})
  <2>1. autos = w + rest /\ rest \in Nat
    BY <1>4, CustomsAndAutos, WeightAndRest
  <2>2. autos = Weights!Remaining(rows)
    BY <1>4 DEF Weights!SplitEqually
  <2>3. Weights!Remaining(rows) = IF Total - customs < 0 THEN 0 ELSE Total - customs
    BY DEF Weights!Remaining, CustomWeight
  <2>4. others <= customs
    BY OtherWeightIsLess
  <2> HIDE DEF autos, rest, customs, others, w, new
  <2>5. new <= Total
    BY <1>1, <1>2, <2>1, <2>2, <2>3, <2>4
  <2> QED BY <2>5 DEF new, Weights!CustomsFit, CustomWeight
<1> QED BY <1>3, <1>4 DEF Weights!Customs, Weights!Autos, Rows, Weights!Row

\* The rows once the redistribution is through.
Planned(rows, plan) ==
    [v \in Variants |-> IF v \in DOMAIN plan THEN [rows[v] EXCEPT !.weight = plan[v]] ELSE rows[v]]

\* Only weights of rows without a custom weight change.
LEMMA PlannedKeepsCustoms ==
    ASSUME NEW rows \in Rows, NEW plan, DOMAIN plan \subseteq Weights!Autos(rows),
           \A v \in DOMAIN plan : plan[v] \in 0..Total
    PROVE  /\ Planned(rows, plan) \in Rows
           /\ Weights!Customs(Planned(rows, plan)) = Weights!Customs(rows)
           /\ Weights!Autos(Planned(rows, plan)) = Weights!Autos(rows)
           /\ CustomWeight(Planned(rows, plan)) = CustomWeight(rows)
<1> DEFINE new == Planned(rows, plan)
<1>1. \A v \in Variants :
         new[v] = IF v \in DOMAIN plan THEN [rows[v] EXCEPT !.weight = plan[v]] ELSE rows[v]
  BY DEF Planned
<1>2. \A v \in DOMAIN plan : /\ v \in Variants /\ rows[v] \in Weights!Row /\ ~ rows[v].custom
                             /\ new[v] \in Weights!Row /\ ~ new[v].custom
  BY <1>1 DEF Weights!Autos, Rows, Weights!Row
<1>3. new \in Rows
  BY <1>2 DEF Planned, Rows
<1>4. Weights!Customs(new) = Weights!Customs(rows) /\ Weights!Autos(new) = Weights!Autos(rows)
  BY <1>1, <1>2, WeightConstants DEF Weights!Customs, Weights!Autos
<1>5. CustomWeight(new) = CustomWeight(rows)
  <2>1. \A u \in Weights!Customs(rows) : rows[u].weight \in Int /\ rows[u].weight = new[u].weight
    BY <1>1, <1>2, CustomsAndAutos, RowWeight DEF Weights!Customs
  <2>2. IsFiniteSet(Weights!Customs(rows))
    BY CustomsAndAutos, RowWeight
  <2> HIDE DEF new
  <2> QED BY <1>4, <2>1, <2>2, SumSame DEF CustomWeight
<1> HIDE DEF new
<1> QED BY <1>3, <1>4, <1>5 DEF new

\* The shares add up to what the custom weights leave.
LEMMA SharesSplitEqually ==
    ASSUME NEW rows \in Rows, NEW first \in Weights!Autos(rows)
    PROVE  /\ DOMAIN Weights!Shares(rows, first) = Weights!Autos(rows)
           /\ \A v \in Weights!Autos(rows) : Weights!Shares(rows, first)[v] \in 0..Total
           /\ Weights!SplitEqually(Planned(rows, Weights!Shares(rows, first)))
<1> DEFINE plan == Weights!Shares(rows, first)
           new == Planned(rows, plan)
           autos == Weights!Autos(rows)
           n == Cardinality(autos)
           q == Weights!Share(rows)
           rest == Weights!Remaining(rows)
           whole == Weights!WeightOf(new, autos)
           others == Weights!WeightOf(new, autos \ {first})
<1>1. DOMAIN plan = autos /\ \A v \in autos : plan[v] = IF v = first THEN rest - q * (n - 1) ELSE q
  BY CardinalityOfWeights DEF Weights!Shares
<1>2. rest \in 0..Total /\ q \in 0..Total /\ n \in Nat \ {0} /\ rest - q * (n - 1) \in 0..Total
  BY SharesFit
<1>3. \A v \in autos : plan[v] \in 0..Total
  BY <1>1, <1>2
<1>4. new \in Rows /\ Weights!Autos(new) = autos /\ CustomWeight(new) = CustomWeight(rows)
  <2> HIDE DEF plan
  <2> QED BY <1>1, <1>3, PlannedKeepsCustoms
<1>5. Weights!Remaining(new) = rest /\ Weights!Share(new) = q
  <2> HIDE DEF new
  <2> QED BY <1>4 DEF Weights!Remaining, Weights!Share, CustomWeight
<1>6. \A v \in autos : new[v].weight = plan[v]
  <2>1. \A v \in autos : v \in Variants /\ rows[v] \in Weights!Row
    BY DEF Weights!Autos, Rows
  <2> HIDE DEF plan
  <2> QED BY <1>1, <2>1 DEF Planned, Weights!Row
<1>7. HaveRows(new, autos) /\ HaveRows(new, autos \ {first})
  <2> HIDE DEF new, autos
  <2>1. HaveRows(new, autos)
    BY <1>4, CustomsAndAutos
  <2> QED BY <2>1 DEF HaveRows
<1>8. whole = (rest - q * (n - 1)) + others
  <2> HIDE DEF new, plan
  <2> QED BY <1>1, <1>6, <1>7, WeightAndRest
<1>9. others = (n - 1) * q
  <2>1. Cardinality(autos \ {first}) = n - 1
    BY <1>7, RowWeight, FS_RemoveElement
  <2>2. q \in Nat
    BY <1>2, WeightConstants
  <2>3. \A v \in autos \ {first} : new[v].weight = q
    BY <1>1, <1>6
  <2> HIDE DEF new, plan, autos, q, n
  <2>4. Weights!WeightOf(new, autos \ {first}) = Cardinality(autos \ {first}) * q
    BY <1>7, <2>2, <2>3, EqualWeights
  <2> QED BY <2>1, <2>4
<1>10. whole = rest
  <2>1. rest \in Int /\ q * (n - 1) \in Int /\ (n - 1) * q = q * (n - 1)
    BY <1>2, WeightConstants
  <2> HIDE DEF whole, rest, q, n, others
  <2> QED BY <1>8, <1>9, <2>1
<1>11. Weights!SplitEqually(new)
  <2>1. \A v \in autos \ {first} : new[v].weight = q
    BY <1>1, <1>6
  <2> HIDE DEF new, plan, q, rest
  <2> QED BY <1>4, <1>5, <1>10, <2>1 DEF Weights!SplitEqually
<1> HIDE DEF plan, new
<1> QED BY <1>1, <1>3, <1>11 DEF plan, new

-----------------------------------------------------------------------------
(* The transactions.                                                       *)

Pieces(X) == UNION {[S -> X] : S \in SUBSET Variants}

Transaction ==
    [pc : {"idle", "check", "write", "read", "spread", "commit"},
     op : {None, "add", "update", "remove", "delete"},
     todo : Seq(Weights!Item), mine : Pieces(Weights!Row \cup {None}), plan : Pieces(0..Total),
     gone : SUBSET Variants, deleted : SUBSET Variants, seen : BOOLEAN, alone : BOOLEAN]

\* What a transaction that wrote the rows `mine' sees where s is committed.
Seen(s, mine) == [v \in Variants |-> IF v \in DOMAIN mine THEN mine[v] ELSE s[v]]

InOrder(rows) == Weights!CustomsFit(rows) /\ Weights!SplitEqually(rows)

\* A row that a redistribution still has to update is there, or known to be gone.
Sound(s, r) ==
    /\ r.pc # "idle" => r.todo # <<>>
    /\ r.pc = "spread" => \A v \in DOMAIN r.plan : Seen(s, r.mine)[v] # None \/ v \in r.gone

Busy(r) == r.alone /\ r.pc # "idle"

\* A request with no other beside it: nothing is gone, a deletion has removed the row,
\* and when the redistribution is through the weights are split.
Repairing(s, r) ==
    /\ r.gone = {}
    /\ r.op = "delete" =>
         IF r.pc \in {"check", "write"}
         THEN r.mine = <<>> /\ Head(r.todo).row = None
         ELSE Seen(s, r.mine)[Head(r.todo).v] = None
    /\ r.op = "delete" => Len(r.todo) = 1
    /\ r.pc = "spread" =>
         /\ DOMAIN r.plan \subseteq Weights!Autos(Seen(s, r.mine))
         /\ Weights!SplitEqually(Planned(Seen(s, r.mine), r.plan))
    /\ r.pc = "commit" /\ r.seen => Weights!SplitEqually(Seen(s, r.mine))

\* What is not checked: no custom weight, none at all, or the one the row has.
Unchecked(s, r, item) ==
    \/ item.row = None
    \/ item.row # None /\ ~ item.row.custom
    \/ item.row # None /\ item.row.weight = 0
    \/ /\ r.op = "update"
       /\ item.row # None /\ s[item.v] # None /\ item.row.weight = s[item.v].weight

\* Its custom weights fit, and still do with the row it is about to write.
Fitting(s, r) ==
    /\ Weights!CustomsFit(Seen(s, r.mine))
    /\ \A i \in DOMAIN r.todo :
         IF r.todo[i].checks THEN r.todo[i].row # None ELSE Unchecked(s, r, r.todo[i])
    /\ r.op = "update" => Len(r.todo) = 1 /\ (r.pc \in {"check", "write"} => r.mine = <<>>)
    /\ r.pc = "write" =>
         Weights!CustomsFit(PutRow(Seen(s, r.mine), Head(r.todo).v, Head(r.todo).row))

Proper(s, r) ==
    /\ Sound(s, r)
    /\ Busy(r) => Repairing(s, r)
    /\ Busy(r) /\ InOrder(s) => Fitting(s, r)

AllProper ==
    /\ sv \in Rows
    /\ tx \in [Txs -> Transaction]
    /\ \A t \in Txs : Proper(sv, tx[t])
    /\ \A t, u \in Txs : Busy(tx[t]) /\ u # t => tx[u].pc = "idle"

\* The transactions and what they see have their types.
LEMMA SeenType ==
    ASSUME NEW s \in Rows, NEW r \in Transaction
    PROVE  /\ Seen(s, r.mine) \in Rows
           /\ DOMAIN r.mine \subseteq Variants /\ DOMAIN r.plan \subseteq Variants
           /\ \A v \in DOMAIN r.mine : r.mine[v] \in Weights!Row \cup {None}
           /\ \A v \in DOMAIN r.plan : r.plan[v] \in 0..Total
BY DEF Seen, Rows, Transaction, Pieces

\* What the handlers read.
LEMMA ViewIsSeen ==
    ASSUME NEW t
    PROVE  Weights!View(t) = Seen(sv, tx[t].mine)
BY DEF Weights!View, Seen

\* The first item of a transaction under way.
LEMMA HeadItem ==
    ASSUME NEW r \in Transaction, r.todo # <<>>
    PROVE  /\ Head(r.todo) \in Weights!Item /\ Head(r.todo) = r.todo[1] /\ 1 \in DOMAIN r.todo
           /\ Len(r.todo) \in Nat \ {0} /\ Tail(r.todo) \in Seq(Weights!Item)
           /\ Len(Tail(r.todo)) = Len(r.todo) - 1
           /\ \A i \in DOMAIN Tail(r.todo) : i + 1 \in DOMAIN r.todo /\ Tail(r.todo)[i] = r.todo[i + 1]
BY DEF Transaction

\* A write shows in what the transaction sees.
LEMMA SeenAfterPut ==
    ASSUME NEW s \in Rows, NEW r \in Transaction, NEW v \in Variants, NEW x \in Weights!Row \cup {None}
    PROVE  /\ Weights!Put(r.mine, v, x) \in Pieces(Weights!Row \cup {None})
           /\ Seen(s, Weights!Put(r.mine, v, x)) = PutRow(Seen(s, r.mine), v, x)
<1> DEFINE new == Weights!Put(r.mine, v, x)
<1>1. DOMAIN new = DOMAIN r.mine \cup {v} /\ \A u \in DOMAIN new : new[u] = IF u = v THEN x ELSE r.mine[u]
  BY DEF Weights!Put
<1>2. new \in [DOMAIN r.mine \cup {v} -> Weights!Row \cup {None}]
  BY SeenType DEF Weights!Put
<1>3. DOMAIN r.mine \cup {v} \in SUBSET Variants
  BY SeenType
<1>4. Seen(s, new) = PutRow(Seen(s, r.mine), v, x)
  <2> HIDE DEF new
  <2> QED BY <1>1 DEF Seen, PutRow
<1> QED BY <1>2, <1>3, <1>4 DEF Pieces

\* One transaction takes a step of its own and nothing is committed.
LEMMA OneMoves ==
    ASSUME AllProper, NEW t \in Txs, NEW r \in Transaction, sv' = sv, tx' = [tx EXCEPT ![t] = r],
           tx[t].pc = "idle" => r.pc = "idle", r.alone => tx[t].alone \/ r.pc = "idle", Proper(sv, r)
    PROVE  AllProper'
<1>1. \A u \in Txs : tx'[u] = IF u = t THEN r ELSE tx[u]
  BY DEF AllProper
<1>2. tx' \in [Txs -> Transaction]
  BY DEF AllProper
<1>3. \A u \in Txs : Proper(sv', tx'[u])
  BY <1>1 DEF AllProper
<1>4. ASSUME NEW u \in Txs, NEW w \in Txs, Busy(tx'[u]), w # u PROVE tx'[w].pc = "idle"
  BY <1>1, <1>4 DEF AllProper, Busy
<1> QED BY <1>2, <1>3, <1>4 DEF AllProper

\* A request that is through, or has not begun.
LEMMA IdleIsProper ==
    Weights!Idle \in Transaction /\ \A s : Proper(s, Weights!Idle)
<1>1. <<>> \in Pieces(Weights!Row \cup {None}) /\ <<>> \in Pieces(0..Total)
  <2>1. {} \in SUBSET Variants /\ \A X : <<>> \in [{} -> X]
    OBVIOUS
  <2> QED BY <2>1 DEF Pieces
<1> QED BY <1>1 DEF Weights!Idle, Transaction, Proper, Sound, Busy

\* A transaction is rolled back.
LEMMA RollbackStep ==
    ASSUME AllProper, NEW t \in Txs, Weights!Rollback(t)
    PROVE  AllProper'
<1>1. Weights!Idle.pc = "idle"
  BY DEF Weights!Idle
<1> QED BY <1>1, IdleIsProper, OneMoves DEF Weights!Rollback

-----------------------------------------------------------------------------
(* A handler begins.                                                       *)

\* What a handler may be called with.
Callable(op, items) ==
    /\ op \in {"add", "update", "remove", "delete"}
    /\ items \in Seq(Weights!Item) /\ items # <<>>
    /\ op \in {"update", "delete"} => Len(items) = 1
    /\ op = "delete" => items[1].row = None
    /\ \A i \in DOMAIN items :
         IF items[i].checks THEN items[i].row # None
         ELSE \/ items[i].row = None
              \/ items[i].row # None /\ ~ items[i].row.custom
              \/ items[i].row # None /\ items[i].row.weight = 0
              \/ /\ op = "update" /\ items[i].row # None /\ sv[items[i].v] # None
                 /\ items[i].row.weight = sv[items[i].v].weight

\* The transaction holds the variants it is about, and has written nothing.
LEMMA BeginStep ==
    ASSUME AllProper, NEW t \in Txs, NEW op, NEW items, NEW found \in BOOLEAN,
           Callable(op, items), Weights!Begin(t, op, items, found)
    PROVE  AllProper'
<1> DEFINE all == \A w \in Txs : tx[w].pc = "idle"
           r == [Weights!Idle EXCEPT !.pc = "check", !.op = op, !.todo = items, !.seen = found,
                                     !.alone = all]
<1>1. sv' = sv /\ tx[t].pc = "idle"
  BY DEF Weights!Begin
<1>2. \A u \in Txs : tx'[u] = IF u = t THEN r
                              ELSE IF tx[u].pc = "idle" THEN tx[u] ELSE [tx[u] EXCEPT !.alone = FALSE]
  BY DEF Weights!Begin
<1>3. /\ r.pc = "check" /\ r.op = op /\ r.todo = items /\ r.mine = <<>> /\ r.gone = {}
      /\ r.alone = all
  BY DEF Weights!Idle
<1>4. r \in Transaction
  <2>1. all \in BOOLEAN
    OBVIOUS
  <2> HIDE DEF all
  <2> QED BY <2>1, IdleIsProper DEF Weights!Idle, Transaction, Callable
<1>5. tx' \in [Txs -> Transaction]
  <2>1. \A u \in Txs : [tx[u] EXCEPT !.alone = FALSE] \in Transaction
    <3> SUFFICES ASSUME NEW q \in Transaction PROVE [q EXCEPT !.alone = FALSE] \in Transaction
      BY DEF AllProper
    <3> QED BY DEF Transaction
  <2>2. \A u \in Txs : tx'[u] \in Transaction
    <3> HIDE DEF r
    <3> QED BY <1>2, <1>4, <2>1 DEF AllProper
  <2>3. DOMAIN tx' = Txs /\ tx' = [u \in Txs |-> tx'[u]]
    BY DEF Weights!Begin
  <2> QED BY <2>2, <2>3
<1>6. Proper(sv, r)
  <2> HIDE DEF r
  <2>1. Sound(sv, r)
    BY <1>3 DEF Sound, Callable
  <2>2. Repairing(sv, r)
    BY <1>3 DEF Repairing, Callable
  <2>3. ASSUME InOrder(sv) PROVE Fitting(sv, r)
    <3>1. Seen(sv, r.mine) = sv
      BY <1>3 DEF Seen, AllProper, Rows
    <3> QED BY <1>3, <2>3, <3>1 DEF Fitting, InOrder, Callable, Unchecked
  <2> QED BY <2>1, <2>2, <2>3 DEF Proper
<1>7. ASSUME NEW u \in Txs PROVE Proper(sv', tx'[u])
  <2>1. CASE u = t
    BY <1>1, <1>2, <1>6, <2>1
  <2>2. CASE u # t /\ tx[u].pc = "idle"
    BY <1>1, <1>2, <2>2 DEF AllProper
  <2>3. CASE u # t /\ tx[u].pc # "idle"
    <3>1. ASSUME NEW q \in Transaction, Sound(sv, q) PROVE Proper(sv, [q EXCEPT !.alone = FALSE])
      <4>1. [q EXCEPT !.alone = FALSE].alone = FALSE
        BY DEF Transaction
      <4>2. /\ [q EXCEPT !.alone = FALSE].pc = q.pc /\ [q EXCEPT !.alone = FALSE].todo = q.todo
            /\ [q EXCEPT !.alone = FALSE].plan = q.plan /\ [q EXCEPT !.alone = FALSE].mine = q.mine
            /\ [q EXCEPT !.alone = FALSE].gone = q.gone
        BY DEF Transaction
      <4> DEFINE z == [q EXCEPT !.alone = FALSE]
      <4> HIDE DEF z
      <4>3. Sound(sv, z)
        BY <3>1, <4>2 DEF Sound, z
      <4> QED BY <4>1, <4>3 DEF Proper, Busy, z
    <3>2. tx[u] \in Transaction /\ Sound(sv, tx[u])
      BY DEF AllProper, Proper
    <3>3. tx'[u] = [tx[u] EXCEPT !.alone = FALSE]
      BY <1>2, <2>3
    <3> QED BY <1>1, <3>1, <3>2, <3>3
  <2> QED BY <2>1, <2>2, <2>3
<1>8. ASSUME NEW u \in Txs, NEW w \in Txs, Busy(tx'[u]), w # u PROVE tx'[w].pc = "idle"
  <2> HIDE DEF r
  <2>1. CASE u = t
    <3>1. all
      BY <1>2, <1>3, <1>8, <2>1 DEF Busy
    <3> QED BY <1>2, <1>8, <2>1, <3>1
  <2>2. CASE u # t /\ tx[u].pc = "idle"
    BY <1>2, <1>8, <2>2 DEF Busy
  <2>3. CASE u # t /\ tx[u].pc # "idle"
    <3>1. tx'[u].alone = FALSE
      <4>1. tx[u] \in Transaction /\ tx'[u] = [tx[u] EXCEPT !.alone = FALSE]
        BY <1>2, <2>3 DEF AllProper
      <4> QED BY <4>1 DEF Transaction
    <3> QED BY <1>8, <3>1 DEF Busy
  <2> QED BY <2>1, <2>2, <2>3
<1> QED BY <1>1, <1>5, <1>7, <1>8 DEF AllProper

\* A variant to be added.
LEMMA AdditionIsItem ==
    ASSUME NEW item \in Weights!Additions
    PROVE  /\ item \in Weights!Item /\ item.row # None
           /\ item.checks \/ ~ item.row.custom \/ item.row.weight = 0
<1> USE WeightConstants
<1>1. CASE \E v \in Variants :
             item = [v |-> v, row |-> [weight |-> 0, custom |-> FALSE], checks |-> FALSE]
  <2>1. [weight |-> 0, custom |-> FALSE] \in Weights!Row
    BY DEF Weights!Row
  <2>2. item \in Weights!Item
    BY <1>1, <2>1 DEF Weights!Item
  <2>3. item.row = [weight |-> 0, custom |-> FALSE]
    BY <1>1
  <2>4. item.row # None
    BY <2>1, <2>3
  <2>5. item.row.custom = FALSE
    BY <2>3
  <2> QED BY <2>2, <2>4, <2>5
<1>2. CASE \E v \in Variants, w \in GivenWeights \cup {0} :
             item = [v |-> v, row |-> [weight |-> w, custom |-> TRUE], checks |-> w > 0]
  <2>1. PICK v \in Variants, w \in GivenWeights \cup {0} :
             item = [v |-> v, row |-> [weight |-> w, custom |-> TRUE], checks |-> w > 0]
    BY <1>2
  <2>2. w \in 0..Total
    OBVIOUS
  <2>3. [weight |-> w, custom |-> TRUE] \in Weights!Row
    BY <2>2 DEF Weights!Row
  <2>4. (w > 0) \in BOOLEAN
    OBVIOUS
  <2>5. item \in Weights!Item
    BY <2>1, <2>3, <2>4 DEF Weights!Item
  <2>6. item.row # None
    BY <2>1, <2>3
  <2>7. item.checks = (w > 0) /\ item.row.weight = w
    BY <2>1
  <2>8. w > 0 \/ w = 0
    BY <2>2
  <2> QED BY <2>5, <2>6, <2>7, <2>8
<1> QED BY <1>1, <1>2 DEF Weights!Additions

\* One for each handler.
LEMMA AddVariantStep ==
    ASSUME AllProper, NEW t \in Txs, Weights!AddVariantToStrategy(t)
    PROVE  AllProper'
<1>1. PICK item \in Weights!Additions : Weights!Begin(t, "add", <<item>>, TRUE)
  BY DEF Weights!AddVariantToStrategy
<1>2. Callable("add", <<item>>)
  <2>1. <<item>> \in Seq(Weights!Item) /\ <<item>> # <<>> /\ DOMAIN <<item>> = {1} /\ <<item>>[1] = item
    BY AdditionIsItem
  <2> QED BY <2>1, AdditionIsItem DEF Callable
<1> QED BY <1>1, <1>2, BeginStep

LEMMA BatchAddStep ==
    ASSUME AllProper, NEW t \in Txs, Weights!BatchAddVariantsToStrategy(t)
    PROVE  AllProper'
<1>1. PICK n \in 1..MaxBatch : \E items \in [1..n -> Weights!Additions] : Weights!Begin(t, "add", items, TRUE)
  BY DEF Weights!BatchAddVariantsToStrategy
<1>2. PICK items \in [1..n -> Weights!Additions] : Weights!Begin(t, "add", items, TRUE)
  BY <1>1
<1>3. n \in Nat \ {0}
  BY WeightConstants
<1>4. items \in [1..n -> Weights!Item]
  BY AdditionIsItem
<1>5. items \in Seq(Weights!Item) /\ items # <<>> /\ DOMAIN items = 1..n
  <2>1. items \in Seq(Weights!Item) /\ DOMAIN items = 1..n
    BY <1>3, <1>4
  <2>2. 1 \in DOMAIN items
    BY <1>3, <1>4
  <2> QED BY <2>1, <2>2
<1>6. Callable("add", items)
  <2>1. \A i \in 1..n : items[i] \in Weights!Additions
    OBVIOUS
  <2> QED BY <1>5, <2>1, AdditionIsItem DEF Callable
<1> QED BY <1>2, <1>6, BeginStep

LEMMA UpdateStep ==
    ASSUME AllProper, NEW t \in Txs, Weights!UpdateStrategyVariant(t)
    PROVE  AllProper'
<1>1. PICK v \in Variants, custom \in BOOLEAN, w \in GivenWeights \cup {None} :
        /\ sv[v] # None
        /\ Weights!Begin(t, "update",
             <<[v |-> v, checks |-> custom /\ w # None,
                row |-> [custom |-> custom,
                         weight |-> IF ~ custom THEN 0 ELSE IF w = None THEN sv[v].weight ELSE w]]>>,
             TRUE)
  BY DEF Weights!UpdateStrategyVariant
<1> DEFINE kept == IF ~ custom THEN 0 ELSE IF w = None THEN sv[v].weight ELSE w
           fresh == [custom |-> custom, weight |-> kept]
           item == [v |-> v, checks |-> custom /\ w # None, row |-> fresh]
<1>2. sv[v] \in Weights!Row
  BY <1>1 DEF AllProper, Rows
<1>3. kept \in 0..Total
  BY <1>2, WeightConstants DEF Weights!Row
<1>4. fresh \in Weights!Row /\ fresh.custom = custom /\ fresh.weight = kept
  <2> HIDE DEF kept
  <2> QED BY <1>3 DEF Weights!Row
<1>5. item \in Weights!Item /\ item.row = fresh /\ item.v = v /\ item.checks = (custom /\ w # None)
  <2> HIDE DEF fresh
  <2> QED BY <1>4 DEF Weights!Item
<1>6. item.row # None
  BY <1>4, <1>5, WeightConstants
<1>7. item.checks \/ ~ item.row.custom \/ item.row.weight = sv[item.v].weight
  <2> HIDE DEF item, fresh
  <2> QED BY <1>4, <1>5
<1>8. Callable("update", <<item>>)
  <2> HIDE DEF item
  <2>1. <<item>> \in Seq(Weights!Item) /\ <<item>> # <<>> /\ DOMAIN <<item>> = {1}
        /\ <<item>>[1] = item /\ Len(<<item>>) = 1
    BY <1>5
  <2> QED BY <1>1, <1>5, <1>6, <1>7, <2>1 DEF Callable
<1>9. Weights!Begin(t, "update", <<item>>, TRUE)
  BY <1>1
<1> HIDE DEF item
<1> QED BY <1>8, <1>9, BeginStep

\* A variant to be removed, from the strategy or altogether.
LEMMA RemovalIsCallable ==
    ASSUME NEW v \in Variants, NEW op \in {"remove", "delete"}
    PROVE  Callable(op, <<[v |-> v, row |-> None, checks |-> FALSE]>>)
<1> DEFINE item == [v |-> v, row |-> None, checks |-> FALSE]
<1>1. item \in Weights!Item /\ item.row = None /\ item.checks = FALSE
  BY DEF Weights!Item
<1> HIDE DEF item
<1>2. <<item>> \in Seq(Weights!Item) /\ <<item>> # <<>> /\ DOMAIN <<item>> = {1}
      /\ <<item>>[1] = item /\ Len(<<item>>) = 1
  BY <1>1
<1>3. Callable(op, <<item>>)
  BY <1>1, <1>2 DEF Callable
<1> QED BY <1>3 DEF item

LEMMA RemoveStep ==
    ASSUME AllProper, NEW t \in Txs, Weights!RemoveVariantFromStrategy(t) \/ Weights!DeleteVariant(t)
    PROVE  AllProper'
<1>1. CASE Weights!RemoveVariantFromStrategy(t)
  BY <1>1, RemovalIsCallable, BeginStep DEF Weights!RemoveVariantFromStrategy
<1>2. CASE Weights!DeleteVariant(t)
  <2>1. PICK v \in Variants :
          Weights!Begin(t, "delete", <<[v |-> v, row |-> None, checks |-> FALSE]>>, sv[v] # None)
    BY <1>2 DEF Weights!DeleteVariant
  <2>2. (sv[v] # None) \in BOOLEAN
    OBVIOUS
  <2> QED BY <2>1, <2>2, RemovalIsCallable, BeginStep
<1> QED BY <1>1, <1>2

-----------------------------------------------------------------------------
(* The statements of the transaction.                                      *)

\* The row about to be written fits.
LEMMA CheckFits ==
    ASSUME NEW s \in Rows, NEW r \in Transaction, r.todo # <<>>,
           InOrder(s), Fitting(s, r), r.pc = "check",
           ~ (Head(r.todo).checks /\ OtherWeight(Seen(s, r.mine), Head(r.todo).v)
                                      + Head(r.todo).row.weight > Total)
    PROVE  Weights!CustomsFit(PutRow(Seen(s, r.mine), Head(r.todo).v, Head(r.todo).row))
<1> DEFINE item == Head(r.todo)
           rows == Seen(s, r.mine)
           new == PutRow(rows, item.v, item.row)
           others == OtherWeight(rows, item.v)
<1>1. rows \in Rows /\ item \in Weights!Item /\ item = r.todo[1] /\ 1 \in DOMAIN r.todo
  BY SeenType, HeadItem
<1>2. item.v \in Variants /\ item.row \in Weights!Row \cup {None} /\ item.checks \in BOOLEAN
  BY <1>1 DEF Weights!Item
<1>3. Weights!CustomsFit(rows)
  BY DEF Fitting
<1>4. IF item.checks THEN item.row # None ELSE Unchecked(s, r, item)
  BY <1>1 DEF Fitting
<1>5. /\ item.row # None /\ item.row.custom => CustomWeight(new) = item.row.weight + others
      /\ item.row = None \/ ~ item.row.custom => CustomWeight(new) = others
  <2> HIDE DEF rows, item
  <2> QED BY <1>1, <1>2, CustomWeightAfterPut
<1>6. others \in Nat /\ CustomWeight(rows) \in Nat /\ others <= CustomWeight(rows) /\ Total \in Nat
  <2> HIDE DEF rows, item
  <2> QED BY <1>1, CustomWeightIsNat, OtherWeightIsLess, WeightConstants
<1>7. CustomWeight(rows) <= Total
  BY <1>3 DEF Weights!CustomsFit, CustomWeight
<1>8. item.row # None => item.row.weight \in Nat
  BY <1>2, WeightConstants DEF Weights!Row
<1>9. ~ (item.checks /\ others + item.row.weight > Total)
  OBVIOUS
<1>10. ASSUME item.row = None \/ ~ item.row.custom PROVE CustomWeight(new) <= Total
  <2> HIDE DEF rows, item, new, others
  <2> QED BY <1>5, <1>6, <1>7, <1>10
<1>11. ASSUME item.row # None, item.row.custom, item.checks PROVE CustomWeight(new) <= Total
  <2> HIDE DEF rows, item, new, others
  <2> QED BY <1>2, <1>5, <1>6, <1>8, <1>9, <1>11
<1>12. ASSUME item.row # None, item.row.custom, item.row.weight = 0 PROVE CustomWeight(new) <= Total
  <2> HIDE DEF rows, item, new, others
  <2> QED BY <1>5, <1>6, <1>7, <1>12
<1>13. ASSUME item.row # None, item.row.custom, r.mine = <<>>, s[item.v] # None,
              item.row.weight = s[item.v].weight
       PROVE  CustomWeight(new) <= Total
  <2>1. rows = s
    BY <1>13 DEF Seen, Rows
  <2>2. item.row \in Weights!Row
    BY <1>2, <1>13
  <2> HIDE DEF rows, item
  <2> QED BY <1>2, <1>13, <2>1, <2>2, KeptWeightFits DEF InOrder, Weights!CustomsFit, CustomWeight
<1> HIDE DEF rows, item, new, others
<1>14. CustomWeight(new) <= Total
  BY <1>4, <1>10, <1>11, <1>12, <1>13 DEF Unchecked, Fitting
<1> QED BY <1>14 DEF rows, item, new, Weights!CustomsFit, CustomWeight

\* The sum of the custom weights is checked, or need not be.
LEMMA CheckStep ==
    ASSUME AllProper, NEW t \in Txs, Weights!Check(t)
    PROVE  AllProper'
<1> DEFINE r == tx[t]
           item == Head(r.todo)
           n == [r EXCEPT !.pc = "write"]
<1>1. r \in Transaction /\ r.pc = "check" /\ r.todo # <<>> /\ Proper(sv, r) /\ sv \in Rows
  BY DEF AllProper, Proper, Sound, Weights!Check
<1>2. CASE Weights!Rollback(t)
  BY <1>2, RollbackStep
<1>3. CASE /\ ~ Weights!SumTooLarge(t, item)
           /\ tx' = [tx EXCEPT ![t].pc = "write"] /\ UNCHANGED sv
  <2>1. n \in Transaction /\ n.pc = "write" /\ n.todo = r.todo /\ n.mine = r.mine /\ n.op = r.op
        /\ n.gone = r.gone /\ n.alone = r.alone /\ n.plan = r.plan
    <3> HIDE DEF r
    <3> QED BY <1>1 DEF Transaction
  <2>2. tx' = [tx EXCEPT ![t] = n]
    BY <1>3
  <2>3. ~ (item.checks /\ OtherWeight(Seen(sv, r.mine), item.v) + item.row.weight > Total)
    BY <1>3, ViewIsSeen DEF Weights!SumTooLarge, OtherWeight
  <2> HIDE DEF n, r
  <2>4. Sound(sv, n)
    BY <1>1, <2>1 DEF Sound
  <2>5. ASSUME Busy(n) PROVE Repairing(sv, n)
    <3>1. Repairing(sv, r)
      BY <1>1, <2>1, <2>5 DEF Proper, Busy
    <3> QED BY <1>1, <2>1, <3>1 DEF Repairing
  <2>6. ASSUME Busy(n), InOrder(sv) PROVE Fitting(sv, n)
    <3>1. Fitting(sv, r)
      BY <1>1, <2>1, <2>6 DEF Proper, Busy
    <3>2. Weights!CustomsFit(PutRow(Seen(sv, r.mine), item.v, item.row))
      BY <1>1, <2>3, <2>6, <3>1, CheckFits
    <3>3. \A i \in DOMAIN r.todo : Unchecked(sv, n, r.todo[i]) <=> Unchecked(sv, r, r.todo[i])
      BY <2>1 DEF Unchecked
    <3> QED BY <1>1, <2>1, <3>1, <3>2, <3>3 DEF Fitting
  <2>7. Proper(sv, n)
    BY <2>4, <2>5, <2>6 DEF Proper
  <2>8. r.pc # "idle" /\ (n.alone => r.alone)
    BY <1>1, <2>1
  <2> QED BY <1>3, <2>1, <2>2, <2>7, <2>8, OneMoves DEF r
<1> QED BY <1>2, <1>3 DEF Weights!Check

\* The row is written; a deletion of a row that is not there writes none.
LEMMA WriteStep ==
    ASSUME AllProper, NEW t \in Txs, Weights!Write(t)
    PROVE  AllProper'
<1> DEFINE r == tx[t]
           item == Head(r.todo)
           m == IF r.op = "delete" /\ sv[item.v] = None
                THEN r.mine ELSE Weights!Put(r.mine, item.v, item.row)
           n == [r EXCEPT !.mine = m, !.pc = IF r.seen THEN "read" ELSE "commit"]
<1>1. r \in Transaction /\ r.pc = "write" /\ r.todo # <<>> /\ Proper(sv, r) /\ sv \in Rows
  BY DEF AllProper, Proper, Sound, Weights!Write
<1>2. CASE Weights!Rollback(t)
  BY <1>2, RollbackStep
<1>3. CASE tx' = [tx EXCEPT ![t] = n] /\ UNCHANGED sv
  <2>1. item \in Weights!Item /\ item.v \in Variants /\ item.row \in Weights!Row \cup {None}
    <3> HIDE DEF r
    <3> QED BY <1>1, HeadItem DEF Weights!Item
  <2>2. m \in Pieces(Weights!Row \cup {None})
    <3>1. r.mine \in Pieces(Weights!Row \cup {None})
      BY <1>1 DEF Transaction
    <3> HIDE DEF r, item
    <3> QED BY <1>1, <2>1, <3>1, SeenAfterPut
  <2>3. n \in Transaction /\ n.pc \in {"read", "commit"} /\ n.todo = r.todo /\ n.mine = m /\ n.op = r.op
        /\ n.gone = r.gone /\ n.alone = r.alone /\ n.seen = r.seen /\ (n.pc = "commit" => ~ n.seen)
    <3> HIDE DEF r, m
    <3> QED BY <1>1, <2>2 DEF Transaction
  <2>4. \/ m = r.mine /\ r.op = "delete" /\ sv[item.v] = None
        \/ Seen(sv, m) = PutRow(Seen(sv, r.mine), item.v, item.row)
    <3> HIDE DEF r, item
    <3> QED BY <1>1, <2>1, SeenAfterPut
  <2> HIDE DEF n, m
  <2>5. Sound(sv, n)
    BY <1>1, <2>3 DEF Sound
  <2>6. ASSUME Busy(n) PROVE Repairing(sv, n)
    <3>1. Repairing(sv, r)
      BY <1>1, <2>3, <2>6 DEF Proper, Busy
    <3>2. ASSUME r.op = "delete" PROVE Seen(sv, m)[item.v] = None
      <4>1. r.mine = <<>> /\ item.row = None
        BY <1>1, <3>1, <3>2 DEF Repairing
      <4>2. CASE m = r.mine /\ sv[item.v] = None
        BY <2>1, <4>1, <4>2 DEF Seen
      <4>3. CASE Seen(sv, m) = PutRow(Seen(sv, r.mine), item.v, item.row)
        BY <2>1, <4>1, <4>3 DEF PutRow
      <4> QED BY <2>4, <4>2, <4>3
    <3> HIDE DEF item, r
    <3>3. n.op = "delete" => Seen(sv, n.mine)[Head(n.todo).v] = None
      BY <2>3, <3>2 DEF item
    <3> QED BY <2>3, <3>1, <3>3 DEF Repairing
  <2>7. ASSUME Busy(n), InOrder(sv) PROVE Fitting(sv, n)
    <3>1. Fitting(sv, r)
      BY <1>1, <2>3, <2>7 DEF Proper, Busy
    <3>2. Weights!CustomsFit(Seen(sv, m))
      BY <1>1, <2>4, <3>1 DEF Fitting
    <3>3. \A i \in DOMAIN r.todo : Unchecked(sv, n, r.todo[i]) <=> Unchecked(sv, r, r.todo[i])
      BY <2>3 DEF Unchecked
    <3> HIDE DEF r
    <3> QED BY <2>3, <3>1, <3>2, <3>3 DEF Fitting
  <2>8. Proper(sv, n)
    BY <2>5, <2>6, <2>7 DEF Proper
  <2>9. r.pc # "idle" /\ (n.alone => r.alone)
    BY <1>1, <2>3
  <2> QED BY <1>3, <2>3, <2>8, <2>9, OneMoves DEF r
<1> QED BY <1>2, <1>3 DEF Weights!Write

\* The next variant of the batch, or the commit, once the weights are split.
LEMMA OnwardIsProper ==
    ASSUME NEW s \in Rows, NEW r \in Transaction, r.todo # <<>>,
           Busy(r) => /\ r.gone = {} /\ Weights!SplitEqually(Seen(s, r.mine))
                      /\ r.op = "delete" => Len(r.todo) = 1 /\ Seen(s, r.mine)[Head(r.todo).v] = None,
           Busy(r) /\ InOrder(s) =>
             /\ Weights!CustomsFit(Seen(s, r.mine))
             /\ r.op = "update" => Len(r.todo) = 1
             /\ \A i \in DOMAIN r.todo :
                  IF r.todo[i].checks THEN r.todo[i].row # None ELSE Unchecked(s, r, r.todo[i]),
           r.pc # "idle"
    PROVE  /\ Weights!Onward(r) \in Transaction /\ Proper(s, Weights!Onward(r))
           /\ Weights!Onward(r).alone = r.alone
<1> DEFINE n == Weights!Onward(r)
           l == Len(r.todo)
<1>0. l \in Nat /\ l > 1 => l # 1 /\ l - 1 # 0
  <2> HIDE DEF l
  <2> QED OBVIOUS
<1>1. CASE Len(r.todo) > 1
  <2>1. n = [r EXCEPT !.pc = "check", !.todo = Tail(r.todo)]
    BY <1>1 DEF Weights!Onward
  <2>2. Tail(r.todo) \in Seq(Weights!Item) /\ Tail(r.todo) # <<>>
    <3>1. Tail(r.todo) \in Seq(Weights!Item) /\ Len(Tail(r.todo)) = Len(r.todo) - 1 /\ Len(r.todo) \in Nat
      BY HeadItem
    <3>2. Len(Tail(r.todo)) # 0
      BY <1>0, <1>1, <3>1
    <3>3. Len(<<>>) = 0
      OBVIOUS
    <3> QED BY <3>1, <3>2, <3>3
  <2>3. n \in Transaction /\ n.pc = "check" /\ n.todo = Tail(r.todo) /\ n.mine = r.mine /\ n.op = r.op
        /\ n.gone = r.gone /\ n.alone = r.alone
    <3> HIDE DEF n
    <3> QED BY <2>1, <2>2 DEF Transaction
  <2> HIDE DEF n
  <2>4. Sound(s, n)
    BY <2>2, <2>3 DEF Sound
  <2>5. Busy(n) => Busy(r)
    BY <2>3 DEF Busy
  <2>6. Busy(n) => Repairing(s, n)
    BY <1>1, <2>3, <2>5 DEF Repairing
  <2>7. ASSUME Busy(n), InOrder(s) PROVE Fitting(s, n)
    <3>1. Busy(r) /\ n.op # "update"
      <4>1. Len(r.todo) # 1
        BY <1>0, <1>1, HeadItem
      <4> QED BY <2>3, <2>5, <2>7, <4>1
    <3>2. \A i \in DOMAIN n.todo : i + 1 \in DOMAIN r.todo /\ n.todo[i] = r.todo[i + 1]
      BY <2>3, HeadItem
    <3>3. \A i \in DOMAIN n.todo :
            IF n.todo[i].checks THEN n.todo[i].row # None ELSE Unchecked(s, r, n.todo[i])
      BY <2>7, <3>1, <3>2
    <3>4. \A i \in DOMAIN n.todo :
            IF n.todo[i].checks THEN n.todo[i].row # None ELSE Unchecked(s, n, n.todo[i])
      BY <2>3, <3>3 DEF Unchecked
    <3> QED BY <2>3, <2>7, <3>1, <3>4 DEF Fitting
  <2> QED BY <2>3, <2>4, <2>6, <2>7 DEF Proper, n
<1>2. CASE ~ Len(r.todo) > 1
  <2>1. n = [r EXCEPT !.pc = "commit"]
    BY <1>2 DEF Weights!Onward
  <2>2. n \in Transaction /\ n.pc = "commit" /\ n.todo = r.todo /\ n.mine = r.mine /\ n.op = r.op
        /\ n.gone = r.gone /\ n.alone = r.alone
    <3> HIDE DEF n
    <3> QED BY <2>1 DEF Transaction
  <2> HIDE DEF n
  <2>3. Sound(s, n)
    BY <2>2 DEF Sound
  <2>4. Busy(n) => Busy(r)
    BY <2>2 DEF Busy
  <2>5. Busy(n) => Repairing(s, n)
    BY <2>2, <2>4 DEF Repairing
  <2>6. Busy(n) /\ InOrder(s) => Fitting(s, n)
    BY <2>2, <2>4 DEF Fitting, Unchecked
  <2> QED BY <2>2, <2>3, <2>5, <2>6 DEF Proper, n
<1> QED BY <1>1, <1>2

\* The shares are worked out from what the transaction sees, its own write included.
LEMMA ReadRowsStep ==
    ASSUME AllProper, NEW t \in Txs, Weights!ReadRows(t)
    PROVE  AllProper'
<1> DEFINE r == tx[t]
           rows == Seen(sv, r.mine)
<1>1. r \in Transaction /\ r.pc = "read" /\ r.todo # <<>> /\ Proper(sv, r) /\ sv \in Rows /\ sv' = sv
  BY DEF AllProper, Proper, Sound, Weights!ReadRows
<1>2. rows \in Rows /\ Weights!View(t) = rows
  BY <1>1, SeenType, ViewIsSeen
<1>3. CASE Weights!Autos(rows) = {} /\ tx' = [tx EXCEPT ![t] = Weights!Onward(r)]
  <2>1. Weights!SplitEqually(rows)
    BY <1>3 DEF Weights!SplitEqually
  <2> DEFINE n == Weights!Onward(r)
  <2>2. n \in Transaction /\ Proper(sv, n) /\ n.alone = r.alone
    <3>1. Busy(r) => Repairing(sv, r)
      BY <1>1 DEF Proper
    <3>2. Busy(r) /\ InOrder(sv) => Fitting(sv, r)
      BY <1>1 DEF Proper
    <3> HIDE DEF r
    <3> QED BY <1>1, <2>1, <3>1, <3>2, OnwardIsProper DEF Repairing, Fitting
  <2>3. r.pc # "idle" /\ (n.alone => r.alone)
    BY <1>1, <2>2
  <2> HIDE DEF n
  <2>4. tx' = [tx EXCEPT ![t] = n]
    BY <1>3 DEF n
  <2> QED BY <1>1, <2>2, <2>3, <2>4, OneMoves DEF r
<1>4. ASSUME NEW first \in Weights!Autos(rows),
             tx' = [tx EXCEPT ![t] = [r EXCEPT !.pc = "spread", !.gone = {},
                                               !.plan = Weights!Shares(rows, first)]]
      PROVE  AllProper'
  <2> DEFINE plan == Weights!Shares(rows, first)
             n == [r EXCEPT !.pc = "spread", !.gone = {}, !.plan = plan]
  <2>1. /\ DOMAIN plan = Weights!Autos(rows) /\ \A v \in Weights!Autos(rows) : plan[v] \in 0..Total
        /\ Weights!SplitEqually(Planned(rows, plan))
    <3> HIDE DEF rows
    <3> QED BY <1>2, SharesSplitEqually
  <2>2. plan \in Pieces(0..Total)
    <3>1. plan = [v \in Weights!Autos(rows) |-> plan[v]]
      BY DEF Weights!Shares
    <3>2. Weights!Autos(rows) \in SUBSET Variants
      BY DEF Weights!Autos
    <3> HIDE DEF plan, rows
    <3>3. plan \in [Weights!Autos(rows) -> 0..Total]
      BY <2>1, <3>1
    <3> QED BY <3>2, <3>3 DEF Pieces
  <2>3. n \in Transaction /\ n.pc = "spread" /\ n.gone = {} /\ n.plan = plan /\ n.todo = r.todo
        /\ n.mine = r.mine /\ n.op = r.op /\ n.alone = r.alone
    <3> HIDE DEF r, plan
    <3> QED BY <1>1, <2>2 DEF Transaction
  <2> HIDE DEF n, plan
  <2>4. Sound(sv, n)
    BY <1>1, <2>1, <2>3 DEF Sound, Weights!Autos
  <2>5. Busy(n) => Busy(r)
    BY <1>1, <2>3 DEF Busy
  <2>6. ASSUME Busy(n) PROVE Repairing(sv, n)
    <3>1. Repairing(sv, r)
      BY <1>1, <2>5, <2>6 DEF Proper
    <3> HIDE DEF r
    <3> QED BY <1>1, <2>1, <2>3, <3>1 DEF Repairing
  <2>7. ASSUME Busy(n), InOrder(sv) PROVE Fitting(sv, n)
    <3>1. Fitting(sv, r)
      BY <1>1, <2>5, <2>7 DEF Proper
    <3> HIDE DEF r
    <3> QED BY <2>3, <3>1 DEF Fitting, Unchecked
  <2>8. Proper(sv, n)
    BY <2>4, <2>6, <2>7 DEF Proper
  <2>9. r.pc # "idle" /\ (n.alone => r.alone)
    BY <1>1, <2>3
  <2>10. tx' = [tx EXCEPT ![t] = n]
    BY <1>4 DEF n, plan
  <2> QED BY <1>1, <2>3, <2>8, <2>9, <2>10, OneMoves DEF r
<1> QED BY <1>2, <1>3, <1>4 DEF Weights!ReadRows

\* One row gets the weight that was planned for it.
LEMMA SpreadStep ==
    ASSUME AllProper, NEW t \in Txs, NEW v \in Variants, Weights!Spread(t, v)
    PROVE  AllProper'
<1> DEFINE r == tx[t]
           rows == Seen(sv, r.mine)
           x == [rows[v] EXCEPT !.weight = r.plan[v]]
           m == Weights!Put(r.mine, v, x)
           plan == Weights!Restrict(r.plan, DOMAIN r.plan \ {v})
           done == [r EXCEPT !.mine = m, !.plan = plan]
           new == Seen(sv, m)
<1>1. r \in Transaction /\ r.pc = "spread" /\ r.todo # <<>> /\ Proper(sv, r) /\ sv \in Rows
      /\ v \in DOMAIN r.plan
  BY DEF AllProper, Proper, Sound, Weights!Spread
<1>2. rows \in Rows /\ Weights!View(t) = rows
  BY <1>1, SeenType, ViewIsSeen
<1>3. CASE Weights!Rollback(t)
  BY <1>3, RollbackStep
<1>4. CASE /\ v \notin r.gone
           /\ tx' = [tx EXCEPT ![t] = IF DOMAIN r.plan = {v} THEN Weights!Onward(done) ELSE done]
           /\ UNCHANGED sv
  <2>1. rows[v] \in Weights!Row
    BY <1>1, <1>2, <1>4 DEF Proper, Sound, Rows
  <2>2. x \in Weights!Row /\ x.custom = rows[v].custom
    <3>1. r.plan[v] \in 0..Total
      BY <1>1, SeenType
    <3> HIDE DEF r, rows
    <3> QED BY <2>1, <3>1 DEF Weights!Row
  <2>3. m \in Pieces(Weights!Row \cup {None}) /\ new = PutRow(rows, v, x)
    <3> HIDE DEF r, x
    <3> QED BY <1>1, <2>2, SeenAfterPut
  <2>4. DOMAIN plan = DOMAIN r.plan \ {v} /\ \A u \in DOMAIN plan : plan[u] = r.plan[u]
    BY DEF Weights!Restrict
  <2>5. plan \in Pieces(0..Total)
    <3>1. plan \in [DOMAIN r.plan \ {v} -> 0..Total]
      BY <1>1, SeenType DEF Weights!Restrict
    <3>2. DOMAIN r.plan \ {v} \in SUBSET Variants
      BY <1>1, SeenType
    <3> HIDE DEF plan
    <3> QED BY <3>1, <3>2 DEF Pieces
  <2>6. done \in Transaction /\ done.pc = "spread" /\ done.plan = plan /\ done.mine = m
        /\ done.todo = r.todo /\ done.op = r.op /\ done.alone = r.alone /\ done.gone = r.gone
    <3> HIDE DEF r, m, plan
    <3> QED BY <1>1, <2>3, <2>5 DEF Transaction
  <2>7. Busy(done) => Busy(r)
    BY <1>1, <2>6 DEF Busy
  <2>8. \A u \in Variants : new[u] = IF u = v THEN x ELSE rows[u]
    BY <2>3 DEF PutRow
  <2> HIDE DEF done, m, plan, new
  <2>9. ASSUME Busy(done) PROVE Repairing(sv, r) /\ rows[v].custom = FALSE
    <3>1. Repairing(sv, r)
      BY <1>1, <2>7, <2>9 DEF Proper
    <3>2. v \in Weights!Autos(rows)
      BY <1>1, <3>1 DEF Repairing
    <3>3. ~ rows[v].custom /\ rows[v].custom \in BOOLEAN
      BY <2>1, <3>2 DEF Weights!Autos, Weights!Row
    <3> QED BY <3>1, <3>3
  <2>10. ASSUME Busy(done), done.op = "delete"
         PROVE  Len(done.todo) = 1 /\ new[Head(done.todo).v] = None
    <3>1. Repairing(sv, r)
      BY <2>9, <2>10
    <3>2. rows[Head(r.todo).v] = None /\ Len(r.todo) = 1
      BY <1>1, <2>6, <2>10, <3>1 DEF Repairing
    <3>3. Head(r.todo).v # v
      BY <2>1, <3>2, WeightConstants
    <3>4. Head(r.todo).v \in Variants
      <4> HIDE DEF r
      <4> QED BY <1>1, HeadItem DEF Weights!Item
    <3> QED BY <2>6, <2>8, <3>2, <3>3, <3>4
  <2>11. ASSUME Busy(done), InOrder(sv)
         PROVE  /\ Weights!CustomsFit(new)
                /\ done.op = "update" => Len(done.todo) = 1
                /\ \A i \in DOMAIN done.todo :
                     IF done.todo[i].checks THEN done.todo[i].row # None
                     ELSE Unchecked(sv, done, done.todo[i])
    <3>1. Fitting(sv, r)
      BY <1>1, <2>7, <2>11 DEF Proper
    <3>2. Weights!CustomsFit(new)
      <4>1. CustomWeight(PutRow(rows, v, x)) = OtherWeight(rows, v)
        <5> HIDE DEF rows, x
        <5> QED BY <1>2, <2>2, <2>9, <2>11, CustomWeightAfterPut
      <4>2. CustomWeight(rows) <= Total
        BY <3>1 DEF Fitting, Weights!CustomsFit, CustomWeight
      <4> HIDE DEF rows, x
      <4>3. CustomWeight(new) <= Total
        BY <1>2, <2>3, <4>1, <4>2, OtherWeightIsLess, CustomWeightIsNat, WeightConstants
      <4> QED BY <4>3 DEF Weights!CustomsFit, CustomWeight
    <3> HIDE DEF r
    <3> QED BY <2>6, <3>1, <3>2 DEF Fitting, Unchecked
  <2>12. ASSUME Busy(done)
         PROVE  /\ DOMAIN plan \subseteq Weights!Autos(new)
                /\ Planned(new, plan) = Planned(rows, r.plan)
    <3>1. DOMAIN r.plan \subseteq Weights!Autos(rows)
      BY <1>1, <2>9, <2>12 DEF Repairing
    <3>2. \A u \in DOMAIN plan : u # v /\ u \in Variants /\ rows[u] # None /\ ~ rows[u].custom /\ new[u] = rows[u]
      BY <2>4, <2>8, <3>1 DEF Weights!Autos
    <3>3. DOMAIN plan \subseteq Weights!Autos(new)
      BY <3>2 DEF Weights!Autos
    <3>4. \A u \in Variants : (IF u \in DOMAIN plan THEN [new[u] EXCEPT !.weight = plan[u]] ELSE new[u])
                              = (IF u \in DOMAIN r.plan THEN [rows[u] EXCEPT !.weight = r.plan[u]] ELSE rows[u])
      BY <1>1, <2>4, <2>8
    <3> QED BY <3>3, <3>4 DEF Planned
  <2>13. Busy(done) => Weights!SplitEqually(Planned(new, plan))
    BY <1>1, <2>9, <2>12 DEF Repairing
  <2>14. CASE DOMAIN r.plan = {v}
    <3>1. Busy(done) => Weights!SplitEqually(new)
      <4>1. DOMAIN plan = {}
        BY <2>4, <2>14
      <4>2. Planned(new, plan) = new
        <5>1. new \in Rows
          BY <1>1, <2>2, <1>2, <2>3, CustomWeightAfterPut
        <5> QED BY <4>1, <5>1 DEF Planned, Rows
      <4> QED BY <2>13, <4>2
    <3> DEFINE n == Weights!Onward(done)
    <3>2. Busy(done) => done.gone = {}
      BY <2>6, <2>9 DEF Repairing
    <3>3. done.mine = m /\ done.todo # <<>> /\ done.pc # "idle" /\ Seen(sv, done.mine) = new
      BY <1>1, <2>6 DEF new
    <3>4. n \in Transaction /\ Proper(sv, n) /\ n.alone = done.alone
      <4> HIDE DEF n, r, rows, x
      <4>1. Busy(done) => /\ done.gone = {} /\ Weights!SplitEqually(Seen(sv, done.mine))
                          /\ done.op = "delete" =>
                               Len(done.todo) = 1 /\ Seen(sv, done.mine)[Head(done.todo).v] = None
        BY <2>10, <3>1, <3>2, <3>3
      <4>2. Busy(done) /\ InOrder(sv) =>
             /\ Weights!CustomsFit(Seen(sv, done.mine))
             /\ done.op = "update" => Len(done.todo) = 1
             /\ \A i \in DOMAIN done.todo :
                  IF done.todo[i].checks THEN done.todo[i].row # None
                  ELSE Unchecked(sv, done, done.todo[i])
        BY <2>11, <3>3
      <4> QED BY <1>1, <2>6, <3>3, <4>1, <4>2, OnwardIsProper DEF n
    <3>5. tx' = [tx EXCEPT ![t] = n]
      BY <1>4, <2>14 DEF done, m, plan
    <3>6. r.pc # "idle" /\ (n.alone => r.alone)
      BY <1>1, <2>6, <3>4
    <3> HIDE DEF n
    <3> QED BY <1>4, <3>4, <3>5, <3>6, OneMoves DEF r
  <2>15. CASE DOMAIN r.plan # {v}
    <3>1. tx' = [tx EXCEPT ![t] = done]
      BY <1>4, <2>15 DEF done, m, plan
    <3>2. Seen(sv, done.mine) = new
      BY <2>6 DEF new
    <3>3. Sound(sv, done)
      <4>1. \A u \in DOMAIN plan : new[u] # None \/ u \in r.gone
        <5>1. \A u \in DOMAIN plan : u # v /\ u \in Variants /\ (rows[u] # None \/ u \in r.gone)
          BY <1>1, <2>4, SeenType DEF Proper, Sound
        <5> QED BY <2>8, <5>1
      <4> HIDE DEF r
      <4> QED BY <1>1, <2>6, <3>2, <4>1 DEF Sound
    <3>4. ASSUME Busy(done) PROVE Repairing(sv, done)
      <4>1. done.gone = {}
        BY <2>6, <2>9, <3>4 DEF Repairing
      <4> HIDE DEF r, rows
      <4> QED BY <2>6, <2>10, <2>12, <2>13, <3>2, <3>4, <4>1 DEF Repairing
    <3>5. ASSUME Busy(done), InOrder(sv) PROVE Fitting(sv, done)
      BY <2>6, <2>11, <3>2, <3>5 DEF Fitting
    <3>6. Proper(sv, done)
      BY <3>3, <3>4, <3>5 DEF Proper
    <3>7. r.pc # "idle" /\ (done.alone => r.alone)
      BY <1>1, <2>6
    <3> QED BY <1>4, <2>6, <3>1, <3>6, <3>7, OneMoves DEF r
  <2> QED BY <2>14, <2>15
<1> QED BY <1>2, <1>3, <1>4 DEF Weights!Spread

\* The transaction's rows become the committed ones, without the target of a deletion;
\* every other learns what is gone.
LEMMA CommitStep ==
    ASSUME AllProper, NEW t \in Txs, Weights!Commit(t)
    PROVE  AllProper'
<1> DEFINE target == Head(tx[t].todo).v
           whole == tx[t].op = "delete"
           new == IF whole THEN [Weights!View(t) EXCEPT ![target] = None] ELSE Weights!View(t)
           removed == {v \in Variants : sv[v] # None /\ new[v] = None}
           told(q) == [q EXCEPT !.gone = IF Weights!RowsAhead(q) THEN q.gone \cup removed ELSE {},
                                !.deleted = IF ~ Weights!InsertsAhead(q) THEN {}
                                            ELSE q.deleted \cup (IF whole THEN {target} ELSE {})]
<1>1. tx[t] \in Transaction /\ tx[t].pc = "commit" /\ tx[t].todo # <<>> /\ sv \in Rows
  BY DEF AllProper, Proper, Sound, Weights!Commit
<1>2. sv' = new /\ \A u \in Txs : tx'[u] = IF u = t THEN Weights!Idle
                                           ELSE IF tx[u].pc = "idle" THEN tx[u] ELSE told(tx[u])
  BY DEF Weights!Commit
<1>3. target \in Variants
  <2>1. Head(tx[t].todo) \in Weights!Item
    BY <1>1, HeadItem
  <2> QED BY <2>1 DEF Weights!Item
<1>4. Weights!View(t) \in Rows
  BY <1>1, SeenType, ViewIsSeen
<1>5. new \in Rows
  BY <1>4 DEF Rows
<1> HIDE DEF new, target, whole
<1>6. ASSUME NEW q \in Transaction
      PROVE  /\ told(q) \in Transaction /\ told(q).pc = q.pc /\ told(q).alone = q.alone
             /\ told(q).todo = q.todo /\ told(q).plan = q.plan /\ told(q).mine = q.mine
             /\ q.pc = "spread" => told(q).gone = q.gone \cup removed
  <2> DEFINE g == IF Weights!RowsAhead(q) THEN q.gone \cup removed ELSE {}
             d == IF ~ Weights!InsertsAhead(q) THEN {}
                  ELSE q.deleted \cup (IF whole THEN {target} ELSE {})
  <2>1. g \in SUBSET Variants /\ d \in SUBSET Variants
    BY <1>3 DEF Transaction
  <2>2. q.pc = "spread" => g = q.gone \cup removed
    BY DEF Weights!RowsAhead
  <2> HIDE DEF g, d
  <2>3. told(q) = [q EXCEPT !.gone = g, !.deleted = d]
    BY DEF g, d
  <2> HIDE DEF told
  <2> QED BY <2>1, <2>2, <2>3 DEF Transaction
<1> HIDE DEF told
<1>7. tx' \in [Txs -> Transaction]
  <2>1. \A u \in Txs : tx'[u] \in Transaction
    BY <1>2, <1>6, IdleIsProper DEF AllProper
  <2>2. tx' = [u \in Txs |-> tx'[u]]
    BY DEF Weights!Commit
  <2> QED BY <2>1, <2>2
<1>8. ASSUME NEW u \in Txs PROVE Proper(sv', tx'[u]) /\ ~ Busy(tx'[u])
  <2>1. CASE u = t
    <3>1. ~ Busy(Weights!Idle)
      BY DEF Busy, Weights!Idle
    <3> QED BY <1>2, <2>1, <3>1, IdleIsProper
  <2>2. CASE u # t /\ tx[u].pc = "idle"
    BY <1>2, <2>2 DEF Proper, Sound, Busy
  <2>3. CASE u # t /\ tx[u].pc # "idle"
    <3> DEFINE q == tx[u]
    <3>1. q \in Transaction /\ Sound(sv, q) /\ ~ Busy(q) /\ tx'[u] = told(q)
      BY <1>1, <1>2, <2>3 DEF AllProper, Proper
    <3> HIDE DEF q
    <3>2. ~ Busy(told(q))
      BY <1>6, <3>1 DEF Busy
    <3>3. Sound(new, told(q))
      <4>1. ASSUME q.pc = "spread", NEW v \in DOMAIN q.plan
            PROVE  Seen(new, q.mine)[v] # None \/ v \in q.gone \cup removed
        <5>1. v \in Variants /\ (Seen(sv, q.mine)[v] # None \/ v \in q.gone)
          BY <1>1, <3>1, <4>1, SeenType DEF Sound
        <5> QED BY <5>1 DEF Seen
      <4> HIDE DEF removed
      <4> QED BY <1>6, <3>1, <4>1 DEF Sound
    <3> QED BY <1>2, <3>1, <3>2, <3>3 DEF Proper
  <2> QED BY <2>1, <2>2, <2>3
<1> QED BY <1>2, <1>5, <1>7, <1>8 DEF AllProper

\* No variant has a row.
LEMMA AllProperInit ==
    Weights!Init => AllProper
<1> SUFFICES ASSUME Weights!Init PROVE AllProper
  OBVIOUS
<1>1. sv \in Rows
  BY DEF Weights!Init, Rows
<1>2. \A t \in Txs : tx[t] = Weights!Idle
  BY DEF Weights!Init
<1>3. tx \in [Txs -> Transaction]
  BY IdleIsProper DEF Weights!Init
<1>4. Weights!Idle.pc = "idle"
  BY DEF Weights!Idle
<1> QED BY <1>1, <1>2, <1>3, <1>4, IdleIsProper DEF AllProper

\* Every step keeps the transactions proper.
LEMMA WeightsStep ==
    AllProper /\ (Weights!Next \/ UNCHANGED weightVars) => AllProper'
<1> SUFFICES ASSUME AllProper, Weights!Next \/ UNCHANGED weightVars PROVE AllProper'
  OBVIOUS
<1>1. CASE UNCHANGED weightVars
  <2>1. sv' = sv /\ tx' = tx
    BY <1>1 DEF weightVars
  <2> QED BY <2>1 DEF AllProper
<1>2. ASSUME NEW t \in Txs, Weights!AddVariantToStrategy(t) PROVE AllProper'
  BY <1>2, AddVariantStep
<1>3. ASSUME NEW t \in Txs, Weights!BatchAddVariantsToStrategy(t) PROVE AllProper'
  BY <1>3, BatchAddStep
<1>4. ASSUME NEW t \in Txs, Weights!UpdateStrategyVariant(t) PROVE AllProper'
  BY <1>4, UpdateStep
<1>5. ASSUME NEW t \in Txs, Weights!RemoveVariantFromStrategy(t) \/ Weights!DeleteVariant(t) PROVE AllProper'
  BY <1>5, RemoveStep
<1>6. ASSUME NEW t \in Txs, Weights!Check(t) PROVE AllProper'
  BY <1>6, CheckStep
<1>7. ASSUME NEW t \in Txs, Weights!Write(t) PROVE AllProper'
  BY <1>7, WriteStep
<1>8. ASSUME NEW t \in Txs, Weights!ReadRows(t) PROVE AllProper'
  BY <1>8, ReadRowsStep
<1>9. ASSUME NEW t \in Txs, NEW v \in Variants, Weights!Spread(t, v) PROVE AllProper'
  BY <1>9, SpreadStep
<1>10. ASSUME NEW t \in Txs, Weights!Commit(t) PROVE AllProper'
  BY <1>10, CommitStep
<1>11. ASSUME NEW t \in Txs, Weights!Fails(t) PROVE AllProper'
  BY <1>11, RollbackStep DEF Weights!Fails
<1> QED BY <1>1, <1>2, <1>3, <1>4, <1>5, <1>6, <1>7, <1>8, <1>9, <1>10, <1>11 DEF Weights!Next

\* In particular they have their types.
LEMMA ProperTypes ==
    AllProper => Weights!TypeOK
<1> SUFFICES ASSUME AllProper PROVE Weights!TypeOK
  OBVIOUS
<1>1. sv \in [Variants -> Weights!Row \cup {None}]
  BY DEF AllProper, Rows
<1>2. ASSUME NEW t \in Txs
      PROVE  /\ tx[t].pc \in {"idle", "check", "write", "read", "spread", "commit"}
             /\ tx[t].op \in {None, "add", "update", "remove", "delete"}
             /\ \A i \in DOMAIN tx[t].todo : tx[t].todo[i] \in Weights!Item
             /\ Weights!Partial(tx[t].mine, Weights!Row \cup {None})
             /\ Weights!Partial(tx[t].plan, 0 .. Total)
             /\ tx[t].gone \subseteq Variants /\ tx[t].deleted \subseteq Variants
             /\ tx[t].pc # "idle" => tx[t].todo # <<>>
  <2>1. tx[t] \in Transaction /\ sv \in Rows /\ Proper(sv, tx[t])
    BY DEF AllProper
  <2>2. Weights!Partial(tx[t].mine, Weights!Row \cup {None}) /\ Weights!Partial(tx[t].plan, 0 .. Total)
    BY <2>1, SeenType DEF Weights!Partial
  <2>3. tx[t].todo \in Seq(Weights!Item)
    BY <2>1 DEF Transaction
  <2>4. \A i \in DOMAIN tx[t].todo : tx[t].todo[i] \in Weights!Item
    BY <2>3
  <2>5. tx[t].pc # "idle" => tx[t].todo # <<>>
    BY <2>1 DEF Proper, Sound
  <2> QED BY <2>1, <2>2, <2>4, <2>5 DEF Transaction
<1> QED BY <1>1, <1>2 DEF Weights!TypeOK

-----------------------------------------------------------------------------
(* What a commit leaves.                                                   *)

\* A commit of a request with no other beside it: what it saw.
LEMMA CommitAlone ==
    ASSUME AllProper, NEW t \in Txs, tx[t].alone, Weights!Commit(t)
    PROVE  sv' = Seen(sv, tx[t].mine) /\ Repairing(sv, tx[t]) /\ (InOrder(sv) => Fitting(sv, tx[t]))
           /\ tx[t].pc = "commit"
<1>1. tx[t].pc = "commit" /\ tx[t] \in Transaction /\ Proper(sv, tx[t]) /\ sv \in Rows
  BY DEF AllProper, Weights!Commit
<1>2. Busy(tx[t])
  BY <1>1 DEF Busy
<1>3. Repairing(sv, tx[t]) /\ (InOrder(sv) => Fitting(sv, tx[t]))
  BY <1>1, <1>2 DEF Proper
<1>4. CASE tx[t].op # "delete"
  BY <1>1, <1>3, <1>4, ViewIsSeen DEF Weights!Commit
<1>5. CASE tx[t].op = "delete"
  <2> DEFINE rows == Seen(sv, tx[t].mine)
             target == Head(tx[t].todo).v
  <2>1. rows[target] = None /\ rows \in Rows
    BY <1>1, <1>3, <1>5, SeenType DEF Repairing
  <2>2. sv' = [rows EXCEPT ![target] = None]
    BY <1>5, ViewIsSeen DEF Weights!Commit
  <2>3. [rows EXCEPT ![target] = None] = rows
    <3> HIDE DEF rows, target
    <3> QED BY <2>1 DEF Rows
  <2> QED BY <1>1, <1>3, <2>2, <2>3
<1> QED BY <1>4, <1>5

\* It leaves the weights split.
LEMMA RepairsStep ==
    ASSUME AllProper, NEW t \in Txs, tx[t].alone, tx[t].seen, Weights!Commit(t)
    PROVE  Weights!SplitEqually(sv')
BY CommitAlone DEF Repairing

\* It leaves custom weights that fit.
LEMMA FitsStep ==
    ASSUME AllProper, NEW t \in Txs, tx[t].alone, Weights!Commit(t),
           Weights!CustomsFit(sv), Weights!SplitEqually(sv)
    PROVE  Weights!CustomsFit(sv')
BY CommitAlone DEF Fitting, InOrder

\* The transactions are proper whatever the flags and environments do.
LEMMA AlwaysProper ==
    MCSpec => []AllProper
<1>1. MCInit => AllProper
  BY AllProperInit DEF MCInit
<1>2. AllProper /\ [MCNext]_<<vars, weightVars, orderVars>> => AllProper'
  BY WeightsStep DEF MCNext
<1> QED BY <1>1, <1>2, PTL DEF MCSpec

\* For any number of variants, of requests that overlap and of custom weights, a
\* request that runs with no other beside it and redistributes leaves the weights
\* split: redistributeNonCustomWeights reads every row back in the transaction, its
\* own write included, so nothing that happened before matters.
THEOREM Repairs == MCSpec => RepairsWhenAlone
<1>1. AllProper /\ [MCNext]_<<vars, weightVars, orderVars>>
        => [\A t \in Txs : tx[t].alone /\ tx[t].seen /\ Weights!Commit(t) => Weights!SplitEqually(sv')]_(Weights!vars)
  BY RepairsStep DEF Weights!vars
<1> QED BY <1>1, AlwaysProper, PTL DEF MCSpec, RepairsWhenAlone, Weights!RepairsWhenAlone

\* For any number of variants and any history, a request of variantStrategy.service
\* that runs with no other beside it takes weights that are in order to custom
\* weights that fit: the sum checked before a write is the one it leaves, and a
\* weight kept unchecked is at most what the custom weights had left.
THEOREM Fits == MCSpec => FitsWhenAlone
<1>1. AllProper /\ [MCNext]_<<vars, weightVars, orderVars>>
        => [\A t \in Txs : tx[t].alone /\ Weights!Commit(t) =>
              (Weights!CustomsFit(sv) /\ Weights!SplitEqually(sv) => Weights!CustomsFit(sv'))]_(Weights!vars)
  BY FitsStep DEF Weights!vars
<1> QED BY <1>1, AlwaysProper, PTL DEF MCSpec, FitsWhenAlone, Weights!FitsWhenAlone

-----------------------------------------------------------------------------
(* The types of both.                                                      *)

\* For any number of flags, environments, variants and requests that overlap: every
\* row is one of a flag and an environment that exist, and what the transactions of
\* variantStrategy.service hold are rows, shares and batches of the right kinds.
THEOREM TypesCorrect == MCSpec => []TypesOK
<1>1. MCInit => Known /\ AllProper
  BY KnownInit, AllProperInit DEF MCInit
<1>2. Known /\ AllProper /\ [MCNext]_<<vars, weightVars, orderVars>> => Known' /\ AllProper'
  <2> SUFFICES ASSUME Known, AllProper, [MCNext]_<<vars, weightVars, orderVars>>
               PROVE  Known' /\ AllProper'
    OBVIOUS
  <2>1. [Next]_vars
    BY DEF MCNext
  <2> QED BY <2>1, EveryStep, WeightsStep DEF MCNext
<1>3. Known /\ AllProper => TypesOK
  BY ProperTypes DEF Known, Typed, TypesOK
<1> QED BY <1>1, <1>2, <1>3, PTL DEF MCSpec

-----------------------------------------------------------------------------
(* The order of the strategies.                                            *)

\* What is assumed of the constants of StrategyOrder.
LEMMA OrderConstants ==
    /\ GivenPriorities \subseteq Nat
    /\ None \notin Nat /\ None \notin Calls
    /\ Deleted \notin Order!Row
BY OrderAssumption DEF Order!OrderAssumption

\* Cardinality is the same operator in both modules.
LEMMA CardinalityOfOrder == ASSUME NEW S PROVE Order!Cardinality(S) = Cardinality(S)
BY DEF Order!Cardinality, Cardinality

\* A finite set of numbers has a highest one.
LEMMA Highest ==
    ASSUME NEW S, IsFiniteSet(S), S # {}, NEW f, \A x \in S : f[x].priority \in Nat
    PROVE  \E x \in S : \A y \in S : f[y].priority <= f[x].priority
<1> DEFINE G == {T \in SUBSET S : T = {} \/ \E x \in T : \A y \in T : f[y].priority <= f[x].priority}
<1>1. {} \in G
  OBVIOUS
<1>2. ASSUME NEW T \in SUBSET S, T # {}, \A x \in T : T \ {x} \in G PROVE T \in G
  <2>1. PICK x \in T : TRUE
    BY <1>2
  <2>2. CASE T \ {x} = {}
    <3>1. T = {x}
      BY <2>1, <2>2
    <3> QED BY <3>1
  <2>3. CASE T \ {x} # {}
    <3>1. PICK z \in T \ {x} : \A y \in T \ {x} : f[y].priority <= f[z].priority
      BY <1>2, <2>3
    <3>2. CASE f[x].priority <= f[z].priority
      BY <3>1, <3>2
    <3>3. CASE ~ (f[x].priority <= f[z].priority)
      <4>1. \A y \in T : f[y].priority <= f[x].priority
        BY <3>1, <3>3
      <4> QED BY <4>1
    <3> QED BY <3>2, <3>3
  <2> QED BY <2>2, <2>3
<1> HIDE DEF G
<1>3. S \in G
  BY <1>1, <1>2, Growing
<1> QED BY <1>3 DEF G

\* The priority a new strategy gets if none is asked for is above all others.
LEMMA NextPriority ==
    ASSUME NEW rows, NEW S, IsFiniteSet(S), \A i \in S : rows[i].priority \in Nat
    PROVE  /\ Order!HighestPriority(rows, S) + 1 \in Nat
           /\ \A i \in S : rows[i].priority < Order!HighestPriority(rows, S) + 1
<1>1. CASE S = {}
  BY <1>1 DEF Order!HighestPriority
<1>2. CASE S # {}
  <2> DEFINE P == {rows[i].priority : i \in S}
             top == Order!HighestPriority(rows, S)
  <2>1. \E x \in P : \A y \in P : x >= y
    <3>1. PICK x \in S : \A y \in S : rows[y].priority <= rows[x].priority
      BY <1>2, Highest
    <3> QED BY <3>1
  <2>2. top = CHOOSE x \in P : \A y \in P : x >= y
    BY <1>2 DEF Order!HighestPriority, Order!Max
  <2>3. top \in P /\ \A y \in P : top >= y
    <3> HIDE DEF P, top
    <3> QED BY <2>1, <2>2
  <2>4. \A i \in S : rows[i].priority \in P
    OBVIOUS
  <2>5. P \subseteq Nat
    OBVIOUS
  <2> HIDE DEF P, top
  <2>6. \A y \in P : y < top + 1
    BY <2>3, <2>5
  <2>7. top + 1 \in Nat
    BY <2>3, <2>5
  <2> QED BY <2>4, <2>6, <2>7 DEF top
<1> QED BY <1>1, <1>2

\* A sequence of all the elements of a finite set, each once.
LEMMA Enumeration ==
    ASSUME NEW S, IsFiniteSet(S), NEW s \in Order!SetToSeqs(S)
    PROVE  /\ s \in Seq(S) /\ DOMAIN s = 1..Len(s) /\ Len(s) \in Nat
           /\ Order!ToSet(s) = S
           /\ \A m, n \in DOMAIN s : s[m] = s[n] => m = n
<1> DEFINE D == 1..Cardinality(S)
<1>1. s \in [D -> S] /\ \A i, j \in D : i # j => s[i] # s[j]
  BY CardinalityOfOrder DEF Order!SetToSeqs
<1>2. Cardinality(S) \in Nat
  BY FS_CardinalityType
<1>3. s \in Seq(S) /\ DOMAIN s = 1..Len(s) /\ Len(s) \in Nat
  BY <1>1, <1>2
<1>4. s \in Injection(D, S)
  BY <1>1 DEF Injection, IsInjective
<1>5. IsFiniteSet(D) /\ Cardinality(D) = Cardinality(S)
  <2>1. IsFiniteSet(D)
    BY <1>2, FS_Interval
  <2>2. Cardinality(D) = IF 1 > Cardinality(S) THEN 0 ELSE Cardinality(S) - 1 + 1
    BY <1>2, FS_Interval
  <2>3. Cardinality(D) = Cardinality(S)
    BY <1>2, <2>2
  <2> QED BY <2>1, <2>3
<1>6. s \in Surjection(D, S)
  BY <1>4, <1>5, FS_Injection
<1>7. \A x \in S : \E i \in D : s[i] = x
  BY <1>6 DEF Surjection
<1>8. Order!ToSet(s) = S
  <2>1. DOMAIN s = D
    BY <1>1
  <2> QED BY <1>1, <1>7, <2>1 DEF Order!ToSet
<1>9. \A m, n \in DOMAIN s : s[m] = s[n] => m = n
  BY <1>1
<1> QED BY <1>3, <1>8, <1>9

\* The place of an element in such a sequence.
LEMMA Place ==
    ASSUME NEW s, NEW i \in Order!ToSet(s)
    PROVE  /\ (CHOOSE n \in DOMAIN s : s[n] = i) \in DOMAIN s
           /\ s[CHOOSE n \in DOMAIN s : s[n] = i] = i
BY DEF Order!ToSet

Moves == UNION {[S -> Order!Row] : S \in SUBSET Nat}

CallRecord ==
    [pc : {"idle", "check", "move", "read", "write", "commit"},
     among : SUBSET Places, row : Nat, target : Places \cup {None},
     default : BOOLEAN \cup {None}, priority : Nat \cup {None}, copied : BOOLEAN \cup {None},
     todo : SUBSET Places, env : Places \cup {None}, listed : Seq(Nat), next : Nat,
     mine : Moves, new : Seq(Order!Row), reordered : BOOLEAN]

\* What a call holds is about strategies that have been created.
Bound(n, c) ==
    /\ c.row # 0 => c.row \in 1..n /\ c.target \in Places
    /\ c.pc = "move" => c.row # 0
    /\ c.pc # "idle" => c.copied \in BOOLEAN
    /\ c.pc = "write" => c.env \in c.todo
    /\ DOMAIN c.mine \subseteq 1..n
    /\ Order!ToSet(c.listed) \subseteq 1..n

Ordered ==
    /\ strat \in Seq(Order!Row \cup {Deleted}) /\ Len(strat) <= MaxStrategies
    /\ call \in [Calls -> CallRecord]
    /\ \A r \in Calls : Bound(Len(strat), call[r])

\* The rows as a call that wrote `mine' sees them.
ViewOf(rows, mine) == [i \in DOMAIN rows |-> IF i \in DOMAIN mine THEN mine[i] ELSE rows[i]]

Creating(c) == c.pc # "idle" /\ c.row = 0 /\ ~ c.reordered

\* Rows it renumbered are still there, in environments it is done with.
RenumberedThere(rows, c) ==
    \A i \in DOMAIN c.mine :
      /\ i \in Order!Live(rows)
      /\ c.mine[i].env = rows[i].env /\ c.mine[i].env \notin c.todo /\ c.mine[i].priority >= 1

OrderKept(rows, c) ==
    \A i, j \in Order!Live(rows) :
      rows[i].env = rows[j].env /\ rows[i].priority < rows[j].priority =>
        ViewOf(rows, c.mine)[i].priority < ViewOf(rows, c.mine)[j].priority

\* The new rows: one in an environment, below or above all others.
NewApart(c) ==
    \A k, l \in DOMAIN c.new :
      /\ c.new[k].env \notin c.todo /\ c.new[k].default = c.default
      /\ c.new[k].env = c.new[l].env => k = l

NewInPlace(rows, c) ==
    c.default \/ c.priority = None =>
      \A k \in DOMAIN c.new, j \in Order!Live(rows) :
        rows[j].env = c.new[k].env =>
          IF c.default THEN c.new[k].priority < ViewOf(rows, c.mine)[j].priority
                       ELSE c.new[k].priority > ViewOf(rows, c.mine)[j].priority

\* What it has read of an environment holds of what is left of that.
ReadHolds(rows, c) ==
    c.pc = "write" =>
      IF c.default
      THEN /\ Order!InEnv(rows, c.env) \subseteq Order!ToSet(c.listed)
           /\ \A i \in Order!ToSet(c.listed) : rows[i] # Deleted => rows[i].env = c.env
           /\ \A m, n \in DOMAIN c.listed :
                /\ c.listed[m] = c.listed[n] => m = n
                /\ m < n /\ c.listed[m] \in Order!Live(rows) /\ c.listed[n] \in Order!Live(rows) =>
                     rows[c.listed[m]].priority <= rows[c.listed[n]].priority
      ELSE /\ c.listed = <<>>
           /\ \A j \in Order!InEnv(rows, c.env) : rows[j].priority < c.next

Tidy(rows, c) ==
    /\ c.default \in BOOLEAN /\ c.copied = c.default
    /\ IF c.default THEN c.priority = 0 ELSE DOMAIN c.mine = {}
    /\ RenumberedThere(rows, c)
    /\ OrderKept(rows, c)
    /\ NewApart(c)
    /\ NewInPlace(rows, c)
    /\ ReadHolds(rows, c)

OneCall == \A q, r \in Calls : q = r

AllTidy == Ordered /\ \A r \in Calls : Creating(call[r]) => Tidy(strat, call[r])

-----------------------------------------------------------------------------
(* Types of the calls.                                                     *)

\* A call that is through, or has not begun.
LEMMA IdleCall ==
    /\ Order!Idle \in CallRecord /\ \A n : Bound(n, Order!Idle)
    /\ Order!Idle.pc = "idle" /\ Order!Idle.mine = <<>> /\ Order!Idle.new = <<>>
<1>1. <<>> \in Moves
  <2>1. {} \in SUBSET Nat /\ <<>> \in [{} -> Order!Row]
    OBVIOUS
  <2> QED BY <2>1 DEF Moves
<1>2. Order!Idle \in CallRecord
  BY <1>1 DEF Order!Idle, CallRecord
<1>3. \A n : Bound(n, Order!Idle)
  <2>1. Order!ToSet(<<>>) = {}
    BY DEF Order!ToSet
  <2> QED BY <2>1 DEF Order!Idle, Bound
<1> QED BY <1>2, <1>3 DEF Order!Idle

\* A strategy that exists is a row.
LEMMA StrategiesType ==
    ASSUME Ordered
    PROVE  /\ DOMAIN strat = 1..Len(strat) /\ Len(strat) \in Nat
           /\ \A i \in DOMAIN strat : strat[i] \in Order!Row \cup {Deleted}
           /\ \A i \in Order!Live(strat) : i \in DOMAIN strat /\ i \in Nat \ {0} /\ strat[i] \in Order!Row
BY DEF Ordered, Order!Live

\* The fields of a row.
LEMMA RowFields ==
    ASSUME NEW x \in Order!Row
    PROVE  x.env \in Places /\ x.default \in BOOLEAN /\ x.priority \in Nat
BY DEF Order!Row

\* The sets and sequences that a call holds.
LEMMA CallFields ==
    ASSUME NEW c \in CallRecord
    PROVE  /\ c.todo \in SUBSET Places /\ c.listed \in Seq(Nat) /\ c.new \in Seq(Order!Row)
           /\ c.mine \in [DOMAIN c.mine -> Order!Row] /\ DOMAIN c.mine \in SUBSET Nat
           /\ \A i \in DOMAIN c.mine : c.mine[i] \in Order!Row
<1>1. c.todo \in SUBSET Places /\ c.listed \in Seq(Nat) /\ c.new \in Seq(Order!Row) /\ c.mine \in Moves
  BY DEF CallRecord
<1>2. c.mine \in [DOMAIN c.mine -> Order!Row] /\ DOMAIN c.mine \in SUBSET Nat
  BY <1>1 DEF Moves
<1> QED BY <1>1, <1>2

\* The finite set of strategies that exist in an environment, as a call sees them.
LEMMA InEnvIsFinite ==
    ASSUME Ordered, NEW r \in Calls, NEW e
    PROVE  /\ Order!View(r) = ViewOf(strat, call[r].mine)
           /\ DOMAIN Order!View(r) = DOMAIN strat
           /\ \A i \in DOMAIN strat : Order!View(r)[i] \in Order!Row \cup {Deleted}
           /\ IsFiniteSet(Order!InEnv(Order!View(r), e))
           /\ Order!InEnv(Order!View(r), e) \subseteq DOMAIN strat
           /\ \A i \in Order!InEnv(Order!View(r), e) : /\ Order!View(r)[i] \in Order!Row
                                                       /\ Order!View(r)[i].priority \in Nat
                                                       /\ Order!View(r)[i].env = e
<1> DEFINE rows == Order!View(r)
           S == Order!InEnv(rows, e)
<1>1. rows = ViewOf(strat, call[r].mine) /\ DOMAIN rows = DOMAIN strat
  BY DEF Order!View, ViewOf
<1>2. \A i \in DOMAIN strat : rows[i] \in Order!Row \cup {Deleted}
  <2>1. \A i \in DOMAIN call[r].mine : call[r].mine[i] \in Order!Row
    BY CallFields DEF Ordered
  <2> QED BY <2>1, StrategiesType DEF Order!View
<1> HIDE DEF rows
<1>3. \A i \in S : i \in DOMAIN strat /\ rows[i] \in Order!Row /\ rows[i].env = e
  BY <1>1, <1>2 DEF Order!InEnv, Order!Live
<1>4. IsFiniteSet(S)
  <2>1. IsFiniteSet(1..Len(strat))
    BY StrategiesType, FS_Interval
  <2>2. S \subseteq 1..Len(strat)
    BY <1>3, StrategiesType
  <2> QED BY <2>1, <2>2, FS_Subset
<1> QED BY <1>1, <1>2, <1>3, <1>4, RowFields DEF rows

\* A call takes a step and no row changes.
LEMMA CallMoves ==
    ASSUME Ordered, NEW r \in Calls, NEW c \in CallRecord, strat' = strat,
           call' = [call EXCEPT ![r] = c], Bound(Len(strat), c)
    PROVE  Ordered'
<1>1. \A q \in Calls : call'[q] = IF q = r THEN c ELSE call[q]
  BY DEF Ordered
<1>2. call' \in [Calls -> CallRecord]
  BY DEF Ordered
<1> QED BY <1>1, <1>2 DEF Ordered

\* What CreateStrategy, UpdateStrategy, ... make of the call.
Asked(pc, among, i, target, default, priority, copied, todo) ==
    [pc |-> pc, among |-> among, row |-> i, target |-> target, default |-> default,
     priority |-> priority, copied |-> copied, todo |-> todo, env |-> None, listed |-> <<>>,
     next |-> 0, mine |-> <<>>, new |-> <<>>, reordered |-> FALSE]

\* Such a call has its type.
LEMMA AskedType ==
    ASSUME NEW pc \in {"check", "move", "read"}, NEW among \in SUBSET Places,
           NEW i \in Nat, NEW target \in Places \cup {None}, NEW default \in BOOLEAN \cup {None},
           NEW priority \in Nat \cup {None}, NEW copied \in BOOLEAN, NEW todo \in SUBSET Places
    PROVE  Asked(pc, among, i, target, default, priority, copied, todo) \in CallRecord
<1>1. <<>> \in Moves /\ copied \in BOOLEAN \cup {None}
  BY IdleCall DEF CallRecord
<1> QED BY <1>1 DEF CallRecord, Asked

\* Nothing is listed or changed yet.
LEMMA AskedBound ==
    ASSUME NEW n, NEW c, c.mine = <<>>, c.listed = <<>>, c.pc # "write", c.copied \in BOOLEAN,
           c.row # 0 => c.row \in 1..n /\ c.target \in Places, c.pc = "move" => c.row # 0
    PROVE  Bound(n, c)
<1>1. Order!ToSet(<<>>) = {} /\ DOMAIN <<>> = {}
  BY DEF Order!ToSet
<1> QED BY <1>1 DEF Bound

\* createStrategy is called.
LEMMA CreateCases ==
    ASSUME NEW r \in Calls, Order!CreateStrategy(r)
    PROVE  /\ strat' = strat /\ call[r].pc = "idle"
           /\ \E es \in SUBSET Places \ {{}}, default \in BOOLEAN, given \in GivenPriorities \cup {None} :
                call' = [call EXCEPT ![r] =
                          Asked(IF default THEN "check" ELSE "read", es, 0, None, default,
                                IF default THEN 0 ELSE given, default, es)]
BY DEF Order!CreateStrategy, Asked

\* One for each action of a call.
LEMMA CreateType ==
    ASSUME Ordered, NEW r \in Calls, Order!CreateStrategy(r)
    PROVE  Ordered'
<1>1. PICK es \in SUBSET Places \ {{}}, default \in BOOLEAN, given \in GivenPriorities \cup {None} :
        call' = [call EXCEPT ![r] =
                  Asked(IF default THEN "check" ELSE "read", es, 0, None, default,
                        IF default THEN 0 ELSE given, default, es)]
  BY CreateCases
<1> DEFINE pc == IF default THEN "check" ELSE "read"
           p == IF default THEN 0 ELSE given
           c == Asked(pc, es, 0, None, default, p, default, es)
<1>2. pc \in {"check", "read"} /\ p \in Nat \cup {None} /\ default \in BOOLEAN \cup {None}
  BY OrderConstants
<1>3. call' = [call EXCEPT ![r] = c]
  BY <1>1
<1> HIDE DEF pc, p
<1>4. c \in CallRecord
  BY <1>2, AskedType
<1>5. Bound(Len(strat), c)
  <2>1. c.row = 0 /\ c.pc = pc /\ c.copied = default /\ c.mine = <<>> /\ c.listed = <<>>
    BY DEF Asked
  <2> HIDE DEF c
  <2> QED BY <1>2, <2>1, AskedBound
<1> HIDE DEF c
<1> QED BY <1>3, <1>4, <1>5, CallMoves, CreateCases

\* updateStrategy is called.
LEMMA UpdateCases ==
    ASSUME NEW r \in Calls, Order!UpdateStrategy(r)
    PROVE  \E i \in Order!Live(strat), es \in SUBSET Places, default \in BOOLEAN \cup {None},
              given \in GivenPriorities \cup {None} :
             \E target \in (IF es = {} \/ strat[i].env \in es THEN {strat[i].env} ELSE es) :
               /\ call[r].pc = "idle"
               /\ call' = [call EXCEPT ![r] =
                     Asked(IF default = TRUE THEN "check" ELSE "move",
                           IF es = {} THEN {strat[i].env} ELSE es, i, target, default, given,
                           IF default = None THEN strat[i].default ELSE default, es \ {target})]
               /\ UNCHANGED strat
BY Zenon DEF Order!UpdateStrategy, Asked

\* It is about a strategy that exists, and is no call that creates one.
LEMMA UpdateType ==
    ASSUME Ordered, NEW r \in Calls, Order!UpdateStrategy(r)
    PROVE  Ordered' /\ strat' = strat /\ call'[r].row # 0
<1>1. PICK i \in Order!Live(strat), es \in SUBSET Places, default \in BOOLEAN \cup {None},
           given \in GivenPriorities \cup {None} :
             \E target \in (IF es = {} \/ strat[i].env \in es THEN {strat[i].env} ELSE es) :
               /\ call[r].pc = "idle"
               /\ call' = [call EXCEPT ![r] =
                     Asked(IF default = TRUE THEN "check" ELSE "move",
                           IF es = {} THEN {strat[i].env} ELSE es, i, target, default, given,
                           IF default = None THEN strat[i].default ELSE default, es \ {target})]
               /\ UNCHANGED strat
  BY UpdateCases
<1>2. PICK target \in (IF es = {} \/ strat[i].env \in es THEN {strat[i].env} ELSE es) :
               /\ call[r].pc = "idle"
               /\ call' = [call EXCEPT ![r] =
                     Asked(IF default = TRUE THEN "check" ELSE "move",
                           IF es = {} THEN {strat[i].env} ELSE es, i, target, default, given,
                           IF default = None THEN strat[i].default ELSE default, es \ {target})]
               /\ UNCHANGED strat
  BY <1>1
<1> DEFINE pc == IF default = TRUE THEN "check" ELSE "move"
           among == IF es = {} THEN {strat[i].env} ELSE es
           copied == IF default = None THEN strat[i].default ELSE default
           left == es \ {target}
           c == Asked(pc, among, i, target, default, given, copied, left)
<1>3. strat[i].env \in Places /\ strat[i].default \in BOOLEAN /\ i \in 1..Len(strat) /\ i \in Nat \ {0}
  BY StrategiesType, RowFields
<1>4. /\ pc \in {"check", "move"} /\ among \in SUBSET Places /\ copied \in BOOLEAN
      /\ left \in SUBSET Places /\ target \in Places /\ given \in Nat \cup {None}
  BY <1>3, OrderConstants
<1>5. call' = [call EXCEPT ![r] = c] /\ strat' = strat
  BY <1>2
<1> HIDE DEF pc, among, copied, left
<1>6. c \in CallRecord
  BY <1>3, <1>4, AskedType
<1>7. c.row = i /\ c.pc = pc /\ c.target = target /\ c.copied = copied /\ c.mine = <<>> /\ c.listed = <<>>
  BY DEF Asked
<1> HIDE DEF c
<1>8. Bound(Len(strat), c)
  BY <1>3, <1>4, <1>7, AskedBound
<1>9. call'[r] = c
  BY <1>5 DEF Ordered
<1> QED BY <1>3, <1>5, <1>6, <1>7, <1>8, <1>9, CallMoves

LEMMA CheckDefaultType ==
    ASSUME Ordered, NEW r \in Calls, Order!CheckDefault(r)
    PROVE  Ordered'
<1> DEFINE old == call[r]
           pc == IF old.row = 0 THEN "read" ELSE "move"
           c == IF Order!OtherDefaults(r) # {} THEN Order!Idle ELSE [old EXCEPT !.pc = pc]
<1>1. old \in CallRecord /\ Bound(Len(strat), old) /\ old.pc = "check"
  BY DEF Ordered, Order!CheckDefault
<1>2. call' = [call EXCEPT ![r] = c] /\ strat' = strat
  BY DEF Order!CheckDefault
<1>3. pc \in {"read", "move"} /\ (pc = "move" => old.row # 0)
  OBVIOUS
<1> HIDE DEF pc, old
<1>4. [old EXCEPT !.pc = pc] \in CallRecord /\ Bound(Len(strat), [old EXCEPT !.pc = pc])
  <2> DEFINE n == [old EXCEPT !.pc = pc]
  <2>1. n \in CallRecord /\ n.pc = pc /\ n.row = old.row /\ n.target = old.target /\ n.copied = old.copied
        /\ n.mine = old.mine /\ n.listed = old.listed
    BY <1>1, <1>3 DEF CallRecord
  <2> HIDE DEF n
  <2>2. Bound(Len(strat), n)
    BY <1>1, <1>3, <2>1 DEF Bound
  <2> QED BY <2>1, <2>2 DEF n
<1>5. c \in CallRecord /\ Bound(Len(strat), c)
  BY <1>4, IdleCall
<1> HIDE DEF c
<1> QED BY <1>2, <1>5, CallMoves

LEMMA MoveType ==
    ASSUME Ordered, NEW r \in Calls, Order!MoveStrategy(r)
    PROVE  Ordered'
<1> DEFINE old == call[r]
           i == old.row
           pc == Order!Onward(old.todo)
           moved == [env |-> old.target, default |-> Order!OrElse(old.default, strat[i].default),
                     priority |-> Order!OrElse(old.priority, strat[i].priority)]
           mine == [x \in {i} |-> moved]
           n == [old EXCEPT !.pc = pc, !.mine = mine]
           c == IF strat[i] = Deleted THEN Order!Idle ELSE n
<1>1. old \in CallRecord /\ Bound(Len(strat), old) /\ old.pc = "move"
  BY DEF Ordered, Order!MoveStrategy
<1>2. call' = [call EXCEPT ![r] = c] /\ strat' = strat
  BY DEF Order!MoveStrategy
<1>3. i \in 1..Len(strat) /\ i \in Nat /\ old.target \in Places
  BY <1>1, StrategiesType DEF Bound
<1>4. ASSUME strat[i] # Deleted PROVE n \in CallRecord /\ Bound(Len(strat), n)
  <2>1. strat[i].default \in BOOLEAN /\ strat[i].priority \in Nat
    BY <1>3, <1>4, StrategiesType, RowFields
  <2>2. old.default \in BOOLEAN \cup {None} /\ old.priority \in Nat \cup {None}
    BY <1>1 DEF CallRecord
  <2>3. Order!OrElse(old.default, strat[i].default) \in BOOLEAN
    BY <2>1, <2>2 DEF Order!OrElse
  <2>4. Order!OrElse(old.priority, strat[i].priority) \in Nat
    BY <2>1, <2>2 DEF Order!OrElse
  <2>5. moved \in Order!Row
    BY <1>3, <2>3, <2>4 DEF Order!Row
  <2> HIDE DEF moved
  <2>6. mine \in Moves /\ DOMAIN mine = {i}
    <3>1. mine \in [{i} -> Order!Row] /\ {i} \in SUBSET Nat
      BY <1>3, <2>5
    <3> QED BY <3>1 DEF Moves
  <2>7. pc \in {"read", "commit"}
    BY DEF Order!Onward
  <2> HIDE DEF old, pc, mine
  <2>8. n \in CallRecord /\ n.pc = pc /\ n.row = old.row /\ n.target = old.target /\ n.copied = old.copied
        /\ n.mine = mine /\ n.listed = old.listed
    BY <1>1, <2>6, <2>7 DEF CallRecord
  <2> HIDE DEF n
  <2>9. Bound(Len(strat), n)
    BY <1>1, <1>3, <2>6, <2>7, <2>8 DEF Bound
  <2> QED BY <2>8, <2>9
<1> HIDE DEF n
<1>5. c \in CallRecord /\ Bound(Len(strat), c)
  BY <1>4, IdleCall
<1> HIDE DEF c
<1> QED BY <1>2, <1>5, CallMoves

\* What a call may have listed.
LEMMA ListedType ==
    ASSUME Ordered, NEW r \in Calls, NEW e,
           NEW s \in IF Order!Renumbers(call[r])
                     THEN Order!ExistingStrategies(Order!View(r), Order!InEnv(Order!View(r), e)) ELSE {<<>>}
    PROVE  s \in Seq(Nat) /\ Order!ToSet(s) \subseteq 1..Len(strat)
<1>1. CASE s = <<>>
  BY <1>1 DEF Order!ToSet
<1>2. CASE s \in Order!SetToSeqs(Order!InEnv(Order!View(r), e))
  <2> DEFINE S == Order!InEnv(Order!View(r), e)
  <2>1. IsFiniteSet(S) /\ S \subseteq 1..Len(strat)
    BY InEnvIsFinite, StrategiesType
  <2> HIDE DEF S
  <2>2. s \in Seq(S) /\ Order!ToSet(s) = S
    BY <1>2, <2>1, Enumeration DEF S
  <2>3. S \subseteq Nat
    BY <2>1, StrategiesType
  <2>4. s \in Seq(Nat)
    BY <2>2, <2>3, SeqMonotonic
  <2> QED BY <2>1, <2>2, <2>4
<1> QED BY <1>1, <1>2 DEF Order!ExistingStrategies, Order!Ascending

LEMMA ReadEnvType ==
    ASSUME Ordered, NEW r \in Calls, NEW e \in Places, Order!ReadEnv(r, e)
    PROVE  Ordered'
<1> DEFINE old == call[r]
           next == Order!HighestPriority(Order!View(r), Order!InEnv(Order!View(r), e)) + 1
<1>1. old \in CallRecord /\ Bound(Len(strat), old) /\ old.pc = "read" /\ e \in old.todo
  BY DEF Ordered, Order!ReadEnv
<1>2. PICK s \in (IF Order!Renumbers(old)
                  THEN Order!ExistingStrategies(Order!View(r), Order!InEnv(Order!View(r), e)) ELSE {<<>>}) :
        /\ call' = [call EXCEPT ![r] = [old EXCEPT !.pc = "write", !.env = e, !.listed = s, !.next = next]]
        /\ strat' = strat
  BY DEF Order!ReadEnv
<1>3. s \in Seq(Nat) /\ Order!ToSet(s) \subseteq 1..Len(strat)
  BY <1>2, ListedType
<1>4. next \in Nat
  BY InEnvIsFinite, NextPriority
<1> DEFINE n == [old EXCEPT !.pc = "write", !.env = e, !.listed = s, !.next = next]
<1> HIDE DEF old, next
<1>5. n \in CallRecord /\ n.pc = "write" /\ n.row = old.row /\ n.target = old.target /\ n.copied = old.copied
      /\ n.mine = old.mine /\ n.listed = s /\ n.env = e /\ n.todo = old.todo
  BY <1>1, <1>3, <1>4 DEF CallRecord
<1> HIDE DEF n
<1>6. Bound(Len(strat), n)
  BY <1>1, <1>3, <1>5 DEF Bound
<1>7. call' = [call EXCEPT ![r] = n] /\ strat' = strat
  BY <1>2 DEF n
<1> QED BY <1>5, <1>6, <1>7, CallMoves

\* What WriteEnv makes of a call.
WrittenBy(rows, c) ==
    [i \in Order!ToSet(c.listed) \cup DOMAIN c.mine |->
       IF i \in Order!ToSet(c.listed)
       THEN [rows[i] EXCEPT !.priority = CHOOSE n \in DOMAIN c.listed : c.listed[n] = i]
       ELSE c.mine[i]]

CreatedBy(c) == [env |-> c.env, default |-> c.copied, priority |-> Order!OrElse(c.priority, c.next)]

AfterWrite(rows, c) ==
    [c EXCEPT !.pc = Order!Onward(c.todo \ {c.env}), !.todo = c.todo \ {c.env},
              !.mine = WrittenBy(rows, c), !.new = Append(c.new, CreatedBy(c))]

\* A listed strategy is gone and it fails, or all are there and it goes on.
LEMMA WriteCases ==
    ASSUME NEW r \in Calls, Order!WriteEnv(r)
    PROVE  /\ call[r].pc = "write" /\ strat' = strat
           /\ \/ call' = [call EXCEPT ![r] = Order!Idle]
              \/ /\ \A i \in Order!ToSet(call[r].listed) : strat[i] # Deleted
                 /\ call' = [call EXCEPT ![r] = AfterWrite(strat, call[r])]
BY DEF Order!WriteEnv, AfterWrite, WrittenBy, CreatedBy

\* The strategies it listed have their new priorities, distinct ones.
LEMMA AfterWriteType ==
    ASSUME Ordered, NEW c \in CallRecord, Bound(Len(strat), c), c.pc = "write",
           \A i \in Order!ToSet(c.listed) : strat[i] # Deleted
    PROVE  /\ AfterWrite(strat, c) \in CallRecord
           /\ AfterWrite(strat, c).pc \in {"read", "commit"}
           /\ \A i \in Order!ToSet(c.listed) : /\ i \in Order!Live(strat)
                                               /\ WrittenBy(strat, c)[i] \in Order!Row
                                               /\ WrittenBy(strat, c)[i].env = strat[i].env
                                               /\ WrittenBy(strat, c)[i].priority \in DOMAIN c.listed
                                               /\ c.listed[WrittenBy(strat, c)[i].priority] = i
           /\ DOMAIN WrittenBy(strat, c) = Order!ToSet(c.listed) \cup DOMAIN c.mine
           /\ CreatedBy(c) \in Order!Row
<1> DEFINE m == WrittenBy(strat, c)
           new == CreatedBy(c)
           changed == Order!ToSet(c.listed)
           pc == Order!Onward(c.todo \ {c.env})
<1>1. DOMAIN m = changed \cup DOMAIN c.mine
  BY DEF WrittenBy
<1>2. changed \subseteq 1..Len(strat)
  BY DEF Bound
<1>3. ASSUME NEW i \in changed
      PROVE  /\ i \in Order!Live(strat) /\ m[i] \in Order!Row /\ m[i].env = strat[i].env
             /\ m[i].priority \in DOMAIN c.listed /\ c.listed[m[i].priority] = i
  <2> DEFINE p == CHOOSE n \in DOMAIN c.listed : c.listed[n] = i
  <2>1. p \in DOMAIN c.listed /\ c.listed[p] = i
    BY Place
  <2>2. p \in Nat
    BY <2>1 DEF CallRecord
  <2>3. strat[i] \in Order!Row /\ i \in Order!Live(strat)
    BY <1>2, StrategiesType DEF Order!Live
  <2>4. m[i] = [strat[i] EXCEPT !.priority = p]
    BY DEF WrittenBy
  <2> HIDE DEF p, m
  <2>5. m[i] \in Order!Row /\ m[i].env = strat[i].env /\ m[i].priority = p
    BY <2>2, <2>3, <2>4 DEF Order!Row
  <2> QED BY <2>1, <2>3, <2>5
<1>4. m \in Moves
  <2>1. \A i \in DOMAIN m : m[i] \in Order!Row
    BY <1>3, CallFields DEF WrittenBy
  <2>2. m = [i \in DOMAIN m |-> m[i]]
    BY DEF WrittenBy
  <2>3. DOMAIN m \in SUBSET Nat
    BY <1>1, <1>2, CallFields
  <2> HIDE DEF m
  <2>4. m \in [DOMAIN m -> Order!Row]
    BY <2>1, <2>2
  <2> QED BY <2>3, <2>4 DEF Moves
<1>5. new \in Order!Row
  <2>1. c.env \in Places /\ c.copied \in BOOLEAN
    BY DEF Bound, CallRecord
  <2>2. c.priority \in Nat \cup {None} /\ c.next \in Nat
    BY DEF CallRecord
  <2>3. Order!OrElse(c.priority, c.next) \in Nat
    BY <2>2 DEF Order!OrElse
  <2> QED BY <2>1, <2>3 DEF CreatedBy, Order!Row
<1>6. pc \in {"read", "commit"}
  BY DEF Order!Onward
<1>7. AfterWrite(strat, c) \in CallRecord /\ AfterWrite(strat, c).pc \in {"read", "commit"}
  <2>1. c.todo \ {c.env} \in SUBSET Places /\ Append(c.new, new) \in Seq(Order!Row)
    BY <1>5, CallFields
  <2> HIDE DEF m, new, pc
  <2> DEFINE z(left, more) == [c EXCEPT !.pc = pc, !.todo = left, !.mine = m, !.new = more]
  <2>2. \A left \in SUBSET Places, more \in Seq(Order!Row) :
          z(left, more) \in CallRecord /\ z(left, more).pc = pc
    BY <1>4, <1>6 DEF CallRecord
  <2>3. AfterWrite(strat, c) = z(c.todo \ {c.env}, Append(c.new, new))
    BY DEF AfterWrite, m, new, pc
  <2> HIDE DEF z
  <2> QED BY <1>6, <2>1, <2>2, <2>3
<1> QED BY <1>1, <1>3, <1>5, <1>7

\* Its other fields.
LEMMA AfterWriteFields ==
    ASSUME NEW rows, NEW c \in CallRecord
    PROVE  /\ AfterWrite(rows, c).todo = c.todo \ {c.env}
           /\ AfterWrite(rows, c).mine = WrittenBy(rows, c)
           /\ AfterWrite(rows, c).new = Append(c.new, CreatedBy(c))
           /\ AfterWrite(rows, c).row = c.row /\ AfterWrite(rows, c).target = c.target
           /\ AfterWrite(rows, c).copied = c.copied /\ AfterWrite(rows, c).listed = c.listed
           /\ AfterWrite(rows, c).default = c.default /\ AfterWrite(rows, c).priority = c.priority
           /\ AfterWrite(rows, c).reordered = c.reordered
BY DEF AfterWrite, CallRecord

LEMMA WriteType ==
    ASSUME Ordered, NEW r \in Calls, Order!WriteEnv(r)
    PROVE  Ordered'
<1> DEFINE old == call[r]
<1>1. old \in CallRecord /\ Bound(Len(strat), old) /\ old.pc = "write" /\ strat' = strat
  BY WriteCases DEF Ordered
<1>2. CASE call' = [call EXCEPT ![r] = Order!Idle]
  BY <1>1, <1>2, IdleCall, CallMoves
<1>3. CASE /\ \A i \in Order!ToSet(old.listed) : strat[i] # Deleted
           /\ call' = [call EXCEPT ![r] = AfterWrite(strat, old)]
  <2> DEFINE n == AfterWrite(strat, old)
  <2> HIDE DEF old
  <2>1. n \in CallRecord /\ n.pc \in {"read", "commit"}
        /\ DOMAIN WrittenBy(strat, old) = Order!ToSet(old.listed) \cup DOMAIN old.mine
    BY <1>1, <1>3, AfterWriteType
  <2>2. /\ n.mine = WrittenBy(strat, old) /\ n.row = old.row /\ n.target = old.target
        /\ n.copied = old.copied /\ n.listed = old.listed
    BY <1>1, AfterWriteFields
  <2>3. call' = [call EXCEPT ![r] = n]
    BY <1>3
  <2> HIDE DEF n
  <2>4. Bound(Len(strat), n)
    BY <1>1, <2>1, <2>2 DEF Bound
  <2> QED BY <1>1, <2>1, <2>3, <2>4, CallMoves
<1> QED BY <1>2, <1>3, WriteCases

\* Rows change or strategies are added; what the calls hold stays in bounds.
LEMMA RowsMove ==
    ASSUME Ordered, strat' \in Seq(Order!Row \cup {Deleted}), Len(strat') <= MaxStrategies,
           Len(strat) <= Len(strat'), call' \in [Calls -> CallRecord],
           \A q \in Calls : \/ call'[q] = Order!Idle
                            \/ Bound(Len(strat), call'[q])
    PROVE  Ordered'
<1>1. Len(strat) \in Nat /\ Len(strat') \in Nat
  BY StrategiesType
<1>2. 1..Len(strat) \subseteq 1..Len(strat')
  BY <1>1
<1>3. \A c : Bound(Len(strat), c) => Bound(Len(strat'), c)
  BY <1>2 DEF Bound
<1> QED BY <1>3, IdleCall DEF Ordered

\* What the call saw, and the strategies it created after that.
LEMMA CommitType ==
    ASSUME Ordered, NEW r \in Calls, Order!Commit(r)
    PROVE  /\ Ordered'
           /\ \A i \in DOMAIN strat : strat'[i] = Order!View(r)[i]
           /\ \A i \in DOMAIN strat' \ DOMAIN strat :
                i - Len(strat) \in DOMAIN call[r].new /\ strat'[i] = call[r].new[i - Len(strat)]
           /\ DOMAIN strat \subseteq DOMAIN strat'
<1> DEFINE rows == Order!View(r)
           new == call[r].new
<1>1. strat' = rows \o new /\ call' = [call EXCEPT ![r] = Order!Idle]
      /\ Len(strat) + Len(new) <= MaxStrategies
  BY DEF Order!Commit
<1>2. rows \in Seq(Order!Row \cup {Deleted}) /\ Len(rows) = Len(strat) /\ Len(strat) \in Nat
  <2>1. DOMAIN rows = 1..Len(strat) /\ \A i \in 1..Len(strat) : rows[i] \in Order!Row \cup {Deleted}
    BY InEnvIsFinite, StrategiesType
  <2>2. rows = [i \in 1..Len(strat) |-> rows[i]]
    BY StrategiesType DEF Order!View
  <2>3. Len(strat) \in Nat
    BY StrategiesType
  <2> HIDE DEF rows
  <2>4. rows \in [1..Len(strat) -> Order!Row \cup {Deleted}]
    BY <2>1, <2>2
  <2> QED BY <2>3, <2>4
<1>3. new \in Seq(Order!Row) /\ new \in Seq(Order!Row \cup {Deleted}) /\ Len(new) \in Nat
  <2>1. new \in Seq(Order!Row)
    BY CallFields DEF Ordered
  <2> QED BY <2>1, SeqMonotonic
<1> HIDE DEF rows, new
<1>4. /\ strat' \in Seq(Order!Row \cup {Deleted}) /\ Len(strat') = Len(strat) + Len(new)
      /\ DOMAIN strat' = 1..Len(strat')
      /\ \A i \in 1..Len(strat) : strat'[i] = rows[i]
      /\ \A i \in 1..Len(strat') : i > Len(strat) => strat'[i] = new[i - Len(strat)]
  <2>1. /\ rows \o new \in Seq(Order!Row \cup {Deleted}) /\ Len(rows \o new) = Len(rows) + Len(new)
        /\ \A i \in 1..Len(rows) + Len(new) :
             (rows \o new)[i] = IF i <= Len(rows) THEN rows[i] ELSE new[i - Len(rows)]
    BY <1>2, <1>3, ConcatProperties
  <2>2. DOMAIN strat' = 1..Len(strat')
    BY <1>1, <2>1, LenProperties
  <2> QED BY <1>1, <1>2, <1>3, <2>1, <2>2
<1>5. call' \in [Calls -> CallRecord] /\ \A q \in Calls : call'[q] = IF q = r THEN Order!Idle ELSE call[q]
  BY <1>1, IdleCall DEF Ordered
<1>6. Ordered'
  BY <1>1, <1>2, <1>3, <1>4, <1>5, RowsMove DEF Ordered
<1>7. DOMAIN strat = 1..Len(strat)
  BY StrategiesType
<1>8. \A i \in DOMAIN strat' \ DOMAIN strat : i - Len(strat) \in DOMAIN new /\ i > Len(strat)
  BY <1>2, <1>3, <1>4, <1>7
<1> QED BY <1>2, <1>3, <1>4, <1>6, <1>7, <1>8 DEF rows, new

\* One strategy less.
LEMMA DeleteType ==
    ASSUME Ordered, NEW i \in DOMAIN strat, Order!DeleteStrategy(i)
    PROVE  /\ Ordered' /\ call' = call /\ DOMAIN strat' = DOMAIN strat
           /\ \A j \in DOMAIN strat : strat'[j] = IF j = i THEN Deleted ELSE strat[j]
<1>1. strat' = [strat EXCEPT ![i] = Deleted] /\ call' = call
  BY DEF Order!DeleteStrategy
<1>2. strat \in Seq(Order!Row \cup {Deleted}) /\ DOMAIN strat = 1..Len(strat)
  BY StrategiesType DEF Ordered
<1>3. strat' \in Seq(Order!Row \cup {Deleted}) /\ Len(strat') = Len(strat)
  BY <1>1, <1>2, ExceptSeq
<1>4. Ordered'
  BY <1>1, <1>3, StrategiesType, RowsMove DEF Ordered
<1> QED BY <1>1, <1>2, <1>3, <1>4

\* A call under way knows of it.
LEMMA ReorderType ==
    ASSUME Ordered, NEW ids \in Order!SetToAllKPermutations(Order!Live(strat)),
           Order!ReorderStrategies(ids)
    PROVE  /\ Ordered'
           /\ \A q \in Calls : call'[q].pc = "idle" \/ call'[q].reordered
<1> DEFINE there == Order!Live(strat)
<1>1. PICK some \in SUBSET there : ids \in Order!SetToSeqs(some)
  BY DEF Order!SetToAllKPermutations
<1>2. there \subseteq 1..Len(strat) /\ \A i \in there : strat[i] \in Order!Row
  BY StrategiesType DEF Order!Live
<1>3. IsFiniteSet(some)
  <2>1. IsFiniteSet(1..Len(strat)) /\ some \subseteq 1..Len(strat)
    BY <1>2, StrategiesType, FS_Interval
  <2> QED BY <2>1, FS_Subset
<1>4. DOMAIN ids = 1..Len(ids) /\ Len(ids) \in Nat /\ Order!ToSet(ids) = some
  BY <1>1, <1>3, Enumeration
<1> DEFINE p(i) == CHOOSE n \in DOMAIN ids : ids[n] = i
<1>5. strat' = [i \in DOMAIN strat |->
                  IF i \in Order!ToSet(ids) THEN [strat[i] EXCEPT !.priority = Len(ids) + 1 - p(i)]
                  ELSE strat[i]]
  BY DEF Order!ReorderStrategies
<1>6. \A i \in some : Len(ids) + 1 - p(i) \in Nat
  <2> SUFFICES ASSUME NEW i \in some PROVE Len(ids) + 1 - p(i) \in Nat
    OBVIOUS
  <2>1. p(i) \in DOMAIN ids
    BY <1>4, Place
  <2> HIDE DEF p
  <2> QED BY <1>4, <2>1
<1> HIDE DEF p
<1>7. ASSUME NEW i \in DOMAIN strat PROVE strat'[i] \in Order!Row \cup {Deleted}
  <2>1. CASE i \in some
    <3>1. strat[i] \in Order!Row /\ Len(ids) + 1 - p(i) \in Nat
      BY <1>2, <1>6, <2>1
    <3>2. strat'[i] = [strat[i] EXCEPT !.priority = Len(ids) + 1 - p(i)]
      BY <1>4, <1>5, <2>1
    <3> QED BY <3>1, <3>2 DEF Order!Row
  <2>2. CASE i \notin some
    BY <1>4, <1>5, <2>2, StrategiesType
  <2> QED BY <2>1, <2>2
<1>8. strat' \in Seq(Order!Row \cup {Deleted}) /\ Len(strat') = Len(strat)
  <2>1. DOMAIN strat = 1..Len(strat) /\ Len(strat) \in Nat
    BY StrategiesType
  <2>2. strat' \in [1..Len(strat) -> Order!Row \cup {Deleted}]
    BY <1>5, <1>7, <2>1
  <2> QED BY <2>1, <2>2
<1>9. \A q \in Calls : call'[q] = IF call[q].pc = "idle" THEN Order!Idle ELSE [call[q] EXCEPT !.reordered = TRUE]
  BY DEF Order!ReorderStrategies
<1>10. ASSUME NEW c \in CallRecord, NEW n, Bound(n, c)
       PROVE  /\ [c EXCEPT !.reordered = TRUE] \in CallRecord
              /\ Bound(n, [c EXCEPT !.reordered = TRUE])
              /\ [c EXCEPT !.reordered = TRUE].reordered
  <2> DEFINE z == [c EXCEPT !.reordered = TRUE]
  <2>1. z \in CallRecord /\ z.reordered = TRUE
    BY DEF CallRecord
  <2>2. z.pc = c.pc /\ z.row = c.row /\ z.target = c.target /\ z.copied = c.copied /\ z.env = c.env
        /\ z.todo = c.todo /\ z.mine = c.mine /\ z.listed = c.listed
    BY DEF CallRecord
  <2> HIDE DEF z
  <2>3. Bound(n, z)
    BY <1>10, <2>2 DEF Bound
  <2> QED BY <2>1, <2>3 DEF z
<1>11. \A q \in Calls : call'[q] \in CallRecord /\ (call'[q] = Order!Idle \/ Bound(Len(strat), call'[q]))
                        /\ (call'[q].pc = "idle" \/ call'[q].reordered)
  <2> SUFFICES ASSUME NEW q \in Calls
               PROVE  call'[q] \in CallRecord /\ (call'[q] = Order!Idle \/ Bound(Len(strat), call'[q]))
                      /\ (call'[q].pc = "idle" \/ call'[q].reordered)
    OBVIOUS
  <2> DEFINE c == call[q]
  <2>1. c \in CallRecord /\ Bound(Len(strat), c)
    BY DEF Ordered
  <2>2. CASE c.pc = "idle"
    BY <1>9, <2>2, IdleCall
  <2>3. CASE c.pc # "idle"
    <3>1. call'[q] = [c EXCEPT !.reordered = TRUE]
      BY <1>9, <2>3
    <3> HIDE DEF c
    <3> QED BY <1>10, <2>1, <3>1
  <2> QED BY <2>2, <2>3
<1>12. call' \in [Calls -> CallRecord]
  <2>1. call' = [q \in Calls |-> call'[q]]
    BY DEF Order!ReorderStrategies
  <2> QED BY <1>11, <2>1
<1> QED BY <1>8, <1>11, <1>12, StrategiesType, RowsMove DEF Ordered

\* No strategies exist.
LEMMA OrderedInit ==
    Order!Init => Ordered
<1> SUFFICES ASSUME Order!Init PROVE Ordered
  OBVIOUS
<1>1. strat = <<>> /\ call = [r \in Calls |-> Order!Idle]
  BY DEF Order!Init
<1>2. strat \in Seq(Order!Row \cup {Deleted}) /\ Len(strat) = 0 /\ 0 <= MaxStrategies
  BY <1>1, OrderAssumption DEF Order!OrderAssumption
<1> QED BY <1>1, <1>2, IdleCall DEF Ordered

\* Every step keeps the types.
LEMMA OrderedStep ==
    ASSUME Ordered, Order!Next \/ UNCHANGED orderVars
    PROVE  Ordered'
<1>1. CASE UNCHANGED orderVars
  <2>1. strat' = strat /\ call' = call
    BY <1>1 DEF orderVars
  <2> QED BY <2>1 DEF Ordered
<1>2. ASSUME NEW r \in Calls, Order!CreateStrategy(r) PROVE Ordered'
  BY <1>2, CreateType
<1>3. ASSUME NEW r \in Calls, Order!UpdateStrategy(r) PROVE Ordered'
  BY <1>3, UpdateType
<1>4. ASSUME NEW r \in Calls, Order!CheckDefault(r) PROVE Ordered'
  BY <1>4, CheckDefaultType
<1>5. ASSUME NEW r \in Calls, Order!MoveStrategy(r) PROVE Ordered'
  BY <1>5, MoveType
<1>6. ASSUME NEW r \in Calls, NEW e \in Places, Order!ReadEnv(r, e) PROVE Ordered'
  BY <1>6, ReadEnvType
<1>7. ASSUME NEW r \in Calls, Order!WriteEnv(r) PROVE Ordered'
  BY <1>7, WriteType
<1>8. ASSUME NEW r \in Calls, Order!Commit(r) PROVE Ordered'
  BY <1>8, CommitType
<1>9. ASSUME NEW r \in Calls, Order!Fails(r) PROVE Ordered'
  BY <1>9, IdleCall, CallMoves DEF Order!Fails
<1>10. ASSUME NEW i \in DOMAIN strat, Order!DeleteStrategy(i) PROVE Ordered'
  BY <1>10, DeleteType
<1>11. ASSUME NEW ids \in Order!SetToAllKPermutations(Order!Live(strat)),
              Order!ReorderStrategies(ids) PROVE Ordered'
  BY <1>11, ReorderType
<1> QED BY <1>1, <1>2, <1>3, <1>4, <1>5, <1>6, <1>7, <1>8, <1>9, <1>10, <1>11 DEF Order!Next

\* They are those the runs check.
LEMMA OrderedTypes ==
    Ordered => OrderTypeOK
<1> SUFFICES ASSUME Ordered PROVE Order!TypeOK
  BY DEF OrderTypeOK
<1>1. Len(strat) <= MaxStrategies /\ \A i \in DOMAIN strat : strat[i] \in Order!Row \cup {Deleted}
  BY StrategiesType DEF Ordered
<1>2. ASSUME NEW r \in Calls
      PROVE  /\ call[r].pc \in {"idle", "check", "move", "read", "write", "commit"}
             /\ call[r].todo \subseteq Places
             /\ call[r].pc = "write" => call[r].env \in call[r].todo
             /\ \A i \in DOMAIN call[r].mine : i \in DOMAIN strat /\ call[r].mine[i] \in Order!Row
             /\ \A i \in DOMAIN call[r].new : call[r].new[i] \in Order!Row
  <2> DEFINE c == call[r]
  <2>1. c \in CallRecord /\ Bound(Len(strat), c)
    BY DEF Ordered
  <2> HIDE DEF c
  <2>2. \A i \in DOMAIN c.mine : i \in DOMAIN strat /\ c.mine[i] \in Order!Row
    BY <2>1, CallFields, StrategiesType DEF Bound
  <2>3. \A i \in DOMAIN c.new : c.new[i] \in Order!Row
    <3>1. c.new \in Seq(Order!Row)
      BY <2>1, CallFields
    <3> QED BY <3>1
  <2>4. c.pc \in {"idle", "check", "move", "read", "write", "commit"} /\ c.todo \subseteq Places
    BY <2>1 DEF CallRecord
  <2>5. c.pc = "write" => c.env \in c.todo
    BY <2>1 DEF Bound
  <2> QED BY <2>2, <2>3, <2>4, <2>5 DEF c
<1> QED BY <1>1, <1>2 DEF Order!TypeOK

\* For any number of calls of createStrategy and updateStrategy that overlap, and of
\* deletions and reorderings between their steps: what a call renumbered and is about
\* to create are strategies and rows, whatever has happened since it read them.
THEOREM OrderTypeCorrect == OrderSpec => []OrderTypeOK
<1>1. MCInit => Ordered
  BY OrderedInit DEF MCInit
<1>2. Ordered /\ [OrderNext]_<<vars, weightVars, orderVars>> => Ordered'
  BY OrderedStep DEF OrderNext
<1> QED BY <1>1, <1>2, OrderedTypes, PTL DEF OrderSpec

-----------------------------------------------------------------------------
(* A call that creates a strategy, and no other.                           *)

\* Nothing is changed or created yet.
LEMMA FreshIsTidy ==
    ASSUME Ordered, NEW c, c.default \in BOOLEAN, c.copied = c.default, c.default => c.priority = 0,
           c.mine = <<>>, c.new = <<>>, c.pc # "write"
    PROVE  Tidy(strat, c)
<1>1. DOMAIN c.mine = {} /\ DOMAIN c.new = {}
  OBVIOUS
<1>2. \A i \in DOMAIN strat : ViewOf(strat, c.mine)[i] = strat[i]
  BY <1>1 DEF ViewOf
<1>3. OrderKept(strat, c)
  BY <1>2, StrategiesType DEF OrderKept
<1>4. RenumberedThere(strat, c) /\ NewApart(c) /\ NewInPlace(strat, c) /\ ReadHolds(strat, c)
  BY <1>1 DEF RenumberedThere, NewApart, NewInPlace, ReadHolds
<1> QED BY <1>1, <1>3, <1>4 DEF Tidy

\* A call goes on with what it has; it has read nothing that must hold.
LEMMA GoesOnTidy ==
    ASSUME NEW rows, NEW c, NEW n, Tidy(rows, c), n.pc # "write", n.default = c.default,
           n.copied = c.copied, n.priority = c.priority, n.todo = c.todo, n.mine = c.mine, n.new = c.new
    PROVE  Tidy(rows, n)
BY DEF Tidy, RenumberedThere, OrderKept, NewApart, NewInPlace, ReadHolds

\* The only call takes a step of its own.
LEMMA OnlyCall ==
    ASSUME OneCall, AllTidy, NEW r \in Calls, Ordered', NEW c,
           call' = [call EXCEPT ![r] = c], Creating(c) => Tidy(strat', c)
    PROVE  AllTidy'
<1>1. \A q \in Calls : q = r /\ call'[q] = c
  BY DEF OneCall, AllTidy, Ordered
<1> QED BY <1>1 DEF AllTidy

\* One for each action.
LEMMA CreateTidy ==
    ASSUME OneCall, AllTidy, NEW r \in Calls, Order!CreateStrategy(r)
    PROVE  AllTidy'
<1>1. PICK es \in SUBSET Places \ {{}}, default \in BOOLEAN, given \in GivenPriorities \cup {None} :
        call' = [call EXCEPT ![r] =
                  Asked(IF default THEN "check" ELSE "read", es, 0, None, default,
                        IF default THEN 0 ELSE given, default, es)]
  BY CreateCases
<1> DEFINE c == Asked(IF default THEN "check" ELSE "read", es, 0, None, default,
                      IF default THEN 0 ELSE given, default, es)
<1>2. c.default = default /\ c.copied = default /\ (default => c.priority = 0) /\ c.mine = <<>>
      /\ c.new = <<>> /\ c.pc # "write"
  BY DEF Asked
<1>3. strat' = strat /\ Ordered /\ Ordered'
  BY CreateCases, CreateType DEF AllTidy
<1>4. call' = [call EXCEPT ![r] = c]
  BY <1>1
<1> HIDE DEF c
<1>5. Tidy(strat, c)
  BY <1>2, <1>3, FreshIsTidy
<1> QED BY <1>3, <1>4, <1>5, OnlyCall

LEMMA CheckTidy ==
    ASSUME OneCall, AllTidy, NEW r \in Calls, Order!CheckDefault(r)
    PROVE  AllTidy'
<1> DEFINE old == call[r]
           pc == IF old.row = 0 THEN "read" ELSE "move"
           n == [old EXCEPT !.pc = pc]
           c == IF Order!OtherDefaults(r) # {} THEN Order!Idle ELSE n
<1>1. old \in CallRecord /\ old.pc = "check" /\ (Creating(old) => Tidy(strat, old)) /\ Ordered
  BY DEF AllTidy, Ordered, Order!CheckDefault
<1>2. call' = [call EXCEPT ![r] = c] /\ strat' = strat
  BY DEF Order!CheckDefault
<1>3. Ordered'
  BY <1>1, CheckDefaultType
<1> HIDE DEF old
<1>4. pc \in {"read", "move"}
  OBVIOUS
<1> HIDE DEF pc
<1>5. n.pc = pc /\ n.row = old.row /\ n.reordered = old.reordered /\ n.default = old.default
      /\ n.copied = old.copied /\ n.priority = old.priority /\ n.todo = old.todo
      /\ n.mine = old.mine /\ n.new = old.new
  BY <1>1 DEF CallRecord
<1> HIDE DEF n
<1>6. Creating(n) => Tidy(strat, n)
  BY <1>1, <1>4, <1>5, GoesOnTidy DEF Creating
<1>7. Creating(c) => Tidy(strat', c)
  BY <1>2, <1>6, IdleCall DEF Creating
<1> HIDE DEF c
<1> QED BY <1>2, <1>3, <1>7, OnlyCall

LEMMA MoveTidy ==
    ASSUME OneCall, AllTidy, NEW r \in Calls, Order!MoveStrategy(r)
    PROVE  AllTidy'
<1>1. Ordered /\ Ordered' /\ call[r] \in CallRecord /\ call[r].row # 0 /\ strat' = strat
  BY MoveType DEF AllTidy, Ordered, Bound, Order!MoveStrategy
<1>2. call'[r] = Order!Idle \/ call'[r].row = call[r].row
  <2> DEFINE old == call[r]
             z(pc, mine) == [old EXCEPT !.pc = pc, !.mine = mine]
  <2>1. \A pc, mine : z(pc, mine).row = old.row
    <3> HIDE DEF old
    <3> QED BY <1>1 DEF CallRecord
  <2>2. call'[r] = Order!Idle \/ \E pc, mine : call'[r] = z(pc, mine)
    BY <1>1 DEF Order!MoveStrategy, Ordered
  <2> HIDE DEF z
  <2> QED BY <2>1, <2>2
<1>3. ~ Creating(call'[r])
  BY <1>1, <1>2, IdleCall DEF Creating
<1>4. \A q \in Calls : q = r
  BY DEF OneCall
<1> QED BY <1>1, <1>3, <1>4 DEF AllTidy

\* In an environment it has not reached the call sees the rows as they are.
LEMMA UnreachedRows ==
    ASSUME Ordered, NEW r \in Calls, RenumberedThere(strat, call[r]), NEW e \in call[r].todo
    PROVE  /\ Order!InEnv(Order!View(r), e) = Order!InEnv(strat, e)
           /\ \A i \in Order!InEnv(strat, e) : Order!View(r)[i] = strat[i]
<1> DEFINE c == call[r]
<1>1. \A i \in DOMAIN c.mine : i \in DOMAIN strat /\ strat[i].env # e /\ c.mine[i].env # e
  BY DEF RenumberedThere, Order!Live
<1>2. \A i \in DOMAIN strat : Order!View(r)[i] = IF i \in DOMAIN c.mine THEN c.mine[i] ELSE strat[i]
  BY DEF Order!View
<1>3. DOMAIN Order!View(r) = DOMAIN strat
  BY DEF Order!View
<1> HIDE DEF c
<1>4. \A i \in DOMAIN c.mine : c.mine[i] # Deleted
  BY CallFields, OrderConstants DEF Ordered, c
<1> QED BY <1>1, <1>2, <1>3, <1>4 DEF Order!InEnv, Order!Live

LEMMA ReadTidy ==
    ASSUME OneCall, AllTidy, NEW r \in Calls, NEW e \in Places, Order!ReadEnv(r, e)
    PROVE  AllTidy'
<1> DEFINE old == call[r]
           rows == Order!View(r)
           S == Order!InEnv(strat, e)
           next == Order!HighestPriority(rows, S) + 1
<1>1. old \in CallRecord /\ old.pc = "read" /\ e \in old.todo /\ (Creating(old) => Tidy(strat, old))
      /\ Ordered /\ Ordered'
  BY ReadEnvType DEF AllTidy, Ordered, Order!ReadEnv
<1>2. PICK s \in (IF Order!Renumbers(old)
                  THEN Order!ExistingStrategies(rows, Order!InEnv(rows, e)) ELSE {<<>>}) :
        /\ call' = [call EXCEPT ![r] = [old EXCEPT !.pc = "write", !.env = e, !.listed = s,
                                        !.next = Order!HighestPriority(rows, Order!InEnv(rows, e)) + 1]]
        /\ strat' = strat
  BY DEF Order!ReadEnv
<1> DEFINE z(p) == [old EXCEPT !.pc = "write", !.env = e, !.listed = s, !.next = p]
           n == z(Order!HighestPriority(rows, Order!InEnv(rows, e)) + 1)
<1>3. \A p : /\ z(p).pc = "write" /\ z(p).env = e /\ z(p).listed = s /\ z(p).next = p /\ z(p).row = old.row
             /\ z(p).reordered = old.reordered /\ z(p).default = old.default /\ z(p).copied = old.copied
             /\ z(p).priority = old.priority /\ z(p).todo = old.todo /\ z(p).mine = old.mine
             /\ z(p).new = old.new
  <2> HIDE DEF old
  <2> QED BY <1>1 DEF CallRecord
<1>4. call' = [call EXCEPT ![r] = n]
  BY <1>2
<1> HIDE DEF z
<1>5. ASSUME Creating(n) PROVE Tidy(strat, n)
  <2>1. Creating(old) /\ old.row = 0
    BY <1>1, <1>3, <1>5 DEF Creating
  <2>2. Tidy(strat, old)
    BY <1>1, <2>1
  <2>3. Order!InEnv(rows, e) = S /\ \A i \in S : rows[i] = strat[i]
    BY <1>1, <2>2, UnreachedRows DEF Tidy
  <2>4. n.next = next
    BY <1>3, <2>3
  <2>5. IsFiniteSet(S) /\ \A i \in S : rows[i].priority \in Nat
    BY <1>1, <2>3, InEnvIsFinite
  <2>6. \A i \in S : rows[i].priority < next
    BY <2>5, NextPriority
  <2> HIDE DEF next, rows
  <2>7. ASSUME old.default PROVE ReadHolds(strat, n)
    <3>1. s \in Order!ExistingStrategies(rows, S)
      BY <1>2, <2>1, <2>3, <2>7 DEF Order!Renumbers
    <3>2. /\ s \in Order!SetToSeqs(S)
          /\ \A i, j \in DOMAIN s : i < j => rows[s[i]].priority <= rows[s[j]].priority
      BY <3>1 DEF Order!ExistingStrategies, Order!Ascending
    <3>3. Order!ToSet(s) = S /\ \A i, j \in DOMAIN s : s[i] = s[j] => i = j
      BY <2>5, <3>2, Enumeration
    <3>4. \A i \in DOMAIN s : s[i] \in S
      BY <3>3 DEF Order!ToSet
    <3>5. \A i \in S : strat[i].env = e
      BY DEF Order!InEnv
    <3> HIDE DEF n, S
    <3>6. \A i, j \in DOMAIN s : i < j => strat[s[i]].priority <= strat[s[j]].priority
      BY <2>3, <3>2, <3>4
    <3>7. n.pc = "write" /\ n.env = e /\ n.listed = s /\ n.default = old.default
      BY <1>3 DEF n
    <3> QED BY <2>7, <3>3, <3>5, <3>6, <3>7 DEF ReadHolds, S
  <2>8. ASSUME ~ old.default PROVE ReadHolds(strat, n)
    <3>1. s = <<>>
      BY <1>2, <2>1, <2>2, <2>8 DEF Order!Renumbers, Tidy
    <3>2. \A i \in S : strat[i].priority < next
      BY <2>3, <2>6
    <3> HIDE DEF n
    <3>3. n.pc = "write" /\ n.env = e /\ n.listed = s /\ n.default = old.default
      BY <1>3 DEF n
    <3> QED BY <2>4, <2>8, <3>1, <3>2, <3>3 DEF ReadHolds
  <2> HIDE DEF n
  <2>9. n.default = old.default /\ n.copied = old.copied
             /\ n.priority = old.priority /\ n.todo = old.todo /\ n.mine = old.mine /\ n.new = old.new
    BY <1>3 DEF n
  <2> QED BY <2>2, <2>7, <2>8, <2>9 DEF Tidy, RenumberedThere, OrderKept, NewApart, NewInPlace
<1> HIDE DEF n
<1> QED BY <1>1, <1>2, <1>4, <1>5, OnlyCall

\* The call sees the rows it has just listed as it wrote them, the others as before.
LEMMA WrittenRows ==
    ASSUME NEW rows, NEW c, NEW i \in DOMAIN rows
    PROVE  ViewOf(rows, WrittenBy(rows, c))[i] =
             IF i \in Order!ToSet(c.listed) THEN WrittenBy(rows, c)[i] ELSE ViewOf(rows, c.mine)[i]
BY DEF ViewOf, WrittenBy

\* The strategies it creates are those it had and the new one.
LEMMA NewRow ==
    ASSUME NEW c \in CallRecord, NEW x \in Order!Row, NEW k \in DOMAIN Append(c.new, x)
    PROVE  \/ k \in DOMAIN c.new /\ Append(c.new, x)[k] = c.new[k]
           \/ k = Len(c.new) + 1 /\ k \notin DOMAIN c.new /\ Append(c.new, x)[k] = x
<1>1. c.new \in Seq(Order!Row)
  BY CallFields
<1> DEFINE s == c.new
<1> HIDE DEF s
<1>2. s \in Seq(Order!Row) /\ k \in DOMAIN Append(s, x)
  BY <1>1 DEF s
<1>3. DOMAIN s = 1..Len(s) /\ Len(s) \in Nat /\ DOMAIN Append(s, x) = 1..Len(s) + 1
  BY <1>2
<1>4. \A l \in 1..Len(s) : Append(s, x)[l] = s[l]
  BY <1>2
<1>5. Append(s, x)[Len(s) + 1] = x
  BY <1>2
<1>6. k \in 1..Len(s) \/ (k = Len(s) + 1 /\ k \notin 1..Len(s))
  BY <1>2, <1>3
<1> QED BY <1>3, <1>4, <1>5, <1>6 DEF s

\* One row more, in an environment of its own.
LEMMA StillApart ==
    ASSUME NEW s, NEW t, NEW x, NEW last,
           \A p \in DOMAIN t : (p \in DOMAIN s /\ t[p] = s[p]) \/ (p = last /\ p \notin DOMAIN s /\ t[p] = x),
           \A p \in DOMAIN s : s[p].env # x.env,
           \A p, q \in DOMAIN s : s[p].env = s[q].env => p = q,
           NEW k \in DOMAIN t, NEW l \in DOMAIN t, t[k].env = t[l].env
    PROVE  k = l
OBVIOUS

\* A default strategy: those listed get priorities above its own, in their order.
LEMMA WriteDefaultTidy ==
    ASSUME Ordered, NEW c \in CallRecord, Bound(Len(strat), c), c.pc = "write", c.default,
           Tidy(strat, c), \A i \in Order!ToSet(c.listed) : strat[i] # Deleted
    PROVE  Tidy(strat, AfterWrite(strat, c))
<1> DEFINE n == AfterWrite(strat, c)
           L == Order!ToSet(c.listed)
           m == WrittenBy(strat, c)
           x == CreatedBy(c)
<1>1. /\ n.pc \in {"read", "commit"} /\ DOMAIN m = L \cup DOMAIN c.mine /\ x \in Order!Row
      /\ \A i \in L : /\ i \in Order!Live(strat) /\ m[i] \in Order!Row /\ m[i].env = strat[i].env
                      /\ m[i].priority \in DOMAIN c.listed /\ c.listed[m[i].priority] = i
  BY AfterWriteType
<1>2. /\ n.todo = c.todo \ {c.env} /\ n.mine = m /\ n.new = Append(c.new, x)
      /\ n.default = c.default /\ n.copied = c.copied /\ n.priority = c.priority
  <2>1. /\ n.todo = c.todo \ {c.env} /\ n.mine = m /\ n.new = Append(c.new, x)
    BY AfterWriteFields
  <2>2. n.default = c.default /\ n.copied = c.copied /\ n.priority = c.priority
    BY AfterWriteFields
  <2> QED BY <2>1, <2>2
<1>3. \A i \in DOMAIN strat : ViewOf(strat, m)[i] = IF i \in L THEN m[i] ELSE ViewOf(strat, c.mine)[i]
  BY WrittenRows
<1>4. \A i \in DOMAIN m : i \notin L => m[i] = c.mine[i]
  BY DEF WrittenBy
<1>5. x.env = c.env /\ x.default = c.copied /\ x.priority = 0
  <2>1. c.priority = 0 /\ c.priority # None
    BY OrderConstants DEF Tidy
  <2> QED BY <2>1 DEF CreatedBy, Order!OrElse
<1>6. \A k \in DOMAIN n.new : \/ k \in DOMAIN c.new /\ n.new[k] = c.new[k]
                              \/ k = Len(c.new) + 1 /\ k \notin DOMAIN c.new /\ n.new[k] = x
  BY <1>1, <1>2, NewRow
<1>7. \A i \in Order!Live(strat) : i \in DOMAIN strat /\ (i \in L <=> strat[i].env = c.env)
  BY DEF Tidy, ReadHolds, Order!InEnv, Order!Live
<1>8. DOMAIN c.listed \subseteq Nat \ {0} /\ c.env \in c.todo
  <2>1. c.listed \in Seq(Nat)
    BY CallFields
  <2> QED BY <2>1 DEF Bound
<1>9. \A i, j \in L : strat[i].priority < strat[j].priority => m[i].priority < m[j].priority
  <2> SUFFICES ASSUME NEW i \in L, NEW j \in L, strat[i].priority < strat[j].priority,
                      ~ (m[i].priority < m[j].priority)
               PROVE  FALSE
    OBVIOUS
  <2>1. i \in Order!Live(strat) /\ j \in Order!Live(strat) /\ strat[i].priority \in Nat /\ strat[j].priority \in Nat
    BY <1>1, StrategiesType, RowFields
  <2> DEFINE a == m[i].priority
             b == m[j].priority
  <2>2. a \in DOMAIN c.listed /\ b \in DOMAIN c.listed /\ c.listed[a] = i /\ c.listed[b] = j
    BY <1>1
  <2>3. a \in Nat /\ b \in Nat /\ (b < a \/ a = b)
    BY <1>8, <2>2
  <2> HIDE DEF a, b
  <2>4. b < a => strat[c.listed[b]].priority <= strat[c.listed[a]].priority
    BY <2>1, <2>2 DEF Tidy, ReadHolds
  <2> QED BY <2>1, <2>2, <2>3, <2>4
<1>10. \A i \in L : m[i].priority >= 1 /\ m[i].env = c.env
  BY <1>1, <1>7, <1>8
<1> HIDE DEF n, L, m, x
<1>11. RenumberedThere(strat, n)
  <2> SUFFICES ASSUME NEW i \in DOMAIN m
               PROVE  /\ i \in Order!Live(strat) /\ m[i].env = strat[i].env
                      /\ m[i].env \notin c.todo \ {c.env} /\ m[i].priority >= 1
    BY <1>2 DEF RenumberedThere
  <2>1. CASE i \in L
    BY <1>1, <1>10, <2>1
  <2>2. CASE i \notin L
    <3>1. i \in DOMAIN c.mine /\ m[i] = c.mine[i]
      BY <1>1, <1>4, <2>2
    <3> QED BY <3>1 DEF Tidy, RenumberedThere
  <2> QED BY <2>1, <2>2
<1>12. OrderKept(strat, n)
  <2> SUFFICES ASSUME NEW i \in Order!Live(strat), NEW j \in Order!Live(strat),
                      strat[i].env = strat[j].env, strat[i].priority < strat[j].priority
               PROVE  ViewOf(strat, m)[i].priority < ViewOf(strat, m)[j].priority
    BY <1>2 DEF OrderKept
  <2>1. CASE strat[i].env = c.env
    BY <1>3, <1>7, <1>9, <2>1
  <2>2. CASE strat[i].env # c.env
    <3>1. ViewOf(strat, c.mine)[i].priority < ViewOf(strat, c.mine)[j].priority
      BY DEF Tidy, OrderKept
    <3> QED BY <1>3, <1>7, <2>2, <3>1
  <2> QED BY <2>1, <2>2
<1>13. NewApart(n)
  <2>1. \A k, l \in DOMAIN c.new : /\ c.new[k].env \notin c.todo /\ c.new[k].default = c.default
                                   /\ c.new[k].env = c.new[l].env => k = l
    BY DEF Tidy, NewApart
  <2>2. x.default = c.default
    BY <1>5 DEF Tidy
  <2>3. ASSUME NEW k \in DOMAIN n.new
        PROVE  n.new[k].env \notin n.todo /\ n.new[k].default = n.default
    BY <1>2, <1>5, <1>6, <2>1, <2>2
  <2>4. ASSUME NEW k \in DOMAIN n.new, NEW l \in DOMAIN n.new, n.new[k].env = n.new[l].env
        PROVE  k = l
    <3>1. \A p \in DOMAIN c.new : c.new[p].env # x.env
      BY <1>5, <1>8, <2>1
    <3>2. \A p, q \in DOMAIN c.new : c.new[p].env = c.new[q].env => p = q
      BY <2>1
    <3> QED BY <1>6, <2>4, <3>1, <3>2, StillApart
  <2> QED BY <2>3, <2>4 DEF NewApart
<1>14. NewInPlace(strat, n)
  <2> SUFFICES ASSUME NEW k \in DOMAIN n.new, NEW j \in Order!Live(strat), strat[j].env = n.new[k].env
               PROVE  n.new[k].priority < ViewOf(strat, m)[j].priority
    BY <1>2 DEF NewInPlace
  <2>1. CASE k \in DOMAIN c.new /\ n.new[k] = c.new[k]
    <3>1. c.new[k].priority < ViewOf(strat, c.mine)[j].priority
      BY <2>1 DEF Tidy, NewInPlace
    <3>2. strat[j].env # c.env
      BY <1>8, <2>1 DEF Tidy, NewApart
    <3> QED BY <1>3, <1>7, <2>1, <3>1, <3>2
  <2>2. CASE n.new[k] = x
    <3>1. j \in L /\ j \in DOMAIN strat
      BY <1>5, <1>7, <2>2
    <3>2. m[j].priority >= 1 /\ m[j].priority \in Nat
      BY <1>1, <1>10, <3>1, RowFields
    <3> QED BY <1>3, <1>5, <2>2, <3>1, <3>2
  <2> QED BY <1>6, <2>1, <2>2
<1>15. ReadHolds(strat, n)
  BY <1>1 DEF ReadHolds
<1>16. n.default \in BOOLEAN /\ n.copied = n.default /\ (IF n.default THEN n.priority = 0 ELSE DOMAIN n.mine = {})
  BY <1>2 DEF Tidy
<1> QED BY <1>11, <1>12, <1>13, <1>14, <1>15, <1>16 DEF Tidy, n

\* Another strategy: no row changes, and the new one is above those it has read.
LEMMA WriteOtherTidy ==
    ASSUME Ordered, NEW c \in CallRecord, Bound(Len(strat), c), c.pc = "write", ~ c.default,
           Tidy(strat, c), \A i \in Order!ToSet(c.listed) : strat[i] # Deleted
    PROVE  Tidy(strat, AfterWrite(strat, c))
<1> DEFINE n == AfterWrite(strat, c)
           m == WrittenBy(strat, c)
           x == CreatedBy(c)
<1>1. n.pc \in {"read", "commit"} /\ DOMAIN m = Order!ToSet(c.listed) \cup DOMAIN c.mine /\ x \in Order!Row
  BY AfterWriteType
<1>2. /\ n.todo = c.todo \ {c.env} /\ n.mine = m /\ n.new = Append(c.new, x)
      /\ n.default = c.default /\ n.copied = c.copied /\ n.priority = c.priority
  <2>1. /\ n.todo = c.todo \ {c.env} /\ n.mine = m /\ n.new = Append(c.new, x)
    BY AfterWriteFields
  <2>2. n.default = c.default /\ n.copied = c.copied /\ n.priority = c.priority
    BY AfterWriteFields
  <2> QED BY <2>1, <2>2
<1>3. DOMAIN m = {} /\ DOMAIN c.mine = {}
  <2>1. c.listed = <<>> /\ DOMAIN c.mine = {}
    BY DEF Tidy, ReadHolds
  <2>2. Order!ToSet(<<>>) = {}
    BY DEF Order!ToSet
  <2> QED BY <1>1, <2>1, <2>2
<1>4. x.env = c.env /\ x.default = c.copied /\ (c.priority = None => x.priority = c.next)
  BY DEF CreatedBy, Order!OrElse
<1>5. \A k \in DOMAIN n.new : \/ k \in DOMAIN c.new /\ n.new[k] = c.new[k]
                              \/ k = Len(c.new) + 1 /\ k \notin DOMAIN c.new /\ n.new[k] = x
  BY <1>1, <1>2, NewRow
<1>6. c.env \in c.todo
  BY DEF Bound
<1> HIDE DEF n, m, x
<1>7. \A i \in Order!Live(strat) : i \in DOMAIN strat
  BY StrategiesType
<1>8. \A i \in DOMAIN strat : ViewOf(strat, m)[i] = strat[i] /\ ViewOf(strat, c.mine)[i] = strat[i]
  BY <1>3 DEF ViewOf
<1>9. RenumberedThere(strat, n)
  BY <1>2, <1>3 DEF RenumberedThere
<1>10. OrderKept(strat, n)
  BY <1>2, <1>7, <1>8 DEF OrderKept
<1>11. NewApart(n)
  <2>1. \A k, l \in DOMAIN c.new : /\ c.new[k].env \notin c.todo /\ c.new[k].default = c.default
                                   /\ c.new[k].env = c.new[l].env => k = l
    BY DEF Tidy, NewApart
  <2>2. x.default = c.default
    BY <1>4 DEF Tidy
  <2>3. ASSUME NEW k \in DOMAIN n.new
        PROVE  n.new[k].env \notin n.todo /\ n.new[k].default = n.default
    BY <1>2, <1>4, <1>5, <2>1, <2>2
  <2>4. ASSUME NEW k \in DOMAIN n.new, NEW l \in DOMAIN n.new, n.new[k].env = n.new[l].env
        PROVE  k = l
    <3>1. \A p \in DOMAIN c.new : c.new[p].env # x.env
      BY <1>4, <1>6, <2>1
    <3>2. \A p, q \in DOMAIN c.new : c.new[p].env = c.new[q].env => p = q
      BY <2>1
    <3> QED BY <1>5, <2>4, <3>1, <3>2, StillApart
  <2> QED BY <2>3, <2>4 DEF NewApart
<1>12. NewInPlace(strat, n)
  <2> SUFFICES ASSUME c.priority = None,
                      NEW k \in DOMAIN n.new, NEW j \in Order!Live(strat), strat[j].env = n.new[k].env
               PROVE  n.new[k].priority > ViewOf(strat, m)[j].priority
    BY <1>2 DEF NewInPlace
  <2>1. CASE k \in DOMAIN c.new /\ n.new[k] = c.new[k]
    <3>1. c.new[k].priority > ViewOf(strat, c.mine)[j].priority
      BY <2>1 DEF Tidy, NewInPlace
    <3> QED BY <1>7, <1>8, <2>1, <3>1
  <2>2. CASE n.new[k] = x
    <3>1. strat[j].priority < c.next
      BY <1>4, <2>2 DEF Tidy, ReadHolds, Order!InEnv
    <3>2. strat[j].priority \in Nat /\ c.next \in Nat
      BY StrategiesType, RowFields DEF CallRecord
    <3> QED BY <1>4, <1>7, <1>8, <2>2, <3>1, <3>2
  <2> QED BY <1>5, <2>1, <2>2
<1>13. ReadHolds(strat, n)
  BY <1>1 DEF ReadHolds
<1>14. n.default \in BOOLEAN /\ n.copied = n.default /\ (IF n.default THEN n.priority = 0 ELSE DOMAIN n.mine = {})
  BY <1>2, <1>3 DEF Tidy
<1> QED BY <1>9, <1>10, <1>11, <1>12, <1>13, <1>14 DEF Tidy, n

LEMMA WriteTidy ==
    ASSUME OneCall, AllTidy, NEW r \in Calls, Order!WriteEnv(r)
    PROVE  AllTidy'
<1> DEFINE old == call[r]
<1>1. /\ old \in CallRecord /\ Bound(Len(strat), old) /\ old.pc = "write" /\ strat' = strat
      /\ Ordered /\ Ordered' /\ (Creating(old) => Tidy(strat, old))
  BY WriteCases, WriteType DEF AllTidy, Ordered
<1>2. CASE call' = [call EXCEPT ![r] = Order!Idle]
  <2>1. ~ Creating(Order!Idle)
    BY IdleCall DEF Creating
  <2> QED BY <1>1, <1>2, <2>1, OnlyCall
<1>3. CASE /\ \A i \in Order!ToSet(old.listed) : strat[i] # Deleted
           /\ call' = [call EXCEPT ![r] = AfterWrite(strat, old)]
  <2> DEFINE n == AfterWrite(strat, old)
  <2>1. n.row = old.row /\ n.reordered = old.reordered
    BY <1>1, AfterWriteFields
  <2>2. Creating(n) => Creating(old)
    BY <1>1, <2>1 DEF Creating
  <2>3. ASSUME Creating(n) PROVE Tidy(strat, n)
    <3>1. Tidy(strat, old) /\ old.default \in BOOLEAN
      BY <1>1, <2>2, <2>3 DEF Tidy
    <3> HIDE DEF old
    <3> QED BY <1>1, <1>3, <3>1, WriteDefaultTidy, WriteOtherTidy
  <2>4. call' = [call EXCEPT ![r] = n]
    BY <1>3
  <2> HIDE DEF n
  <2> QED BY <1>1, <2>3, <2>4, OnlyCall
<1> QED BY <1>2, <1>3, WriteCases

\* A deleted strategy is one that the call has not written.
LEMMA DeletionTidy ==
    ASSUME Ordered, Ordered', NEW c \in CallRecord, Tidy(strat, c), NEW i \in DOMAIN strat,
           i \notin DOMAIN c.mine, DOMAIN strat' = DOMAIN strat,
           Order!ToSet(c.listed) \subseteq DOMAIN strat,
           \A j \in DOMAIN strat : strat'[j] = IF j = i THEN Deleted ELSE strat[j]
    PROVE  Tidy(strat', c)
<1>1. \A j : j \in Order!Live(strat') <=> j \in Order!Live(strat) /\ j # i
  BY DEF Order!Live
<1>2. \A j \in Order!Live(strat') :
        /\ j \in DOMAIN strat /\ strat'[j] = strat[j]
        /\ ViewOf(strat', c.mine)[j] = ViewOf(strat, c.mine)[j]
  BY <1>1 DEF ViewOf, Order!Live
<1>3. \A j \in DOMAIN c.mine : j \in Order!Live(strat) => j \in Order!Live(strat') /\ strat'[j] = strat[j]
  BY <1>1, <1>2
<1>4. RenumberedThere(strat', c)
  BY <1>3 DEF Tidy, RenumberedThere
<1>5. OrderKept(strat', c)
  BY <1>1, <1>2 DEF Tidy, OrderKept
<1>6. NewInPlace(strat', c)
  <2> SUFFICES ASSUME c.default \/ c.priority = None,
                      NEW k \in DOMAIN c.new, NEW j \in Order!Live(strat'), strat'[j].env = c.new[k].env
               PROVE  IF c.default THEN c.new[k].priority < ViewOf(strat', c.mine)[j].priority
                      ELSE c.new[k].priority > ViewOf(strat', c.mine)[j].priority
    BY DEF NewInPlace
  <2>1. j \in Order!Live(strat) /\ strat[j].env = c.new[k].env
        /\ ViewOf(strat', c.mine)[j] = ViewOf(strat, c.mine)[j]
    BY <1>1, <1>2
  <2> QED BY <2>1 DEF Tidy, NewInPlace
<1>7. ReadHolds(strat', c)
  <2> SUFFICES ASSUME c.pc = "write" PROVE ReadHolds(strat', c)
    BY DEF ReadHolds
  <2>1. Order!InEnv(strat', c.env) \subseteq Order!InEnv(strat, c.env)
    BY <1>1, <1>2 DEF Order!InEnv
  <2>2. \A j \in Order!InEnv(strat', c.env) : strat'[j] = strat[j]
    BY <1>2 DEF Order!InEnv
  <2>3. CASE c.default
    <3>1. /\ Order!InEnv(strat, c.env) \subseteq Order!ToSet(c.listed)
          /\ \A j \in Order!ToSet(c.listed) : strat[j] # Deleted => strat[j].env = c.env
          /\ \A m, n \in DOMAIN c.listed :
                /\ c.listed[m] = c.listed[n] => m = n
                /\ m < n /\ c.listed[m] \in Order!Live(strat) /\ c.listed[n] \in Order!Live(strat) =>
                     strat[c.listed[m]].priority <= strat[c.listed[n]].priority
      BY <2>3 DEF Tidy, ReadHolds
    <3>2. \A j \in Order!ToSet(c.listed) : strat'[j] # Deleted => strat'[j].env = c.env
      BY <3>1
    <3>3. \A m, n \in DOMAIN c.listed :
            m < n /\ c.listed[m] \in Order!Live(strat') /\ c.listed[n] \in Order!Live(strat') =>
               strat'[c.listed[m]].priority <= strat'[c.listed[n]].priority
      BY <1>1, <1>2, <3>1
    <3> QED BY <2>1, <2>3, <3>1, <3>2, <3>3 DEF ReadHolds
  <2>4. CASE ~ c.default
    <3>1. c.listed = <<>> /\ \A j \in Order!InEnv(strat, c.env) : strat[j].priority < c.next
      BY <2>4 DEF Tidy, ReadHolds
    <3> QED BY <2>1, <2>2, <2>4, <3>1 DEF ReadHolds
  <2> QED BY <2>3, <2>4
<1> QED BY <1>4, <1>5, <1>6, <1>7 DEF Tidy

LEMMA DeleteTidy ==
    ASSUME AllTidy, NEW i \in DOMAIN strat, Order!DeleteStrategy(i)
    PROVE  AllTidy'
<1>1. /\ Ordered /\ Ordered' /\ call' = call /\ DOMAIN strat' = DOMAIN strat
      /\ \A j \in DOMAIN strat : strat'[j] = IF j = i THEN Deleted ELSE strat[j]
  BY DeleteType DEF AllTidy
<1>2. \A r \in Calls : i \notin DOMAIN call[r].mine
  BY OrderConstants DEF Order!DeleteStrategy, Order!Free
<1>3. ASSUME NEW r \in Calls, Creating(call[r]) PROVE Tidy(strat', call[r])
  <2>1. call[r] \in CallRecord /\ Tidy(strat, call[r]) /\ Bound(Len(strat), call[r])
    BY <1>3 DEF AllTidy, Ordered
  <2>2. Order!ToSet(call[r].listed) \subseteq DOMAIN strat
    BY <1>1, <2>1, StrategiesType DEF Bound
  <2> QED BY <1>1, <1>2, <2>1, <2>2, DeletionTidy
<1> QED BY <1>1, <1>3 DEF AllTidy

\* No call is under way.
LEMMA AllTidyInit ==
    Order!Init => AllTidy
<1> SUFFICES ASSUME Order!Init PROVE AllTidy
  OBVIOUS
<1>1. Ordered /\ \A r \in Calls : call[r] = Order!Idle
  BY OrderedInit DEF Order!Init
<1> QED BY <1>1, IdleCall DEF AllTidy, Creating

\* Every step keeps the only call tidy.
LEMMA AllTidyStep ==
    ASSUME OneCall, AllTidy, Order!Next \/ UNCHANGED orderVars
    PROVE  AllTidy'
<1> USE DEF AllTidy
<1>1. CASE UNCHANGED orderVars
  <2>1. strat' = strat /\ call' = call
    BY <1>1 DEF orderVars
  <2> QED BY <2>1 DEF Ordered
<1>2. ASSUME NEW r \in Calls, Order!CreateStrategy(r) PROVE AllTidy'
  BY <1>2, CreateTidy
<1>3. ASSUME NEW r \in Calls, Order!UpdateStrategy(r) PROVE AllTidy'
  <2>1. Ordered' /\ call'[r].row # 0 /\ \A q \in Calls : q = r
    BY <1>3, UpdateType DEF OneCall
  <2> QED BY <2>1 DEF Creating
<1>4. ASSUME NEW r \in Calls, Order!CheckDefault(r) PROVE AllTidy'
  BY <1>4, CheckTidy
<1>5. ASSUME NEW r \in Calls, Order!MoveStrategy(r) PROVE AllTidy'
  BY <1>5, MoveTidy
<1>6. ASSUME NEW r \in Calls, NEW e \in Places, Order!ReadEnv(r, e) PROVE AllTidy'
  BY <1>6, ReadTidy
<1>7. ASSUME NEW r \in Calls, Order!WriteEnv(r) PROVE AllTidy'
  BY <1>7, WriteTidy
<1>8. ASSUME NEW r \in Calls, Order!Commit(r) \/ Order!Fails(r) PROVE AllTidy'
  <2>1. Ordered'
    BY <1>8, OrderedStep DEF Order!Next
  <2>2. call' = [call EXCEPT ![r] = Order!Idle] /\ ~ Creating(Order!Idle)
    BY <1>8, IdleCall DEF Order!Commit, Order!Fails, Creating
  <2> QED BY <2>1, <2>2, OnlyCall
<1>9. ASSUME NEW i \in DOMAIN strat, Order!DeleteStrategy(i) PROVE AllTidy'
  BY <1>9, DeleteTidy
<1>10. ASSUME NEW ids \in Order!SetToAllKPermutations(Order!Live(strat)),
              Order!ReorderStrategies(ids) PROVE AllTidy'
  BY <1>10, ReorderType DEF Creating
<1> QED BY <1>1, <1>2, <1>3, <1>4, <1>5, <1>6, <1>7, <1>8, <1>9, <1>10 DEF Order!Next

-----------------------------------------------------------------------------
(* The commit of a call that creates strategies.                           *)

\* What the commit of a tidy call makes of the rows.
LEMMA CommitTidy ==
    ASSUME AllTidy, NEW r \in Calls, Order!Creates(r)
    PROVE  /\ Tidy(strat, call[r])
           /\ \A i \in DOMAIN strat : i \in DOMAIN strat' /\ strat'[i] = ViewOf(strat, call[r].mine)[i]
           /\ \A i \in DOMAIN strat' \ DOMAIN strat :
                i - Len(strat) \in DOMAIN call[r].new /\ strat'[i] = call[r].new[i - Len(strat)]
<1>1. Order!Commit(r) /\ Creating(call[r]) /\ Ordered
  BY DEF Order!Creates, Order!Commit, Creating, AllTidy
<1>2. Order!View(r) = ViewOf(strat, call[r].mine)
  BY <1>1, InEnvIsFinite
<1> QED BY <1>1, <1>2, CommitType DEF AllTidy

\* No two strategies that exist are swapped.
LEMMA CommitKeepsOrder ==
    ASSUME AllTidy, NEW r \in Calls, Order!Creates(r),
           NEW i \in Order!Live(strat), NEW j \in Order!Live(strat),
           strat[i].env = strat[j].env, strat[i].priority < strat[j].priority
    PROVE  strat'[i].priority < strat'[j].priority
<1>1. i \in DOMAIN strat /\ j \in DOMAIN strat
  BY DEF Order!Live
<1> QED BY <1>1, CommitTidy DEF Tidy, OrderKept

\* The new one is below or above all others.
LEMMA CommitInPlace ==
    ASSUME AllTidy, NEW r \in Calls, Order!Creates(r), call[r].default \/ call[r].priority = None,
           NEW i \in DOMAIN strat' \ DOMAIN strat, NEW j \in Order!Live(strat'),
           i # j, strat'[i].env = strat'[j].env
    PROVE  IF strat'[i].default THEN strat'[i].priority < strat'[j].priority
                                ELSE strat'[i].priority > strat'[j].priority
<1> DEFINE c == call[r]
           k == i - Len(strat)
<1>1. /\ Tidy(strat, c) /\ Ordered /\ Ordered'
      /\ \A x \in DOMAIN strat : x \in DOMAIN strat' /\ strat'[x] = ViewOf(strat, c.mine)[x]
      /\ \A x \in DOMAIN strat' \ DOMAIN strat :
           x - Len(strat) \in DOMAIN c.new /\ strat'[x] = c.new[x - Len(strat)]
  BY CommitTidy, CommitType DEF AllTidy, Order!Creates
<1>2. k \in DOMAIN c.new /\ strat'[i] = c.new[k] /\ c.new[k].default = c.default
  BY <1>1 DEF Tidy, NewApart
<1>3. j \in DOMAIN strat'
  BY DEF Order!Live
<1>4. CASE j \in DOMAIN strat
  <2>1. strat'[j] = ViewOf(strat, c.mine)[j] /\ strat'[j] # Deleted
    BY <1>1, <1>4 DEF Order!Live
  <2>2. j \in Order!Live(strat) /\ strat[j].env = strat'[j].env
    BY <1>1, <1>4, <2>1 DEF Tidy, RenumberedThere, ViewOf, Order!Live
  <2>3. IF c.default THEN c.new[k].priority < ViewOf(strat, c.mine)[j].priority
                     ELSE c.new[k].priority > ViewOf(strat, c.mine)[j].priority
    <3>1. strat[j].env = c.new[k].env
      BY <1>2, <2>2
    <3> HIDE DEF c, k
    <3>2. c.default \/ c.priority = None
      BY DEF c
    <3> QED BY <1>1, <1>2, <2>2, <3>1, <3>2 DEF Tidy, NewInPlace
  <2> QED BY <1>2, <2>1, <2>3
<1>5. CASE j \notin DOMAIN strat
  <2> DEFINE l == j - Len(strat)
  <2>1. l \in DOMAIN c.new /\ strat'[j] = c.new[l]
    BY <1>1, <1>3, <1>5
  <2>2. k = l
    BY <1>1, <1>2, <2>1 DEF Tidy, NewApart
  <2>3. i \in Nat /\ j \in Nat /\ Len(strat) \in Nat
    <3>1. DOMAIN strat' \subseteq Nat
      BY <1>1 DEF Ordered
    <3> QED BY <1>1, <1>3, <3>1, StrategiesType
  <2>4. i = j
    BY <2>2, <2>3
  <2> QED BY <2>4
<1> QED BY <1>4, <1>5

\* For any number of strategies, environments and priorities, and with one call at a
\* time: createStrategy never swaps two strategies that exist, whatever order they
\* had and whatever is deleted between its reading and its commit.
THEOREM KeepsOrder == ASSUME OneCall PROVE OrderSpec => CreateKeepsOrder
<1>1. MCInit => AllTidy
  BY AllTidyInit DEF MCInit
<1>2. AllTidy /\ [OrderNext]_<<vars, weightVars, orderVars>> => AllTidy'
  BY AllTidyStep DEF OrderNext
<1>3. AllTidy => \A r \in Calls : Order!Creates(r) =>
         \A i, j \in Order!Live(strat) :
             /\ strat[i].env = strat[j].env
             /\ strat[i].priority < strat[j].priority
             => strat'[i].priority < strat'[j].priority
  BY CommitKeepsOrder
<1> QED BY <1>1, <1>2, <1>3, PTL DEF OrderSpec, CreateKeepsOrder, Order!CreateKeepsOrder

\* For any number of strategies, environments and priorities, and with one call at a
\* time: the strategy that createStrategy adds is evaluated before all others of its
\* environment, a default strategy after all others, whatever is deleted between
\* reading the highest priority and the commit.
THEOREM InPlace == ASSUME OneCall PROVE OrderSpec => CreatedInPlace
<1>1. MCInit => AllTidy
  BY AllTidyInit DEF MCInit
<1>2. AllTidy /\ [OrderNext]_<<vars, weightVars, orderVars>> => AllTidy'
  BY AllTidyStep DEF OrderNext
<1>3. AllTidy => \A r \in Calls : Order!Creates(r) /\ (call[r].default \/ call[r].priority = None) =>
         \A i \in DOMAIN strat' \ DOMAIN strat, j \in Order!Live(strat') :
             i # j /\ strat'[i].env = strat'[j].env =>
                 IF strat'[i].default THEN strat'[i].priority < strat'[j].priority
                                      ELSE strat'[i].priority > strat'[j].priority
  BY CommitInPlace
<1> QED BY <1>1, <1>2, <1>3, PTL DEF OrderSpec, CreatedInPlace, Order!CreatedInPlace
=============================================================================
