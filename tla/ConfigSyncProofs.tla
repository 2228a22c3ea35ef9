-------------------------- MODULE ConfigSyncProofs --------------------------
(***************************************************************************)
(* Theorems about ConfigSync for any number of environments, table groups, *)
(* clients and concurrent handlers: what a version says of the config that *)
(* carries it, and that clients are served what ConfigFeed promises.       *)
(***************************************************************************)
EXTENDS ConfigSync, TLAPS

USE ConstantsAssumption

\* What a handler has left after a step is again something it can have left.
LEMMA TailOfRemainder ==
    ASSUME NEW s \in Remainders, s # <<>>
    PROVE  Tail(s) \in Remainders
<1>1. CASE s = <<"commit", "bump", "list", "delete">>  BY <1>1 DEF Remainders
<1>2. CASE s = <<"bump", "list", "delete", "commit">>  BY <1>2 DEF Remainders
<1>3. CASE s = <<"commit", "bump">>                    BY <1>3 DEF Remainders
<1>4. CASE s = <<"bump">>                              BY <1>4 DEF Remainders
<1>5. CASE s = <<"commit">>                            BY <1>5 DEF Remainders
<1>6. CASE s = <<"delete">>                            BY <1>6 DEF Remainders
<1>7. CASE s = <<"list", "delete">>                    BY <1>7 DEF Remainders
<1>8. CASE s = <<"delete", "commit">>                  BY <1>8 DEF Remainders
<1>9. CASE s = <<"bump", "list", "delete">>            BY <1>9 DEF Remainders
<1>10. CASE s = <<"list", "delete", "commit">>         BY <1>10 DEF Remainders
<1> QED
  BY <1>1, <1>2, <1>3, <1>4, <1>5, <1>6, <1>7, <1>8, <1>9, <1>10 DEF Remainders

\* The two halves of an invalidation are skipped together.
LEMMA SecondTailOfRemainder ==
    ASSUME NEW s \in Remainders, s # <<>>, Head(s) = "list"
    PROVE  Tail(s) # <<>> /\ Tail(Tail(s)) \in Remainders
<1>1. s = <<"list", "delete">> \/ s = <<"list", "delete", "commit">>
  <2>1. s \in {<<"commit">>, <<"bump">>, <<"delete">>} => Head(s) # "list"
    OBVIOUS
  <2>2. s \in {<<"commit", "bump">>, <<"delete", "commit">>} => Head(s) # "list"
    OBVIOUS
  <2>3. s \in {<<"bump", "list", "delete">>, <<"commit", "bump", "list", "delete">>,
               <<"bump", "list", "delete", "commit">>} => Head(s) # "list"
    OBVIOUS
  <2> QED BY <2>1, <2>2, <2>3 DEF Remainders
<1>2. CASE s = <<"list", "delete">>            BY <1>2 DEF Remainders
<1>3. CASE s = <<"list", "delete", "commit">>  BY <1>3 DEF Remainders
<1> QED BY <1>1, <1>2, <1>3

-----------------------------------------------------------------------------
\* The start of a handler changes nothing but the steps its writer has left.
Begun(w) ==
    /\ run[w].todo = <<>>
    /\ run'[w] \in Running
    /\ run' = [run EXCEPT ![w] = run'[w]]
    /\ writes' = writes + 1
    /\ UNCHANGED <<db, version, live, cache, held, req, published>>

LEMMA BeginBegun ==
    ASSUME TypeOK, NEW w \in Writers, NEW name, NEW touches,
           NEW plan \in Remainders, NEW bumps \in SUBSET Envs,
           Begin(name, w, plan, touches, bumps)
    PROVE  Begun(w)
BY DEF Begin, Begun, TypeOK, Running

\* Every handler is a Begin with one of the four plans, on existing environments.
LEMMA HandlerBegun ==
    ASSUME TypeOK, NEW w \in Writers, BeginHandler(w)
    PROVE  Begun(w)
<1>1. /\ CommitBumpInvalidate \in Remainders
      /\ CommitBump \in Remainders
      /\ BumpInvalidateCommit \in Remainders
      /\ CommitOnly \in Remainders
  BY DEF CommitBumpInvalidate, CommitBump, BumpInvalidateCommit, CommitOnly, Remainders
<1>2. live \subseteq Envs /\ {} \in SUBSET Envs
  BY DEF TypeOK
<1>3. \A e \in live : {e} \in SUBSET Envs
  BY <1>2
<1>4. CASE \/ ConfigureFlagForEnvironment(w)
           \/ DeleteStrategy(w)
           \/ ToggleStrategyEnable(w)
           \/ BatchAddVariantsToStrategy(w)
           \/ UpdateStrategyVariant(w)
           \/ RemoveVariantFromStrategy(w)
           \/ AddVariantToStrategy(w)
  BY <1>1, <1>3, <1>4, BeginBegun
     DEF ConfigureFlagForEnvironment, DeleteStrategy, ToggleStrategyEnable,
         BatchAddVariantsToStrategy, UpdateStrategyVariant,
         RemoveVariantFromStrategy, AddVariantToStrategy
<1>5. CASE \/ UpdateFeatureFlag(w)
           \/ CreateVariant(w)
           \/ UpdateVariant(w)
           \/ DeleteVariant(w)
           \/ CreateSegment(w)
           \/ UpdateSegment(w)
           \/ DeleteSegment(w)
           \/ CreateAction(w)
           \/ UpdateAction(w)
           \/ DeleteAction(w)
           \/ CreateFeatureFlag(w)
           \/ DeleteFeatureFlag(w)
  BY <1>1, <1>2, <1>5, BeginBegun
     DEF UpdateFeatureFlag, CreateVariant, UpdateVariant, DeleteVariant, CreateSegment,
         UpdateSegment, DeleteSegment, CreateAction, UpdateAction, DeleteAction,
         CreateFeatureFlag, DeleteFeatureFlag
<1>6. CASE CreateStrategy(w) \/ UpdateStrategy(w)
  <2>1. \A es \in SUBSET live : es \in SUBSET Envs /\ (IF es = {} THEN live ELSE es) \in SUBSET Envs
    BY <1>2
  <2> QED BY <1>1, <1>6, <2>1, BeginBegun DEF CreateStrategy, UpdateStrategy
<1>7. CASE \/ CreateMultipleFeatureFlags(w)
           \/ ReorderStrategies(w)
           \/ WriteStrategyRule(w)
           \/ WriteSegmentRule(w)
           \/ ReorderActionStrategies(w)
  BY <1>1, <1>2, <1>7, BeginBegun
     DEF CreateMultipleFeatureFlags, ReorderStrategies, WriteStrategyRule,
         WriteSegmentRule, ReorderActionStrategies
<1> QED
  BY <1>4, <1>5, <1>6, <1>7 DEF BeginHandler

-----------------------------------------------------------------------------
\* What the steps of a handler make of its entry in run.
LEMMA RunUpdate ==
    ASSUME TypeOK, NEW w \in Writers, NEW r \in Running
    PROVE  [run EXCEPT ![w] = r] \in [Writers -> Running]
BY DEF TypeOK

LEMMA PopStep ==
    ASSUME NEW r \in Running, NEW s \in Remainders
    PROVE  [r EXCEPT !.todo = s] \in Running
BY DEF Running

LEMMA SetDels ==
    ASSUME NEW r \in Running, NEW s \in Remainders, NEW d \in SUBSET (Caches \X Envs)
    PROVE  [r EXCEPT !.dels = d, !.todo = s] \in Running
BY DEF Running

LEMMA SetBumps ==
    ASSUME NEW r \in Running, NEW s \in Remainders, NEW b \in SUBSET Envs
    PROVE  [r EXCEPT !.bumps = b, !.todo = s] \in Running
BY DEF Running

\* What a request makes of its cache entry and of its record.
LEMMA CacheUpdate ==
    ASSUME TypeOK, NEW k \in Caches, NEW e \in Envs, NEW g \in Config \cup {NoConfig}
    PROVE  [cache EXCEPT ![k][e] = g] \in [Caches -> [Envs -> Config \cup {NoConfig}]]
BY DEF TypeOK

LEMMA AddTable ==
    ASSUME NEW r \in Request, NEW t \in Tables, NEW n \in Nat
    PROVE  [r EXCEPT !.got = @ \cup {t}, !.parts[t] = n] \in Request
BY DEF Request

\* The initial state and every step of Next keep the types.
LEMMA InitType == Init => TypeOK
<1>1. <<>> \in Remainders
  BY DEF Remainders
<1> QED
  BY <1>1 DEF Init, TypeOK, Running, Request, Idle, NoRequest, Config

LEMMA StepType ==
    ASSUME TypeOK, Next
    PROVE  TypeOK'
<1> USE DEF TypeOK
<1>0. Idle \in Running /\ NoRequest \in Request
  <2>1. <<>> \in Remainders
    BY DEF Remainders
  <2> QED BY <2>1 DEF Idle, NoRequest, Running, Request
<1>1. ASSUME NEW w \in Writers, BeginHandler(w) PROVE TypeOK'
  <2>1. Begun(w)
    BY <1>1, HandlerBegun
  <2>2. run' \in [Writers -> Running]
    BY <2>1, RunUpdate DEF Begun
  <2> QED BY <2>1, <2>2 DEF Begun
<1>2. ASSUME NEW w \in Writers, Commit(w) PROVE TypeOK'
  <2>1. run[w].todo \in Remainders /\ Tail(run[w].todo) \in Remainders
    BY <1>2, TailOfRemainder DEF Commit, At, Running
  <2>2. run' = [run EXCEPT ![w] = [run[w] EXCEPT !.todo = Tail(run[w].todo)]]
    BY <1>2 DEF Commit
  <2>3. run' \in [Writers -> Running]
    BY <2>1, <2>2, PopStep, RunUpdate
  <2>4. db' \in [Envs -> [Tables -> Nat]]
    BY <1>2 DEF Commit
  <2> QED BY <1>2, <2>3, <2>4 DEF Commit
<1>3. ASSUME NEW w \in Writers, NEW e \in Envs, Bump(w, e) PROVE TypeOK'
  <2> DEFINE left == IF run[w].bumps = {e} THEN Tail(run[w].todo) ELSE run[w].todo
  <2>1. left \in Remainders
    BY <1>3, TailOfRemainder DEF Bump, At, Running
  <2>2. run[w].bumps \ {e} \in SUBSET Envs
    BY DEF Running
  <2>3. run' = [run EXCEPT ![w] = [run[w] EXCEPT !.bumps = run[w].bumps \ {e}, !.todo = left]]
    BY <1>3 DEF Bump
  <2> HIDE DEF left
  <2>4. run' \in [Writers -> Running]
    BY <2>1, <2>2, <2>3, SetBumps, RunUpdate
  <2> QED BY <1>3, <2>4 DEF Bump
<1>4. ASSUME NEW w \in Writers, NEW e \in Envs, BumpNotFound(w, e) PROVE TypeOK'
  BY <1>0, <1>4 DEF BumpNotFound
<1>5. ASSUME NEW w \in Writers, ListEnvironments(w) PROVE TypeOK'
  <2>1. run[w].todo \in Remainders /\ run[w].todo # <<>> /\ Head(run[w].todo) = "list"
    BY <1>5 DEF ListEnvironments, At, Running
  <2>2. PICK keys \in {Caches \X live, {}} :
          run' = [run EXCEPT ![w] = [run[w] EXCEPT !.dels = keys,
                    !.todo = IF keys = {} THEN Tail(Tail(run[w].todo)) ELSE Tail(run[w].todo)]]
    BY <1>5 DEF ListEnvironments
  <2> DEFINE left == IF keys = {} THEN Tail(Tail(run[w].todo)) ELSE Tail(run[w].todo)
  <2>3. left \in Remainders
    BY <2>1, TailOfRemainder, SecondTailOfRemainder
  <2>4. keys \in SUBSET (Caches \X Envs)
    OBVIOUS
  <2>5. run' = [run EXCEPT ![w] = [run[w] EXCEPT !.dels = keys, !.todo = left]]
    BY <2>2
  <2> HIDE DEF left
  <2>6. run' \in [Writers -> Running]
    BY <2>3, <2>4, <2>5, SetDels, RunUpdate
  <2> QED BY <1>5, <2>6 DEF ListEnvironments
<1>6. ASSUME NEW w \in Writers, NEW k \in Caches, NEW e \in Envs, DeleteKey(w, k, e) PROVE TypeOK'
  <2> DEFINE left == IF run[w].dels = {<<k, e>>} THEN Tail(run[w].todo) ELSE run[w].todo
  <2>1. left \in Remainders
    BY <1>6, TailOfRemainder DEF DeleteKey, At, Running
  <2>2. run[w].dels \ {<<k, e>>} \in SUBSET (Caches \X Envs)
    BY DEF Running
  <2>3. run' = [run EXCEPT ![w] = [run[w] EXCEPT !.dels = run[w].dels \ {<<k, e>>}, !.todo = left]]
    BY <1>6 DEF DeleteKey
  <2> HIDE DEF left
  <2>4. run' \in [Writers -> Running]
    BY <2>1, <2>2, <2>3, SetDels, RunUpdate
  <2>5. [cache EXCEPT ![k][e] = NoConfig] \in [Caches -> [Envs -> Config \cup {NoConfig}]]
    BY CacheUpdate
  <2>6. cache' \in [Caches -> [Envs -> Config \cup {NoConfig}]]
    BY <1>6, <2>5 DEF DeleteKey
  <2> QED BY <1>6, <2>4, <2>6 DEF DeleteKey
<1>7. ASSUME NEW w \in Writers, HandlerFails(w) PROVE TypeOK'
  BY <1>0, <1>7 DEF HandlerFails
<1>8. ASSUME NEW c \in Clients, GetHit(c) PROVE TypeOK'
  <2>1. Cached(c) \in Config \cup {NoConfig}
    <3>1. CacheOf[c] \in Caches /\ EnvOf[c] \in Envs
      OBVIOUS
    <3>2. cache[CacheOf[c]] \in [Envs -> Config \cup {NoConfig}]
      BY <3>1
    <3> QED BY <3>1, <3>2 DEF Cached
  <2> QED BY <1>0, <1>8, <2>1 DEF GetHit
<1>9. ASSUME NEW c \in Clients, GetMiss(c) PROVE TypeOK'
  <2>1. [NoRequest EXCEPT !.pc = "missed"] \in Request
    BY <1>0 DEF Request
  <2> QED BY <1>9, <2>1 DEF GetMiss
<1>10. ASSUME NEW c \in Clients, ReadEnvironment(c) PROVE TypeOK'
  <2>1. \A v \in Nat : [NoRequest EXCEPT !.pc = "building", !.version = v] \in Request
    BY <1>0 DEF Request
  <2> QED BY <1>0, <1>10, <2>1 DEF ReadEnvironment
<1>11. ASSUME NEW c \in Clients, NEW t \in Tables, ReadTable(c, t) PROVE TypeOK'
  <2>1. db[EnvOf[c]][t] \in Nat /\ req[c] \in Request
    OBVIOUS
  <2>2. req' = [req EXCEPT ![c] = [req[c] EXCEPT !.got = @ \cup {t}, !.parts[t] = db[EnvOf[c]][t]]]
    BY <1>11 DEF ReadTable
  <2>3. req' \in [Clients -> Request]
    BY <2>1, <2>2, AddTable
  <2> QED BY <1>11, <2>3 DEF ReadTable
<1>12. ASSUME NEW c \in Clients, StoreConfig(c) PROVE TypeOK'
  <2> DEFINE built == [version |-> req[c].version, parts |-> req[c].parts]
  <2>1. built \in Config
    BY DEF Config, Request
  <2>2. [cache EXCEPT ![CacheOf[c]][EnvOf[c]] = built] \in [Caches -> [Envs -> Config \cup {NoConfig}]]
    BY <2>1, CacheUpdate
  <2>3. cache' \in [Caches -> [Envs -> Config \cup {NoConfig}]]
    BY <1>12, <2>2 DEF StoreConfig
  <2>4. held' \in [Clients -> Config \cup {NoConfig}]
    BY <1>12, <2>1 DEF StoreConfig
  <2> QED BY <1>0, <1>12, <2>3, <2>4 DEF StoreConfig
<1>13. ASSUME NEW c \in Clients, PollVersion(c) PROVE TypeOK'
  <2>1. \A v \in Nat : [NoRequest EXCEPT !.pc = "polled", !.version = v] \in Request
    BY <1>0 DEF Request
  <2> QED BY <1>13, <2>1 DEF PollVersion
<1>14. ASSUME NEW c \in Clients, PollAnswer(c) PROVE TypeOK'
  <2>1. [NoRequest EXCEPT !.pc = "stale"] \in Request
    BY <1>0 DEF Request
  <2> QED BY <1>0, <1>14, <2>1 DEF PollAnswer
<1>15. ASSUME NEW e \in Envs, Expire(e) PROVE TypeOK'
  BY <1>15 DEF Expire
<1>16. ASSUME NEW e \in Envs, RemoveEnvironment(e) PROVE TypeOK'
  BY <1>16 DEF RemoveEnvironment
<1> QED
  BY <1>1, <1>2, <1>3, <1>4, <1>5, <1>6, <1>7, <1>8, <1>9, <1>10, <1>11, <1>12,
     <1>13, <1>14, <1>15, <1>16
     DEF Next, StepHandler, StepClient

\* The variables keep their types: in particular no handler is left with a
\* step sequence the code does not have (an invalidation half done, a commit
\* twice).
THEOREM TypeCorrect == Spec => []TypeOK
<1>1. TypeOK /\ [Next]_vars => TypeOK'
  BY StepType DEF vars, TypeOK
<1> QED
  BY InitType, <1>1, PTL DEF Spec

-----------------------------------------------------------------------------
\* A step that changes neither the tables nor the versions keeps what is known
\* of every config it does not touch.
SameDatabase == UNCHANGED <<db, version, published>>

LEMMA StoredConfigsCovered ==
    ASSUME VersionCoversCommits, SameDatabase, UNCHANGED req,
           \A k \in Caches, e \in Envs :
               cache'[k][e] \in {cache[k][e], NoConfig},
           UNCHANGED held
    PROVE  VersionCoversCommits'
<1>1. \A k \in Caches, e \in Envs : cache'[k][e] # NoConfig => cache'[k][e] = cache[k][e]
  OBVIOUS
<1> QED
  BY <1>1 DEF VersionCoversCommits, Covers, SameDatabase

\* The database moving on (a commit, an increment) keeps it too: revisions only
\* grow, and what was read under an older version stays behind.
LEMMA DatabaseMovesOn ==
    ASSUME TypeOK, TypeOK', VersionCoversCommits, UNCHANGED <<cache, held, req>>,
           \A e \in Envs, t \in Tables : /\ db[e][t] <= db'[e][t]
                                         /\ published'[e][t] <= db'[e][t],
           \A e \in Envs : \/ version'[e] = version[e] /\ published'[e] = published[e]
                           \/ version[e] < version'[e]
    PROVE  VersionCoversCommits'
<1>1. /\ \A e \in Envs, t \in Tables : db[e][t] \in Nat /\ db'[e][t] \in Nat
      /\ \A e \in Envs : version[e] \in Nat /\ version'[e] \in Nat
  BY DEF TypeOK
<1>2. ASSUME NEW e \in Envs, NEW v, v \in Nat, NEW got, got \in SUBSET Tables,
             NEW parts, parts \in [Tables -> Nat], Covers(e, v, got, parts)
      PROVE  /\ v <= version'[e]
             /\ \A t \in got : parts[t] <= db'[e][t]
             /\ v = version'[e] => \A t \in got : published'[e][t] <= parts[t]
  <2>1. v <= version'[e]
    BY <1>1, <1>2 DEF Covers
  <2>2. \A t \in got : parts[t] <= db'[e][t]
    <3> SUFFICES ASSUME NEW t \in got PROVE parts[t] <= db'[e][t]
      OBVIOUS
    <3>1. parts[t] \in Nat /\ t \in Tables /\ parts[t] <= db[e][t]
      BY <1>2 DEF Covers
    <3>2. db[e][t] <= db'[e][t] /\ db[e][t] \in Nat /\ db'[e][t] \in Nat
      BY <1>1, <3>1
    <3> QED BY <3>1, <3>2
  <2>3. v = version'[e] => \A t \in got : published'[e][t] <= parts[t]
    BY <1>1, <1>2 DEF Covers
  <2> QED BY <2>1, <2>2, <2>3
<1>3. ASSUME NEW k \in Caches, NEW e \in Envs, cache'[k][e] # NoConfig
      PROVE  Covers(e, cache[k][e].version, Tables, cache[k][e].parts)'
  <2>1. cache' = cache /\ cache[k][e] # NoConfig
    BY <1>3
  <2>2. cache[k][e].version \in Nat /\ cache[k][e].parts \in [Tables -> Nat]
    BY <2>1 DEF TypeOK, Config
  <2>3. Covers(e, cache[k][e].version, Tables, cache[k][e].parts)
    BY <2>1 DEF VersionCoversCommits
  <2>4. /\ cache[k][e].version <= version'[e]
        /\ \A t \in Tables : cache[k][e].parts[t] <= db'[e][t]
        /\ cache[k][e].version = version'[e] =>
             \A t \in Tables : published'[e][t] <= cache[k][e].parts[t]
    BY <1>2, <2>2, <2>3
  <2> QED BY <2>1, <2>4 DEF Covers
<1>4. ASSUME NEW c \in Clients, held'[c] # NoConfig
      PROVE  Covers(EnvOf[c], held[c].version, Tables, held[c].parts)'
  <2>1. held' = held /\ held[c] # NoConfig
    BY <1>4
  <2>2. held[c].version \in Nat /\ held[c].parts \in [Tables -> Nat] /\ EnvOf[c] \in Envs
    BY <2>1 DEF TypeOK, Config
  <2>3. Covers(EnvOf[c], held[c].version, Tables, held[c].parts)
    BY <2>1 DEF VersionCoversCommits
  <2>4. /\ held[c].version <= version'[EnvOf[c]]
        /\ \A t \in Tables : held[c].parts[t] <= db'[EnvOf[c]][t]
        /\ held[c].version = version'[EnvOf[c]] =>
             \A t \in Tables : published'[EnvOf[c]][t] <= held[c].parts[t]
    BY <1>2, <2>2, <2>3
  <2> QED BY <2>1, <2>4 DEF Covers
<1>5. ASSUME NEW c \in Clients, req'[c].pc = "building"
      PROVE  Covers(EnvOf[c], req[c].version, req[c].got, req[c].parts)'
  <2>1. req' = req /\ req[c].pc = "building"
    BY <1>5
  <2>2. /\ req[c].version \in Nat /\ req[c].got \in SUBSET Tables
        /\ req[c].parts \in [Tables -> Nat] /\ EnvOf[c] \in Envs
    BY <2>1 DEF TypeOK, Request
  <2>3. Covers(EnvOf[c], req[c].version, req[c].got, req[c].parts)
    BY <2>1 DEF VersionCoversCommits
  <2>4. /\ req[c].version <= version'[EnvOf[c]]
        /\ \A t \in req[c].got : req[c].parts[t] <= db'[EnvOf[c]][t]
        /\ req[c].version = version'[EnvOf[c]] =>
             \A t \in req[c].got : published'[EnvOf[c]][t] <= req[c].parts[t]
    BY <1>2, <2>2, <2>3
  <2> QED BY <2>1, <2>4 DEF Covers
<1> QED
  BY <1>3, <1>4, <1>5 DEF VersionCoversCommits
\* A step of client c that leaves the database and the caches alone has only to
\* say what became of c's own request and of the config c holds.
LEMMA ClientStepCovers ==
    ASSUME TypeOK, VersionCoversCommits, SameDatabase, UNCHANGED cache, NEW c \in Clients,
           \A d \in Clients \ {c} : held'[d] = held[d] /\ req'[d] = req[d],
           held'[c] # NoConfig => Covers(EnvOf[c], held'[c].version, Tables, held'[c].parts),
           req'[c].pc = "building" =>
               Covers(EnvOf[c], req'[c].version, req'[c].got, req'[c].parts)
    PROVE  VersionCoversCommits'
<1>1. ASSUME NEW d \in Clients, held'[d] # NoConfig
      PROVE  Covers(EnvOf[d], held[d].version, Tables, held[d].parts)'
  <2>1. Covers(EnvOf[d], held'[d].version, Tables, held'[d].parts)
    BY <1>1 DEF VersionCoversCommits
  <2> QED BY <2>1 DEF Covers, SameDatabase
<1>2. ASSUME NEW d \in Clients, req'[d].pc = "building"
      PROVE  Covers(EnvOf[d], req[d].version, req[d].got, req[d].parts)'
  <2>1. Covers(EnvOf[d], req'[d].version, req'[d].got, req'[d].parts)
    BY <1>2 DEF VersionCoversCommits
  <2> QED BY <2>1 DEF Covers, SameDatabase
<1> QED
  BY <1>1, <1>2 DEF VersionCoversCommits, Covers, SameDatabase

LEMMA InitCovers == Init => VersionCoversCommits
<1> SUFFICES ASSUME Init PROVE VersionCoversCommits
  OBVIOUS
<1>1. \A e \in Envs, t \in Tables : published[e][t] = 0 /\ db[e][t] = 0
  BY DEF Init
<1>2. \A k \in Caches, e \in Envs : cache[k][e] = NoConfig
  BY DEF Init
<1>3. \A c \in Clients : held[c] = NoConfig /\ req[c].pc = "idle"
  BY DEF Init, NoRequest
<1> QED
  BY <1>1, <1>2, <1>3 DEF VersionCoversCommits

LEMMA StepCovers ==
    ASSUME TypeOK, TypeOK', VersionCoversCommits, Next
    PROVE  VersionCoversCommits'
<1>1. ASSUME NEW w \in Writers, BeginHandler(w) PROVE VersionCoversCommits'
  BY <1>1, HandlerBegun DEF Begun, VersionCoversCommits, Covers
<1>2. ASSUME NEW w \in Writers, Commit(w) PROVE VersionCoversCommits'
  <2>1. UNCHANGED <<version, published, cache, held, req>>
    BY <1>2 DEF Commit
  <2>2. ASSUME NEW e \in Envs, NEW t \in Tables
        PROVE  db[e][t] <= db'[e][t] /\ published'[e][t] <= db'[e][t]
    <3>1. db[e][t] \in Nat /\ published[e][t] \in Nat
      BY DEF TypeOK
    <3>2. db'[e][t] \in {db[e][t], db[e][t] + 1}
      BY <1>2 DEF Commit
    <3>3. published[e][t] <= db[e][t]
      BY DEF VersionCoversCommits
    <3> QED BY <2>1, <3>1, <3>2, <3>3
  <2> QED BY <2>1, <2>2, DatabaseMovesOn
<1>3. ASSUME NEW w \in Writers, NEW e \in Envs, Bump(w, e) PROVE VersionCoversCommits'
  <2>1. UNCHANGED <<db, cache, held, req>>
    BY <1>3 DEF Bump
  <2>2. \A f \in Envs : IF f = e THEN version'[f] = version[f] + 1 /\ published'[f] = db[f]
                                 ELSE version'[f] = version[f] /\ published'[f] = published[f]
    BY <1>3 DEF Bump, TypeOK
  <2>3. ASSUME NEW f \in Envs, NEW t \in Tables
        PROVE  db[f][t] <= db'[f][t] /\ published'[f][t] <= db'[f][t]
    BY <2>1, <2>2 DEF TypeOK, VersionCoversCommits
  <2>4. \A f \in Envs : version[f] \in Nat
    BY DEF TypeOK
  <2>5. \A f \in Envs : \/ version'[f] = version[f] /\ published'[f] = published[f]
                        \/ version[f] < version'[f]
    BY <2>2, <2>4
  <2> QED BY <2>1, <2>3, <2>5, DatabaseMovesOn
<1>4. ASSUME NEW w \in Writers, NEW e \in Envs, BumpNotFound(w, e) PROVE VersionCoversCommits'
  BY <1>4 DEF BumpNotFound, VersionCoversCommits, Covers
<1>5. ASSUME NEW w \in Writers, ListEnvironments(w) PROVE VersionCoversCommits'
  BY <1>5 DEF ListEnvironments, VersionCoversCommits, Covers
<1>6. ASSUME NEW w \in Writers, NEW k \in Caches, NEW e \in Envs, DeleteKey(w, k, e)
      PROVE  VersionCoversCommits'
  <2>1. ASSUME NEW j \in Caches, NEW f \in Envs
        PROVE  cache'[j][f] \in {cache[j][f], NoConfig}
    <3>1. cache[j] = [x \in Envs |-> cache[j][x]]
      BY DEF TypeOK
    <3>2. CASE cache' = [cache EXCEPT ![k][e] = NoConfig]
      BY <3>1, <3>2 DEF TypeOK
    <3>3. CASE cache' = cache
      BY <3>3
    <3> QED BY <1>6, <3>2, <3>3 DEF DeleteKey
  <2> QED BY <1>6, <2>1, StoredConfigsCovered DEF DeleteKey, SameDatabase
<1>7. ASSUME NEW w \in Writers, HandlerFails(w) PROVE VersionCoversCommits'
  BY <1>7 DEF HandlerFails, VersionCoversCommits, Covers
<1>8. ASSUME NEW c \in Clients, GetHit(c) PROVE VersionCoversCommits'
  <2>1. CacheOf[c] \in Caches /\ EnvOf[c] \in Envs /\ held'[c] = Cached(c) /\ Cached(c) # NoConfig
    BY <1>8 DEF GetHit, TypeOK
  <2>2. Covers(EnvOf[c], held'[c].version, Tables, held'[c].parts)
    BY <2>1 DEF Cached, VersionCoversCommits
  <2>3. req'[c].pc # "building"
    BY <1>8 DEF GetHit, TypeOK, NoRequest
  <2>4. \A d \in Clients \ {c} : held'[d] = held[d] /\ req'[d] = req[d]
    BY <1>8 DEF GetHit, TypeOK
  <2> QED BY <1>8, <2>2, <2>3, <2>4, ClientStepCovers DEF GetHit, SameDatabase
<1>9. ASSUME NEW c \in Clients, GetMiss(c) \/ PollVersion(c) \/ PollAnswer(c)
      PROVE  VersionCoversCommits'
  <2>1. req'[c].pc # "building"
    <3>1. CASE GetMiss(c)      BY <3>1 DEF GetMiss, TypeOK, NoRequest
    <3>2. CASE PollVersion(c)  BY <3>2 DEF PollVersion, TypeOK, NoRequest
    <3>3. CASE PollAnswer(c)
      <4>1. req'[c] = NoRequest \/ req'[c] = [NoRequest EXCEPT !.pc = "stale"]
        BY <3>3 DEF PollAnswer, TypeOK
      <4> QED BY <4>1 DEF NoRequest
    <3> QED BY <1>9, <3>1, <3>2, <3>3
  <2>2. UNCHANGED <<db, version, published, cache, held>>
    BY <1>9 DEF GetMiss, PollVersion, PollAnswer
  <2>3. \A d \in Clients \ {c} : held'[d] = held[d] /\ req'[d] = req[d]
    BY <1>9 DEF GetMiss, PollVersion, PollAnswer, TypeOK
  <2>4. held'[c] # NoConfig => Covers(EnvOf[c], held'[c].version, Tables, held'[c].parts)
    BY <2>2 DEF VersionCoversCommits
  <2> QED BY <2>1, <2>2, <2>3, <2>4, ClientStepCovers DEF SameDatabase
<1>10. ASSUME NEW c \in Clients, ReadEnvironment(c) PROVE VersionCoversCommits'
  <2>1. UNCHANGED <<db, version, published, cache, held>>
    BY <1>10 DEF ReadEnvironment
  <2>2. req'[c].pc = "building" => req'[c].version = version[EnvOf[c]] /\ req'[c].got = {}
    BY <1>10 DEF ReadEnvironment, TypeOK, NoRequest
  <2>3. req'[c].pc = "building" =>
            Covers(EnvOf[c], req'[c].version, req'[c].got, req'[c].parts)
    BY <2>2 DEF Covers, TypeOK
  <2>4. \A d \in Clients \ {c} : held'[d] = held[d] /\ req'[d] = req[d]
    BY <1>10, <2>1 DEF ReadEnvironment, TypeOK
  <2>5. held'[c] # NoConfig => Covers(EnvOf[c], held'[c].version, Tables, held'[c].parts)
    BY <2>1 DEF VersionCoversCommits
  <2> QED BY <2>1, <2>3, <2>4, <2>5, ClientStepCovers DEF SameDatabase
<1>11. ASSUME NEW c \in Clients, NEW t \in Tables, ReadTable(c, t) PROVE VersionCoversCommits'
  <2> DEFINE e == EnvOf[c]
  <2>1. UNCHANGED <<db, version, published, cache, held>>
    BY <1>11 DEF ReadTable
  <2>2. /\ req[c].pc = "building"
        /\ req' = [req EXCEPT ![c] = [req[c] EXCEPT !.got = @ \cup {t}, !.parts[t] = db[e][t]]]
    BY <1>11 DEF ReadTable
  <2>3. Covers(e, req[c].version, req[c].got, req[c].parts)
    BY <2>2 DEF VersionCoversCommits
  <2>4. e \in Envs /\ db[e][t] \in Nat /\ published[e][t] <= db[e][t] /\ req[c] \in Request
    BY DEF TypeOK, VersionCoversCommits
  <2>5. /\ req'[c].version = req[c].version
        /\ req'[c].got = req[c].got \cup {t}
        /\ req'[c].parts = [req[c].parts EXCEPT ![t] = db[e][t]]
    BY <2>2, <2>4 DEF TypeOK, Request
  <2>6. \A u \in Tables : req'[c].parts[u] = IF u = t THEN db[e][t] ELSE req[c].parts[u]
    BY <2>4, <2>5 DEF Request
  <2>7. req'[c].got \subseteq Tables
    BY <2>4, <2>5 DEF Request
  <2> HIDE DEF e
  <2>8. Covers(e, req'[c].version, req'[c].got, req'[c].parts)
    <3>1. \A u \in req'[c].got : u = t \/ u \in req[c].got
      BY <2>5
    <3>2. ASSUME NEW u \in req'[c].got PROVE req'[c].parts[u] <= db[e][u]
      <4>1. CASE u = t   BY <2>4, <2>6, <4>1
      <4>2. CASE u # t   BY <2>3, <2>6, <2>7, <3>1, <4>2 DEF Covers
      <4> QED BY <4>1, <4>2
    <3>3. ASSUME NEW u \in req'[c].got, req'[c].version = version[e]
          PROVE  published[e][u] <= req'[c].parts[u]
      <4>1. CASE u = t   BY <2>4, <2>6, <4>1
      <4>2. CASE u # t   BY <2>3, <2>5, <2>6, <2>7, <3>1, <3>3, <4>2 DEF Covers
      <4> QED BY <4>1, <4>2
    <3> QED BY <2>3, <2>5, <3>2, <3>3 DEF Covers
  <2>9. \A d \in Clients \ {c} : held'[d] = held[d] /\ req'[d] = req[d]
    BY <2>1, <2>2 DEF TypeOK
  <2>10. held'[c] # NoConfig => Covers(EnvOf[c], held'[c].version, Tables, held'[c].parts)
    BY <2>1 DEF VersionCoversCommits
  <2> QED BY <2>1, <2>8, <2>9, <2>10, ClientStepCovers DEF SameDatabase, e
<1>12. ASSUME NEW c \in Clients, StoreConfig(c) PROVE VersionCoversCommits'
  <2> DEFINE built == [version |-> req[c].version, parts |-> req[c].parts]
             k == CacheOf[c]
             e == EnvOf[c]
  <2>1. k \in Caches /\ e \in Envs
    OBVIOUS
  <2>2. Covers(e, built.version, Tables, built.parts)
    BY <1>12 DEF StoreConfig, VersionCoversCommits
  <2>3. \/ cache' = [cache EXCEPT ![k][e] = built]
        \/ cache' = cache
    BY <1>12 DEF StoreConfig
  <2>4. UNCHANGED <<db, version, published>>
    BY <1>12 DEF StoreConfig
  <2>5. held' = [held EXCEPT ![c] = built] /\ req' = [req EXCEPT ![c] = NoRequest]
    BY <1>12 DEF StoreConfig
  <2> HIDE DEF built, k, e
  <2>6. ASSUME NEW j \in Caches, NEW f \in Envs, cache'[j][f] # NoConfig
        PROVE  Covers(f, cache[j][f].version, Tables, cache[j][f].parts)'
    <3>1. cache'[j][f] = cache[j][f] \/ (f = e /\ cache'[j][f] = built)
      <4>1. cache[j] = [x \in Envs |-> cache[j][x]]
        BY DEF TypeOK
      <4>2. CASE cache' = [cache EXCEPT ![k][e] = built]
        BY <2>1, <4>1, <4>2 DEF TypeOK
      <4>3. CASE cache' = cache
        BY <4>3
      <4> QED BY <2>3, <4>2, <4>3
    <3>2. Covers(f, cache'[j][f].version, Tables, cache'[j][f].parts)
      BY <2>2, <2>6, <3>1 DEF VersionCoversCommits
    <3> QED BY <2>4, <3>2 DEF Covers
  <2>7. ASSUME NEW d \in Clients, held'[d] # NoConfig
        PROVE  Covers(EnvOf[d], held[d].version, Tables, held[d].parts)'
    <3>1. held'[d] = held[d] \/ (d = c /\ held'[d] = built)
      BY <2>5 DEF TypeOK
    <3>2. Covers(EnvOf[d], held'[d].version, Tables, held'[d].parts)
      BY <2>2, <2>7, <3>1 DEF VersionCoversCommits, e
    <3> QED BY <2>4, <3>2 DEF Covers
  <2>8. ASSUME NEW d \in Clients, req'[d].pc = "building"
        PROVE  Covers(EnvOf[d], req[d].version, req[d].got, req[d].parts)'
    <3>1. req'[d] = req[d]
      BY <2>5, <2>8 DEF TypeOK, NoRequest
    <3>2. Covers(EnvOf[d], req[d].version, req[d].got, req[d].parts)
      BY <2>8, <3>1 DEF VersionCoversCommits
    <3> QED BY <2>4, <3>1, <3>2 DEF Covers
  <2> QED BY <2>4, <2>6, <2>7, <2>8 DEF VersionCoversCommits
<1>13. ASSUME NEW e \in Envs, Expire(e) PROVE VersionCoversCommits'
  BY <1>13, StoredConfigsCovered DEF Expire, TypeOK, SameDatabase
<1>14. ASSUME NEW e \in Envs, RemoveEnvironment(e) PROVE VersionCoversCommits'
  BY <1>14 DEF RemoveEnvironment, VersionCoversCommits, Covers
<1> QED
  BY <1>1, <1>2, <1>3, <1>4, <1>5, <1>6, <1>7, <1>8, <1>9, <1>10, <1>11, <1>12,
     <1>13, <1>14
     DEF Next, StepHandler, StepClient

\* A config under the current version contains every change committed before
\* that version was given out, for every handler of the API, with handlers and
\* Redis calls failing anywhere (incrementEnvironmentVersion against the
\* read-through of getConfig).
THEOREM VersionsCoverCommits == Spec => []VersionCoversCommits
<1>1. TypeOK /\ VersionCoversCommits /\ [Next]_vars => VersionCoversCommits'
  <2>1. ASSUME TypeOK, VersionCoversCommits, Next PROVE VersionCoversCommits'
    BY <2>1, StepType, StepCovers
  <2>2. ASSUME VersionCoversCommits, UNCHANGED vars PROVE VersionCoversCommits'
    BY <2>2 DEF vars, VersionCoversCommits, Covers
  <2> QED BY <2>1, <2>2
<1> QED
  BY InitCovers, <1>1, TypeCorrect, PTL DEF Spec
-----------------------------------------------------------------------------
(* Handlers that commit before they increment leave a debt between the two *)
(* steps; while they run to their end, every committed change that no      *)
(* version covers yet is some handler's debt.                              *)

Orderly == Handlers \subseteq CommitFirstHandlers /\ MayFail = FALSE

OrderlyRemainders ==
    {<<>>,
     <<"delete">>, <<"list", "delete">>, <<"bump", "list", "delete">>,
     <<"commit", "bump", "list", "delete">>,
     <<"bump">>, <<"commit", "bump">>}

Debts ==
    /\ live = Envs
    /\ \A w \in Writers : run[w].todo \in OrderlyRemainders
    /\ \A w \in Writers : At(w, "commit") => run[w].touches \subseteq run[w].bumps \X Tables
    /\ \A e \in Envs : db[e] # published[e] => \E w \in Writers : Owes(w, e)

\* Where an orderly handler can be, and where its next step takes it.
LEMMA OrderlySteps ==
    ASSUME NEW s \in OrderlyRemainders, s # <<>>
    PROVE  /\ Tail(s) \in OrderlyRemainders
           /\ Head(s) = "commit" => Tail(s) # <<>> /\ Head(Tail(s)) = "bump"
           /\ Head(s) # "commit" => Tail(s) = <<>> \/ Head(Tail(s)) # "commit"
           /\ Head(s) = "list" => Tail(Tail(s)) = <<>>
<1>1. CASE s = <<"delete">>                            BY <1>1 DEF OrderlyRemainders
<1>2. CASE s = <<"list", "delete">>                    BY <1>2 DEF OrderlyRemainders
<1>3. CASE s = <<"bump", "list", "delete">>            BY <1>3 DEF OrderlyRemainders
<1>4. CASE s = <<"commit", "bump", "list", "delete">>  BY <1>4 DEF OrderlyRemainders
<1>5. CASE s = <<"bump">>                              BY <1>5 DEF OrderlyRemainders
<1>6. CASE s = <<"commit", "bump">>                    BY <1>6 DEF OrderlyRemainders
<1> QED
  BY <1>1, <1>2, <1>3, <1>4, <1>5, <1>6 DEF OrderlyRemainders

\* What a handler touches, within the tables there are.
LEMMA TouchesTables ==
    ASSUME NEW touches, NEW es, touches \subseteq es \X {"flags", "actions"}
    PROVE  touches \cap (Envs \X Tables) \subseteq es \X Tables
OBVIOUS

\* The start of an orderly handler.
LEMMA BeginOrderly ==
    ASSUME TypeOK, NEW w \in Writers, NEW name, NEW plan, NEW touches, NEW bumps,
           plan \in {CommitBumpInvalidate, CommitBump},
           touches \subseteq bumps \X {"flags", "actions"},
           Begin(name, w, plan, touches, bumps)
    PROVE  run'[w].todo \in OrderlyRemainders /\ run'[w].touches \subseteq run'[w].bumps \X Tables
<1>1. run'[w] = [todo |-> plan, dels |-> {}, bumps |-> bumps,
                 touches |-> touches \cap (Envs \X Tables)]
  BY DEF Begin, TypeOK
<1>2. plan \in OrderlyRemainders
  BY DEF CommitBumpInvalidate, CommitBump, OrderlyRemainders
<1> QED
  BY <1>1, <1>2

LEMMA HandlerOrderly ==
    ASSUME TypeOK, Orderly, NEW w \in Writers, BeginHandler(w)
    PROVE  run'[w].todo \in OrderlyRemainders /\ run'[w].touches \subseteq run'[w].bumps \X Tables
<1>1. \A es : FlagsOf(es) \subseteq es \X {"flags", "actions"}
              /\ ActionsOf(es) \subseteq es \X {"flags", "actions"}
              /\ FlagsOf(es) \cup ActionsOf(es) \subseteq es \X {"flags", "actions"}
              /\ {} \subseteq es \X {"flags", "actions"}
  BY DEF FlagsOf, ActionsOf
<1>2. CASE \/ ConfigureFlagForEnvironment(w)
           \/ DeleteStrategy(w)
           \/ ToggleStrategyEnable(w)
           \/ BatchAddVariantsToStrategy(w)
           \/ UpdateStrategyVariant(w)
           \/ RemoveVariantFromStrategy(w)
  <2>1. \E e \in live, name \in Handlers :
          Begin(name, w, CommitBumpInvalidate, FlagsOf({e}), {e})
    BY <1>2
       DEF ConfigureFlagForEnvironment, DeleteStrategy, ToggleStrategyEnable, Begin,
           BatchAddVariantsToStrategy, UpdateStrategyVariant, RemoveVariantFromStrategy
  <2>2. PICK e \in live, name \in Handlers :
          Begin(name, w, CommitBumpInvalidate, FlagsOf({e}), {e})
    BY <2>1
  <2>3. FlagsOf({e}) \subseteq {e} \X {"flags", "actions"}
    BY <1>1
  <2>4. run'[w] = [todo |-> CommitBumpInvalidate, dels |-> {}, bumps |-> {e},
                   touches |-> FlagsOf({e}) \cap (Envs \X Tables)]
    BY <2>2 DEF Begin, TypeOK
  <2>5. CommitBumpInvalidate \in OrderlyRemainders
    BY DEF CommitBumpInvalidate, OrderlyRemainders
  <2>6. FlagsOf({e}) \cap (Envs \X Tables) \subseteq {e} \X Tables
    BY <2>3, TouchesTables
  <2>7. /\ run'[w].todo = CommitBumpInvalidate
        /\ run'[w].bumps = {e}
        /\ run'[w].touches = FlagsOf({e}) \cap (Envs \X Tables)
    BY <2>4
  <2> QED BY <2>5, <2>6, <2>7, Zenon
<1>3. CASE \/ UpdateFeatureFlag(w)
           \/ CreateVariant(w)
           \/ UpdateVariant(w)
           \/ DeleteVariant(w)
           \/ CreateSegment(w)
           \/ UpdateSegment(w)
           \/ DeleteSegment(w)
           \/ CreateAction(w)
           \/ UpdateAction(w)
           \/ DeleteAction(w)
           \/ CreateFeatureFlag(w)
           \/ DeleteFeatureFlag(w)
  BY <1>1, <1>3, BeginOrderly
     DEF UpdateFeatureFlag, CreateVariant, UpdateVariant, DeleteVariant, CreateSegment,
         UpdateSegment, DeleteSegment, CreateAction, UpdateAction, DeleteAction,
         CreateFeatureFlag, DeleteFeatureFlag
<1>4. ASSUME \/ AddVariantToStrategy(w)
             \/ CreateStrategy(w)
             \/ UpdateStrategy(w)
             \/ CreateMultipleFeatureFlags(w)
             \/ ReorderStrategies(w)
             \/ WriteStrategyRule(w)
             \/ WriteSegmentRule(w)
             \/ ReorderActionStrategies(w)
      PROVE  FALSE
  <2>1. \E name \in {"addVariantToStrategy", "createStrategy", "updateStrategy",
                     "createMultipleFeatureFlags", "reorderStrategies", "writeStrategyRule",
                     "writeSegmentRule", "reorderActionStrategies"} : name \in Handlers
    BY <1>4 DEF AddVariantToStrategy, CreateStrategy, UpdateStrategy,
                CreateMultipleFeatureFlags, ReorderStrategies, WriteStrategyRule,
                WriteSegmentRule, ReorderActionStrategies, Begin
  <2> QED BY <2>1 DEF Orderly, CommitFirstHandlers
<1> QED
  BY <1>2, <1>3, <1>4 DEF BeginHandler

LEMMA DebtsStep ==
    ASSUME TypeOK, Orderly, Debts, Next
    PROVE  Debts'
<1>1. ASSUME NEW w \in Writers, BeginHandler(w) PROVE Debts'
  <2>1. Begun(w)
    BY <1>1, HandlerBegun
  <2>2. \A v \in Writers \ {w} : run'[v] = run[v]
    BY <2>1 DEF Begun, TypeOK
  <2>3. run'[w].todo \in OrderlyRemainders /\ run'[w].touches \subseteq run'[w].bumps \X Tables
    BY <1>1, HandlerOrderly
  <2>4. \A e \in Envs : ~ Owes(w, e)
    BY <2>1 DEF Begun, Owes, At
  <2>5. \A e \in Envs : (\E v \in Writers : Owes(v, e)) => \E v \in Writers : Owes(v, e)'
    BY <2>2, <2>4 DEF Owes, At
  <2>6. UNCHANGED <<db, live, published>>
    BY <2>1 DEF Begun
  <2> QED BY <2>2, <2>3, <2>5, <2>6 DEF Debts, At
<1>2. ASSUME NEW w \in Writers, Commit(w) PROVE Debts'
  <2>1. UNCHANGED <<live, published>> /\ run[w].todo # <<>> /\ Head(run[w].todo) = "commit"
    BY <1>2 DEF Commit, At
  <2>2. run' = [run EXCEPT ![w] = [run[w] EXCEPT !.todo = Tail(run[w].todo)]]
    BY <1>2 DEF Commit
  <2>3. /\ \A v \in Writers \ {w} : run'[v] = run[v]
        /\ run'[w].todo = Tail(run[w].todo)
        /\ run'[w].bumps = run[w].bumps
        /\ run'[w].touches = run[w].touches
    BY <2>2 DEF TypeOK, Running
  <2>4. /\ run'[w].todo \in OrderlyRemainders
        /\ run'[w].todo # <<>>
        /\ Head(run'[w].todo) = "bump"
    BY <2>1, <2>3, OrderlySteps DEF Debts
  <2>5. ASSUME NEW e \in Envs, db'[e] # published'[e]
        PROVE  \E v \in Writers : Owes(v, e)'
    <3>1. CASE \E t \in Tables : <<e, t>> \in run[w].touches
      <4>1. e \in run[w].bumps
        BY <2>1, <3>1 DEF Debts, At
      <4> QED BY <2>3, <2>4, <4>1 DEF Owes, At
    <3>2. CASE ~ \E t \in Tables : <<e, t>> \in run[w].touches
      <4>1. db'[e] = [t \in Tables |-> db[e][t]]
        BY <1>2, <3>2 DEF Commit
      <4>2. db'[e] = db[e]
        BY <4>1 DEF TypeOK
      <4>3. PICK v \in Writers : Owes(v, e)
        BY <2>1, <2>5, <4>2 DEF Debts
      <4>4. v # w
        BY <2>1, <4>3 DEF Owes, At
      <4> QED BY <2>3, <4>3, <4>4 DEF Owes, At
    <3> QED BY <3>1, <3>2
  <2> QED BY <2>1, <2>3, <2>4, <2>5 DEF Debts, At
<1>3. ASSUME NEW w \in Writers, NEW e \in Envs, Bump(w, e) PROVE Debts'
  <2> DEFINE left == IF run[w].bumps = {e} THEN Tail(run[w].todo) ELSE run[w].todo
  <2>1. UNCHANGED <<live, db>> /\ run[w].todo # <<>> /\ Head(run[w].todo) = "bump"
    BY <1>3 DEF Bump, At
  <2>2. run' = [run EXCEPT ![w] = [run[w] EXCEPT !.bumps = run[w].bumps \ {e}, !.todo = left]]
    BY <1>3 DEF Bump
  <2>3. /\ left \in OrderlyRemainders
        /\ left = <<>> \/ Head(left) # "commit"
    BY <2>1, OrderlySteps DEF Debts
  <2>4. run[w].bumps # {e} => left = run[w].todo
    OBVIOUS
  <2> HIDE DEF left
  <2>5. /\ \A v \in Writers \ {w} : run'[v] = run[v]
        /\ run'[w].todo = left
        /\ run'[w].bumps = run[w].bumps \ {e}
    BY <2>2 DEF TypeOK, Running
  <2>6. ASSUME NEW f \in Envs, db'[f] # published'[f]
        PROVE  \E v \in Writers : Owes(v, f)'
    <3>1. f # e /\ published'[f] = published[f]
      BY <1>3, <2>6 DEF Bump, TypeOK
    <3>2. PICK v \in Writers : Owes(v, f)
      BY <2>1, <2>6, <3>1 DEF Debts
    <3>3. CASE v = w
      <4>1. f \in run[w].bumps /\ run[w].bumps # {e}
        BY <3>1, <3>2, <3>3 DEF Owes
      <4> QED BY <2>1, <2>4, <2>5, <3>1, <4>1 DEF Owes, At
    <3>4. CASE v # w
      BY <2>5, <3>2, <3>4 DEF Owes, At
    <3> QED BY <3>3, <3>4
  <2> QED BY <2>1, <2>3, <2>5, <2>6 DEF Debts, At
<1>4. ASSUME NEW w \in Writers, NEW e \in Envs, BumpNotFound(w, e) PROVE Debts'
  BY <1>4 DEF BumpNotFound, Debts
<1>5. ASSUME NEW w \in Writers, NEW s \in OrderlyRemainders, NEW d,
             UNCHANGED <<live, db, published>>,
             ~ At(w, "bump"), s = <<>> \/ Head(s) # "commit",
             run' = [run EXCEPT ![w] = [run[w] EXCEPT !.dels = d, !.todo = s]]
      PROVE  Debts'
  <2>1. (\A v \in Writers \ {w} : run'[v] = run[v]) /\ run'[w].todo = s
    BY <1>5 DEF TypeOK, Running
  <2>2. \A e \in Envs : (\E v \in Writers : Owes(v, e)) => \E v \in Writers : Owes(v, e)'
    BY <1>5, <2>1 DEF Owes, At
  <2> QED BY <1>5, <2>1, <2>2 DEF Debts, At
<1>6. ASSUME NEW w \in Writers, ListEnvironments(w) PROVE Debts'
  <2>1. run[w].todo # <<>> /\ Head(run[w].todo) = "list" /\ run[w].todo \in OrderlyRemainders
    BY <1>6 DEF ListEnvironments, At, Debts
  <2>2. <<>> \in OrderlyRemainders
    BY DEF OrderlyRemainders
  <2> DEFINE keys == Caches \X live
             left == IF keys = {} THEN Tail(Tail(run[w].todo)) ELSE Tail(run[w].todo)
  <2>3. left \in OrderlyRemainders /\ (left = <<>> \/ Head(left) # "commit")
    BY <2>1, <2>2, OrderlySteps
  <2>4. {keys} \cup (IF MayFail THEN {{}} ELSE {}) = {keys}
    BY DEF Orderly
  <2>5. run' = [run EXCEPT ![w] = [run[w] EXCEPT !.dels = keys, !.todo = left]]
    BY <1>6, <2>4 DEF ListEnvironments
  <2> HIDE DEF left
  <2>6. UNCHANGED <<live, db, published>> /\ ~ At(w, "bump")
    BY <1>6, <2>1 DEF ListEnvironments, At
  <2> QED BY <1>5, <2>3, <2>5, <2>6
<1>7. ASSUME NEW w \in Writers, NEW k \in Caches, NEW e \in Envs, DeleteKey(w, k, e) PROVE Debts'
  <2> DEFINE left == IF run[w].dels = {<<k, e>>} THEN Tail(run[w].todo) ELSE run[w].todo
  <2>1. run[w].todo # <<>> /\ Head(run[w].todo) = "delete" /\ run[w].todo \in OrderlyRemainders
    BY <1>7 DEF DeleteKey, At, Debts
  <2>2. left \in OrderlyRemainders /\ (left = <<>> \/ Head(left) # "commit")
    BY <2>1, OrderlySteps
  <2>3. run' = [run EXCEPT ![w] = [run[w] EXCEPT !.dels = run[w].dels \ {<<k, e>>}, !.todo = left]]
    BY <1>7 DEF DeleteKey
  <2> HIDE DEF left
  <2>4. UNCHANGED <<live, db, published>> /\ ~ At(w, "bump")
    BY <1>7, <2>1 DEF DeleteKey, At
  <2> QED BY <1>5, <2>2, <2>3, <2>4
<1>8. ASSUME NEW w \in Writers, HandlerFails(w) PROVE Debts'
  BY <1>8 DEF HandlerFails, Orderly
<1>9. ASSUME NEW c \in Clients, StepClient(c) PROVE Debts'
  <2>1. UNCHANGED <<live, db, published, run>>
    BY <1>9 DEF StepClient, GetHit, GetMiss, ReadEnvironment, ReadTable, StoreConfig,
                PollVersion, PollAnswer
  <2> QED BY <2>1 DEF Debts, Owes, At
<1>10. ASSUME NEW e \in Envs, Expire(e) PROVE Debts'
  BY <1>10 DEF Expire, Debts, Owes, At
<1>11. ASSUME NEW e \in Envs, RemoveEnvironment(e) PROVE Debts'
  BY <1>11 DEF RemoveEnvironment, Orderly, CommitFirstHandlers
<1> QED
  BY <1>1, <1>2, <1>3, <1>4, <1>6, <1>7, <1>8, <1>9, <1>10, <1>11 DEF Next, StepHandler

LEMMA InitDebts == Init => Debts
<1>1. <<>> \in OrderlyRemainders
  BY DEF OrderlyRemainders
<1> QED
  BY <1>1 DEF Init, Debts, Idle, At

\* Without a debt on e, what the current version covers is the current config.
LEMMA NoDebtIsCurrent ==
    ASSUME TypeOK, VersionCoversCommits, Debts, NEW e \in Envs, NEW g \in Config,
           Covers(e, g.version, Tables, g.parts), g.version = version[e]
    PROVE  g.parts = db[e] \/ \E w \in Writers : Owes(w, e)
<1> SUFFICES ASSUME db[e] = published[e] PROVE g.parts = db[e]
  BY DEF Debts
<1>1. g.parts \in [Tables -> Nat] /\ db[e] \in [Tables -> Nat]
  BY DEF Config, TypeOK
<1>2. ASSUME NEW t \in Tables PROVE g.parts[t] = db[e][t]
  <2>1. g.parts[t] <= db[e][t] /\ db[e][t] <= g.parts[t]
    BY DEF Covers
  <2> QED BY <1>1, <2>1
<1> QED BY <1>1, <1>2

LEMMA CurrentVersion ==
    ASSUME TypeOK, VersionCoversCommits, Debts
    PROVE  CurrentVersionIsCurrentConfig
<1>1. ASSUME NEW k \in Caches, NEW e \in Envs,
             cache[k][e] # NoConfig, cache[k][e].version = version[e]
      PROVE  cache[k][e].parts = db[e] \/ \E w \in Writers : Owes(w, e)
  <2>1. cache[k][e] \in Config
    BY <1>1 DEF TypeOK
  <2>2. Covers(e, cache[k][e].version, Tables, cache[k][e].parts)
    BY <1>1 DEF VersionCoversCommits
  <2> QED BY <1>1, <2>1, <2>2, NoDebtIsCurrent
<1>2. ASSUME NEW c \in Clients, held[c] # NoConfig, held[c].version = version[EnvOf[c]]
      PROVE  held[c].parts = db[EnvOf[c]] \/ \E w \in Writers : Owes(w, EnvOf[c])
  <2>1. held[c] \in Config /\ EnvOf[c] \in Envs
    BY <1>2 DEF TypeOK
  <2>2. Covers(EnvOf[c], held[c].version, Tables, held[c].parts)
    BY <1>2 DEF VersionCoversCommits
  <2> QED BY <1>2, <2>1, <2>2, NoDebtIsCurrent
<1> QED
  BY <1>1, <1>2 DEF CurrentVersionIsCurrentConfig

\* If only the handlers that commit before they increment are called, and run
\* to their end, then a config under the current version is the current config
\* unless some handler is between its commit and its increment: `since' polling
\* (getConfigChanges) misses no change of theirs.
THEOREM CurrentVersionsAreCurrent ==
    ASSUME Orderly
    PROVE  Spec => []CurrentVersionIsCurrentConfig
<1>1. TypeOK /\ Debts /\ [Next]_vars => Debts'
  <2>1. ASSUME TypeOK, Debts, Next PROVE Debts'
    BY <2>1, DebtsStep
  <2>2. ASSUME Debts, UNCHANGED vars PROVE Debts'
    BY <2>2 DEF vars, Debts, Owes, At
  <2> QED BY <2>1, <2>2
<1>2. TypeOK /\ VersionCoversCommits /\ Debts => CurrentVersionIsCurrentConfig
  BY CurrentVersion
<1> QED
  BY InitDebts, <1>1, <1>2, TypeCorrect, VersionsCoverCommits, PTL DEF Spec

-----------------------------------------------------------------------------
(* ConfigSync implements ConfigFeed: of all its steps only a commit, an    *)
(* increment and the end of a client's request change what the feed shows. *)

Shown == <<db, version, published, held>>

\* A client is served a config that covers its version.
LEMMA ServeStep ==
    ASSUME TypeOK, NEW c \in Clients, NEW g \in Config,
           Covers(EnvOf[c], g.version, Tables, g.parts),
           held' = [held EXCEPT ![c] = g], UNCHANGED <<db, version, published>>
    PROVE  Feed!Serve(c)
<1> DEFINE e == EnvOf[c]
<1>1. e \in Envs /\ version[e] \in Nat /\ g.version \in Nat /\ g.parts \in [Tables -> Nat]
  BY DEF TypeOK, Config
<1>2. g.version \in 0..version[e]
  BY <1>1 DEF Covers
<1>3. \A t \in Tables : /\ db[e][t] \in Nat
                        /\ g.parts[t] \in Nat
                        /\ g.parts[t] <= db[e][t]
                        /\ g.version = version[e] => published[e][t] <= g.parts[t]
  BY <1>1 DEF Covers, TypeOK
<1>4. \A t \in Tables : g.parts[t] \in 0..db[e][t]
  BY <1>3
<1>5. g.parts \in [Tables -> UNION {0..db[e][t] : t \in Tables}]
  BY <1>1, <1>4
<1>6. g.parts \in Feed!Servable(e, g.version)
  BY <1>3, <1>5 DEF Feed!Servable
<1>7. g = [version |-> g.version, parts |-> g.parts]
  BY DEF Config
<1> QED
  BY <1>2, <1>6, <1>7 DEF Feed!Serve

\* Every step of the handlers, the caches and the clients is a step of the feed or
\* leaves it alone.
LEMMA FeedStep ==
    ASSUME TypeOK, VersionCoversCommits, Next
    PROVE  Feed!Next \/ UNCHANGED Shown
<1> USE DEF Shown
<1>1. ASSUME NEW w \in Writers, BeginHandler(w) PROVE UNCHANGED Shown
  BY <1>1, HandlerBegun DEF Begun
<1>2. ASSUME NEW w \in Writers, Commit(w) PROVE Feed!Change
  <2> DEFINE touched == {x \in Envs \X Tables : x[1] \in live /\ x \in run[w].touches}
  <2>1. touched \in SUBSET (Envs \X Tables)
    OBVIOUS
  <2>2. \A e \in Envs, t \in Tables :
            <<e, t>> \in touched <=> (e \in live /\ <<e, t>> \in run[w].touches)
    OBVIOUS
  <2>3. db' = [e \in Envs |-> [t \in Tables |->
                 IF <<e, t>> \in touched THEN db[e][t] + 1 ELSE db[e][t]]]
    BY <1>2, <2>2 DEF Commit
  <2>4. UNCHANGED <<version, published, held>>
    BY <1>2 DEF Commit
  <2> HIDE DEF touched
  <2> QED BY <2>1, <2>3, <2>4 DEF Feed!Change
<1>3. ASSUME NEW w \in Writers, NEW e \in Envs, Bump(w, e) PROVE Feed!Publish(e)
  BY <1>3 DEF Bump, Feed!Publish
<1>4. ASSUME NEW w \in Writers, NEW e \in Envs, BumpNotFound(w, e) PROVE UNCHANGED Shown
  BY <1>4 DEF BumpNotFound
<1>5. ASSUME NEW w \in Writers, ListEnvironments(w) PROVE UNCHANGED Shown
  BY <1>5 DEF ListEnvironments
<1>6. ASSUME NEW w \in Writers, NEW k \in Caches, NEW e \in Envs, DeleteKey(w, k, e)
      PROVE  UNCHANGED Shown
  BY <1>6 DEF DeleteKey
<1>7. ASSUME NEW w \in Writers, HandlerFails(w) PROVE UNCHANGED Shown
  BY <1>7 DEF HandlerFails
<1>8. ASSUME NEW c \in Clients, GetHit(c) PROVE Feed!Serve(c)
  <2>1. CacheOf[c] \in Caches /\ EnvOf[c] \in Envs /\ Cached(c) # NoConfig
    BY <1>8 DEF GetHit
  <2>2. Cached(c) \in Config
    <3>1. \A k \in Caches, e \in Envs : cache[k][e] \in Config \cup {NoConfig}
      BY DEF TypeOK
    <3> QED BY <2>1, <3>1, Zenon DEF Cached
  <2>4. Covers(EnvOf[c], Cached(c).version, Tables, Cached(c).parts)
    BY <2>1 DEF Cached, VersionCoversCommits
  <2>3. held' = [held EXCEPT ![c] = Cached(c)] /\ UNCHANGED <<db, version, published>>
    BY <1>8 DEF GetHit
  <2> QED BY <2>2, <2>3, <2>4, ServeStep
<1>9. ASSUME NEW c \in Clients, GetMiss(c) \/ PollVersion(c) \/ PollAnswer(c) \/ ReadEnvironment(c)
      PROVE  UNCHANGED Shown
  BY <1>9 DEF GetMiss, PollVersion, PollAnswer, ReadEnvironment
<1>10. ASSUME NEW c \in Clients, NEW t \in Tables, ReadTable(c, t) PROVE UNCHANGED Shown
  BY <1>10 DEF ReadTable
<1>11. ASSUME NEW c \in Clients, StoreConfig(c) PROVE Feed!Serve(c)
  <2> DEFINE built == [version |-> req[c].version, parts |-> req[c].parts]
  <2>1. built \in Config
    BY DEF TypeOK, Request, Config
  <2>2. Covers(EnvOf[c], built.version, Tables, built.parts)
    BY <1>11 DEF StoreConfig, VersionCoversCommits
  <2>3. held' = [held EXCEPT ![c] = built] /\ UNCHANGED <<db, version, published>>
    BY <1>11 DEF StoreConfig
  <2> HIDE DEF built
  <2> QED BY <2>1, <2>2, <2>3, ServeStep
<1>12. ASSUME NEW e \in Envs, Expire(e) \/ RemoveEnvironment(e) PROVE UNCHANGED Shown
  BY <1>12 DEF Expire, RemoveEnvironment
<1> QED
  BY <1>1, <1>2, <1>3, <1>4, <1>5, <1>6, <1>7, <1>8, <1>9, <1>10, <1>11, <1>12
     DEF Next, StepHandler, StepClient, Feed!Next

\* The handlers, the Redis caches and the polling of the SDK together implement the
\* feed: whatever fails and however they interleave, a client never holds a version
\* with less than what was committed when the version was given out.
THEOREM ImplementsFeed == Spec => FeedSpec
<1>1. Init => Feed!Init
  BY DEF Init, Feed!Init
<1>2. TypeOK /\ VersionCoversCommits /\ [Next]_vars => [Feed!Next]_(Feed!vars)
  BY FeedStep DEF vars, Shown, Feed!vars
<1> QED
  BY <1>1, <1>2, TypeCorrect, VersionsCoverCommits, PTL DEF Spec, FeedSpec, Feed!Spec
=============================================================================
