----------------------------- MODULE ConfigSync -----------------------------
(***************************************************************************)
(* How a change made through the management API reaches an SDK client or a *)
(* server-side evaluation of one project: the configuration tables in      *)
(* PostgreSQL, the version column of each environment, the two Redis       *)
(* caches, the handlers that write (each a sequence of awaited steps that  *)
(* interleaves with every other request) and the clients that fetch and    *)
(* poll.                                                                   *)
(*                                                                         *)
(* Data is abstracted to revision numbers: db[e][t] counts the commits     *)
(* that changed what table group t contributes to the config of            *)
(* environment e, so two configs are equal exactly when their revisions    *)
(* are.                                                                    *)
(***************************************************************************)
EXTENDS Naturals, Sequences

CONSTANTS
    Envs,        \* the environments of the project
    Tables,      \* the table groups a config is read from, by one query each
    Caches,      \* the Redis caches in use: "sdk", "access"
    Clients,     \* SDK clients and callers of the evaluation endpoints
    CacheOf,     \* CacheOf[c]: the cache that serves client c
    EnvOf,       \* EnvOf[c]: the environment client c asks for
    Writers,     \* concurrent management requests
    Handlers,    \* the names of the handlers that may be called
    Redis,       \* "up", "flaky" (a call may fail) or "down" (every call fails)
    MayFail,     \* may a handler stop at an await (database error, timeout)?
    MaxWrites,   \* bound: calls of handlers in a behaviour
    NoConfig     \* the absence of a config

Config == [version : Nat, parts : [Tables -> Nat]]

ASSUME ConstantsAssumption ==
    /\ Tables \subseteq {"flags", "actions"}
    /\ Caches \subseteq {"sdk", "access"}
    /\ CacheOf \in [Clients -> Caches]
    /\ EnvOf \in [Clients -> Envs]
    /\ Redis \in {"up", "flaky", "down"}
    /\ MayFail \in BOOLEAN
    /\ MaxWrites \in Nat
    /\ NoConfig \notin Config

VARIABLES
    db,        \* db[e][t]: the revision of table group t for environment e
    version,   \* version[e]: the version column of the environment's row
    live,      \* the environments whose row exists
    cache,     \* cache[k][e]: the config cache k holds for e, or NoConfig
    held,      \* held[c]: the config client c was served last, or NoConfig
    req,       \* req[c]: the request client c has in flight
    run,       \* run[w]: the steps the handler running in w has left
    writes,    \* how many handlers were called
    published  \* history: db[e] when version[e] was last incremented

vars == <<db, version, live, cache, held, req, run, writes, published>>

-----------------------------------------------------------------------------
(* A handler's plan is the order of its awaited steps. AccessService.       *)
(* invalidateCacheByProject is two of them: list the environments, then     *)
(* delete their keys.                                                       *)

\* Slip: publish first, write last.
WriteLast == <<"bump", "list", "delete", "commit">>

CommitBumpInvalidate == <<"commit", "bump", "list", "delete">>
CommitBump           == <<"commit", "bump">>
BumpInvalidateCommit == <<"bump", "list", "delete", "commit">>
CommitOnly           == <<"commit">>

\* What can be left of a plan.
Remainders ==
    {<<>>,
     <<"commit">>, <<"bump">>, <<"delete">>,
     <<"commit", "bump">>, <<"list", "delete">>, <<"delete", "commit">>,
     <<"bump", "list", "delete">>, <<"list", "delete", "commit">>,
     <<"commit", "bump", "list", "delete">>, <<"bump", "list", "delete", "commit">>}

Idle == [todo |-> <<>>, touches |-> {}, bumps |-> {}, dels |-> {}]

NoRequest == [pc |-> "idle", version |-> 0, got |-> {}, parts |-> [t \in Tables |-> 0]]

Running == [todo : Remainders, touches : SUBSET (Envs \X Tables),
            bumps : SUBSET Envs, dels : SUBSET (Caches \X Envs)]

Request == [pc : {"idle", "polled", "stale", "missed", "building"}, version : Nat,
            got : SUBSET Tables, parts : [Tables -> Nat]]

TypeOK ==
    /\ db \in [Envs -> [Tables -> Nat]]
    /\ version \in [Envs -> Nat]
    /\ live \subseteq Envs
    /\ cache \in [Caches -> [Envs -> Config \cup {NoConfig}]]
    /\ held \in [Clients -> Config \cup {NoConfig}]
    /\ req \in [Clients -> Request]
    /\ run \in [Writers -> Running]
    /\ writes \in Nat
    /\ published \in [Envs -> [Tables -> Nat]]

Init ==
    /\ db = [e \in Envs |-> [t \in Tables |-> 0]]
    /\ version = [e \in Envs |-> 1]
    /\ live = Envs
    /\ cache = [k \in Caches |-> [e \in Envs |-> NoConfig]]
    /\ held = [c \in Clients |-> NoConfig]
    /\ req = [c \in Clients |-> NoRequest]
    /\ run = [w \in Writers |-> Idle]
    /\ writes = 0
    /\ published = db

-----------------------------------------------------------------------------
(* The handlers. Begin is the part of a handler before its first write: it *)
(* has read the rows it needs (the environments it will bump among them)   *)
(* and passed its checks. `touches' is what its write changes, `bumps' the *)
(* environments whose version it increments.                               *)

Begin(name, w, plan, touches, bumps) ==
    /\ name \in Handlers
    /\ run[w].todo = <<>>
    /\ writes < MaxWrites
    /\ writes' = writes + 1
    /\ run' = [run EXCEPT ![w] = [todo |-> plan, dels |-> {}, bumps |-> bumps,
                                  touches |-> touches \cap (Envs \X Tables)]]
    /\ UNCHANGED <<db, version, live, cache, held, req, published>>

FlagsOf(es)   == es \X {"flags"}
ActionsOf(es) == es \X {"actions"}

\* Handlers of one environment: commit, increment, then invalidate.
ConfigureFlagForEnvironment(w) == \E e \in live :
    Begin("configureFlagForEnvironment", w, CommitBumpInvalidate, FlagsOf({e}), {e})
DeleteStrategy(w) == \E e \in live :
    Begin("deleteStrategy", w, CommitBumpInvalidate, FlagsOf({e}), {e})
ToggleStrategyEnable(w) == \E e \in live :
    Begin("toggleStrategyEnable", w, CommitBumpInvalidate, FlagsOf({e}), {e})
BatchAddVariantsToStrategy(w) == \E e \in live :
    Begin("batchAddVariantsToStrategy", w, CommitBumpInvalidate, FlagsOf({e}), {e})
UpdateStrategyVariant(w) == \E e \in live :
    Begin("updateStrategyVariant", w, CommitBumpInvalidate, FlagsOf({e}), {e})
RemoveVariantFromStrategy(w) == \E e \in live :
    Begin("removeVariantFromStrategy", w, CommitBumpInvalidate, FlagsOf({e}), {e})

\* Handlers of the whole project: every environment listed is incremented.
UpdateFeatureFlag(w) == live # {} /\
    Begin("updateFeatureFlag", w, CommitBumpInvalidate, FlagsOf(live), live)
CreateVariant(w) == live # {} /\
    Begin("createVariant", w, CommitBumpInvalidate, FlagsOf(live), live)
UpdateVariant(w) == live # {} /\
    Begin("updateVariant", w, CommitBumpInvalidate, FlagsOf(live), live)
DeleteVariant(w) == live # {} /\
    Begin("deleteVariant", w, CommitBumpInvalidate, FlagsOf(live), live)
CreateSegment(w) == live # {} /\
    Begin("createSegment", w, CommitBumpInvalidate, {}, live)
UpdateSegment(w) == live # {} /\
    Begin("updateSegment", w, CommitBumpInvalidate, FlagsOf(live) \cup ActionsOf(live), live)
DeleteSegment(w) == live # {} /\
    Begin("deleteSegment", w, CommitBumpInvalidate, FlagsOf(live) \cup ActionsOf(live), live)
CreateAction(w) == live # {} /\
    Begin("createAction", w, CommitBumpInvalidate, ActionsOf(live), live)
UpdateAction(w) == live # {} /\
    Begin("updateAction", w, CommitBumpInvalidate, ActionsOf(live), live)
DeleteAction(w) == live # {} /\
    Begin("deleteAction", w, CommitBumpInvalidate, ActionsOf(live), live)

\* Handlers that increment the version and leave both caches alone.
CreateFeatureFlag(w) == live # {} /\
    Begin("createFeatureFlag", w, CommitBump, FlagsOf(live), live)
DeleteFeatureFlag(w) == live # {} /\
    Begin("deleteFeatureFlag", w, CommitBump, FlagsOf(live), live)

\* Handlers that increment and invalidate inside their transaction, through
\* another connection: both are visible before the transaction commits.
CreateStrategy(w) == \E es \in (SUBSET live) \ {{}} :
    Begin("createStrategy", w, BumpInvalidateCommit, FlagsOf(es), es)
AddVariantToStrategy(w) == \E e \in live :
    Begin("addVariantToStrategy", w, BumpInvalidateCommit, FlagsOf({e}), {e})
\* The strategy moves or is copied from e to the environments es of the
\* request, and only those are incremented; a request that names none
\* increments every environment (its `in' filter is undefined).
UpdateStrategy(w) == \E e \in live, es \in SUBSET live :
    Begin("updateStrategy", w, BumpInvalidateCommit, FlagsOf(es \cup {e}),
          IF es = {} THEN live ELSE es)

\* Handlers that write and do neither.
CreateMultipleFeatureFlags(w) ==
    Begin("createMultipleFeatureFlags", w, CommitOnly, FlagsOf(live), {})
ReorderStrategies(w) == \E e \in live :
    Begin("reorderStrategies", w, CommitOnly, FlagsOf({e}), {})
WriteStrategyRule(w) == \E e \in live :
    Begin("writeStrategyRule", w, CommitOnly, FlagsOf({e}), {})
WriteSegmentRule(w) ==
    Begin("writeSegmentRule", w, CommitOnly, FlagsOf(live) \cup ActionsOf(live), {})
ReorderActionStrategies(w) ==
    Begin("reorderActionStrategies", w, CommitOnly, ActionsOf(live), {})

\* EnvironmentService.remove: one transaction; both caches keep their entries.
RemoveEnvironment(e) ==
    /\ "removeEnvironment" \in Handlers
    /\ e \in live
    /\ live' = live \ {e}
    /\ UNCHANGED <<db, version, cache, held, req, run, writes, published>>

BeginHandler(w) ==
    \/ ConfigureFlagForEnvironment(w)
    \/ DeleteStrategy(w)
    \/ ToggleStrategyEnable(w)
    \/ BatchAddVariantsToStrategy(w)
    \/ UpdateStrategyVariant(w)
    \/ RemoveVariantFromStrategy(w)
    \/ UpdateFeatureFlag(w)
    \/ CreateVariant(w)
    \/ UpdateVariant(w)
    \/ DeleteVariant(w)
    \/ CreateSegment(w)
    \/ UpdateSegment(w)
    \/ DeleteSegment(w)
    \/ CreateAction(w)
    \/ UpdateAction(w)
    \/ DeleteAction(w)
    \/ CreateFeatureFlag(w)
    \/ DeleteFeatureFlag(w)
    \/ CreateStrategy(w)
    \/ AddVariantToStrategy(w)
    \/ UpdateStrategy(w)
    \/ CreateMultipleFeatureFlags(w)
    \/ ReorderStrategies(w)
    \/ WriteStrategyRule(w)
    \/ WriteSegmentRule(w)
    \/ ReorderActionStrategies(w)

-----------------------------------------------------------------------------
(* The awaited steps of a running handler.                                 *)

At(w, step) == run[w].todo # <<>> /\ Head(run[w].todo) = step

\* The write takes effect in the environments that still exist.
Commit(w) ==
    /\ At(w, "commit")
    /\ db' = [e \in Envs |-> [t \in Tables |->
                IF e \in live /\ <<e, t>> \in run[w].touches THEN db[e][t] + 1 ELSE db[e][t]]]
    /\ run' = [run EXCEPT ![w].todo = Tail(@)]
    /\ UNCHANGED <<version, live, cache, held, req, writes, published>>

\* EnvironmentService.incrementEnvironmentVersion, called in a loop.
Bump(w, e) ==
    /\ At(w, "bump")
    /\ e \in run[w].bumps
    /\ e \in live
    /\ version' = [version EXCEPT ![e] = @ + 1]
    /\ published' = [published EXCEPT ![e] = db[e]]
    /\ run' = [run EXCEPT ![w].bumps = @ \ {e},
                          ![w].todo = IF run[w].bumps = {e} THEN Tail(@) ELSE @]
    /\ UNCHANGED <<db, live, cache, held, req, writes>>

\* The environment was removed after the handler listed it: NotFoundException,
\* and what the handler had left (increments, invalidation, commit) is dropped.
BumpNotFound(w, e) ==
    /\ At(w, "bump")
    /\ e \in run[w].bumps
    /\ e \notin live
    /\ run' = [run EXCEPT ![w] = Idle]
    /\ UNCHANGED <<db, version, live, cache, held, req, writes, published>>

\* Slip: the step is not finished with, so the keys are listed over and over.
ListAgain(w) ==
    /\ At(w, "list")
    /\ run' = [run EXCEPT ![w].dels = Caches \X live,
                          ![w].todo = <<"delete">> \o @]
    /\ UNCHANGED <<db, version, live, cache, held, req, writes, published>>

\* AccessService.invalidateCacheByProject lists the environments first; if that
\* query fails the error is logged and nothing is deleted.
ListEnvironments(w) ==
    /\ At(w, "list")
    /\ \E keys \in {Caches \X live} \cup (IF MayFail THEN {{}} ELSE {}) :
         run' = [run EXCEPT ![w].dels = keys,
                            ![w].todo = IF keys = {} THEN Tail(Tail(@)) ELSE Tail(@)]
    /\ UNCHANGED <<db, version, live, cache, held, req, writes, published>>

CanSucceed == Redis # "down"
CanFail    == Redis # "up"

\* Then it deletes every key concurrently; a failed delete is logged and dropped.
DeleteKey(w, k, e) ==
    /\ At(w, "delete")
    /\ <<k, e>> \in run[w].dels
    /\ \/ CanSucceed /\ cache' = [cache EXCEPT ![k][e] = NoConfig]
       \/ CanFail /\ UNCHANGED cache
    /\ run' = [run EXCEPT ![w].dels = @ \ {<<k, e>>},
                          ![w].todo = IF run[w].dels = {<<k, e>>} THEN Tail(@) ELSE @]
    /\ UNCHANGED <<db, version, live, held, req, writes, published>>

\* The process stops or an awaited call throws; an open transaction rolls back.
HandlerFails(w) ==
    /\ MayFail
    /\ run[w].todo # <<>>
    /\ run' = [run EXCEPT ![w] = Idle]
    /\ UNCHANGED <<db, version, live, cache, held, req, writes, published>>

StepHandler(w) ==
    \/ Commit(w)
    \/ \E e \in Envs : Bump(w, e) \/ BumpNotFound(w, e)
    \/ ListEnvironments(w)
    \/ \E k \in Caches, e \in Envs : DeleteKey(w, k, e)

-----------------------------------------------------------------------------
(* Requests for a config: SdkService.getConfig and AccessService.getConfig. *)
(* Both are read-through; only the first checks that the environment exists *)
(* before it looks in the cache.                                            *)

Cached(c) == cache[CacheOf[c]][EnvOf[c]]

\* An SDK client fetches when it holds nothing or a poll reported changes.
MayGet(c) ==
    IF CacheOf[c] = "sdk"
    THEN /\ EnvOf[c] \in live
         /\ req[c].pc = "stale" \/ (req[c].pc = "idle" /\ held[c] = NoConfig)
    ELSE req[c].pc = "idle"

GetHit(c) ==
    /\ MayGet(c)
    /\ CanSucceed
    /\ Cached(c) # NoConfig
    /\ held' = [held EXCEPT ![c] = Cached(c)]
    /\ req' = [req EXCEPT ![c] = NoRequest]
    /\ UNCHANGED <<db, version, live, cache, run, writes, published>>

GetMiss(c) ==
    /\ MayGet(c)
    /\ CanFail \/ Cached(c) = NoConfig
    /\ req' = [req EXCEPT ![c] = [NoRequest EXCEPT !.pc = "missed"]]
    /\ UNCHANGED <<db, version, live, cache, held, run, writes, published>>

\* The environment's row is read first, its relations by queries of their own.
ReadEnvironment(c) ==
    /\ req[c].pc = "missed"
    /\ req' = [req EXCEPT ![c] =
                 IF EnvOf[c] \in live
                 THEN [NoRequest EXCEPT !.pc = "building", !.version = version[EnvOf[c]]]
                 ELSE NoRequest]
    /\ UNCHANGED <<db, version, live, cache, held, run, writes, published>>

ReadTable(c, t) ==
    /\ req[c].pc = "building"
    /\ t \notin req[c].got
    /\ req' = [req EXCEPT ![c] = [req[c] EXCEPT !.got = @ \cup {t},
                                                !.parts[t] = db[EnvOf[c]][t]]]
    /\ UNCHANGED <<db, version, live, cache, held, run, writes, published>>

\* Slip: the version is read after the tables instead of before them.
StoreVersionReadLast(c) ==
    LET built == [version |-> version[EnvOf[c]], parts |-> req[c].parts]
    IN  /\ req[c].pc = "building"
        /\ req[c].got = Tables
        /\ \/ CanSucceed /\ cache' = [cache EXCEPT ![CacheOf[c]][EnvOf[c]] = built]
           \/ CanFail /\ UNCHANGED cache
        /\ held' = [held EXCEPT ![c] = built]
        /\ req' = [req EXCEPT ![c] = NoRequest]
        /\ UNCHANGED <<db, version, live, run, writes, published>>

\* The config is stored whatever happened since it was read, then returned: one step,
\* as nobody else sees what the client holds.
\* (The access cache keeps no version; here it has one, which nothing reads.)
StoreConfig(c) ==
    LET built == [version |-> req[c].version, parts |-> req[c].parts]
    IN  /\ req[c].pc = "building"
        /\ req[c].got = Tables
        /\ \/ CanSucceed /\ cache' = [cache EXCEPT ![CacheOf[c]][EnvOf[c]] = built]
           \/ CanFail /\ UNCHANGED cache
        /\ held' = [held EXCEPT ![c] = built]
        /\ req' = [req EXCEPT ![c] = NoRequest]
        /\ UNCHANGED <<db, version, live, run, writes, published>>

\* SdkService.getConfigChanges: the version of the row, unless the cache has one.
PollVersion(c) ==
    /\ CacheOf[c] = "sdk"
    /\ req[c].pc = "idle"
    /\ held[c] # NoConfig
    /\ EnvOf[c] \in live
    /\ req' = [req EXCEPT ![c] = [NoRequest EXCEPT !.pc = "polled",
                                                   !.version = version[EnvOf[c]]]]
    /\ UNCHANGED <<db, version, live, cache, held, run, writes, published>>

HasChanges(c, answer) == answer # held[c].version

PollAnswer(c) ==
    /\ req[c].pc = "polled"
    /\ \E answer \in
            (IF CanSucceed /\ Cached(c) # NoConfig THEN {Cached(c).version} ELSE {})
            \cup (IF CanFail \/ Cached(c) = NoConfig THEN {req[c].version} ELSE {}) :
         req' = [req EXCEPT ![c] = IF HasChanges(c, answer)
                                   THEN [NoRequest EXCEPT !.pc = "stale"]
                                   ELSE NoRequest]
    /\ UNCHANGED <<db, version, live, cache, held, run, writes, published>>

StepClient(c) ==
    \/ GetHit(c)
    \/ GetMiss(c)
    \/ ReadEnvironment(c)
    \/ \E t \in Tables : ReadTable(c, t)
    \/ StoreConfig(c)
    \/ PollVersion(c)
    \/ PollAnswer(c)

\* Slip: `set' for `setex', the entry never expires.
NeverExpires(e) == FALSE /\ UNCHANGED vars

\* Entries of the access cache are stored with a TTL, those of the SDK cache
\* without.
Expire(e) ==
    /\ "access" \in Caches
    /\ cache["access"][e] # NoConfig
    /\ cache' = [cache EXCEPT !["access"][e] = NoConfig]
    /\ UNCHANGED <<db, version, live, held, req, run, writes, published>>

-----------------------------------------------------------------------------
Next ==
    \/ \E w \in Writers : BeginHandler(w) \/ StepHandler(w) \/ HandlerFails(w)
    \/ \E c \in Clients : StepClient(c)
    \/ \E e \in Envs : Expire(e) \/ RemoveEnvironment(e)

Spec == Init /\ [][Next]_vars

\* Requests that were accepted run to their end, clients keep asking, TTLs
\* elapse. Nobody has to call a handler.
Fairness ==
    /\ \A w \in Writers : WF_vars(StepHandler(w))
    /\ \A c \in Clients : WF_vars(StepClient(c))
    /\ \A e \in Envs : WF_vars(Expire(e))

FairSpec == Spec /\ Fairness

-----------------------------------------------------------------------------
(* Properties.                                                             *)

\* What was read for environment e under version v (the tables `got') is a
\* committed state, and if v is still the row's version it is no older than the
\* state v was given out for.
Covers(e, v, got, parts) ==
    /\ v <= version[e]
    /\ \A t \in got : parts[t] <= db[e][t]
    /\ v = version[e] => \A t \in got : published[e][t] <= parts[t]

\* A config that carries the environment's current version contains every
\* change that was committed before that version was given out: whatever the
\* order of a handler's steps, whoever fails and however reads and writes of
\* the cache interleave, an increment never publishes a version under which an
\* older read is stored, served or still being assembled (sdk.service.ts
\* getConfig against environment.service.ts incrementEnvironmentVersion).
VersionCoversCommits ==
    /\ \A e \in Envs, t \in Tables : published[e][t] <= db[e][t]
    /\ \A k \in Caches, e \in Envs :
         cache[k][e] # NoConfig => Covers(e, cache[k][e].version, Tables, cache[k][e].parts)
    /\ \A c \in Clients :
         held[c] # NoConfig => Covers(EnvOf[c], held[c].version, Tables, held[c].parts)
    /\ \A c \in Clients :
         req[c].pc = "building" => Covers(EnvOf[c], req[c].version, req[c].got, req[c].parts)

\* The handlers that commit before they increment, and increment every
\* environment they change.
CommitFirstHandlers ==
    {"configureFlagForEnvironment", "deleteStrategy", "toggleStrategyEnable",
     "batchAddVariantsToStrategy", "updateStrategyVariant", "removeVariantFromStrategy",
     "updateFeatureFlag", "createVariant", "updateVariant", "deleteVariant",
     "createSegment", "updateSegment", "deleteSegment", "createAction", "updateAction",
     "deleteAction", "createFeatureFlag", "deleteFeatureFlag"}

\* Handler w has committed a change and has yet to increment e's version.
Owes(w, e) == e \in run[w].bumps /\ At(w, "bump")

\* While every handler commits before it increments, a config whose version is
\* current is the current config, unless a handler is still between its commit
\* and its increment: this is what makes `since' polling sound
\* (sdk.service.ts getConfigChanges).
CurrentVersionIsCurrentConfig ==
    /\ \A k \in Caches, e \in Envs :
         cache[k][e] # NoConfig /\ cache[k][e].version = version[e] =>
             cache[k][e].parts = db[e] \/ \E w \in Writers : Owes(w, e)
    /\ \A c \in Clients :
         held[c] # NoConfig /\ held[c].version = version[EnvOf[c]] =>
             held[c].parts = db[EnvOf[c]] \/ \E w \in Writers : Owes(w, EnvOf[c])

Quiet == \A w \in Writers : run[w].todo = <<>>

\* docs/feature-flags.md:241, "Both caches are invalidated automatically when
\* flags, strategies, segments, or actions are modified": once no handler is
\* running, a cached config is the one the tables hold.
CachesInvalidated ==
    Quiet => \A k \in Caches, e \in live :
                cache[k][e] = NoConfig \/ cache[k][e].parts = db[e]

\* docs/sdk.md, "Periodically poll for config changes and re-fetch if needed":
\* once no handler is running, a client whose version is the row's version
\* (a poll answers "no changes") has the row's config.
NoChangesMeansCurrent ==
    Quiet => \A c \in Clients :
        held[c] # NoConfig /\ held[c].version = version[EnvOf[c]] =>
            held[c].parts = db[EnvOf[c]]

Fresh(c) == held[c] # NoConfig /\ held[c].parts = db[EnvOf[c]]

\* Whatever the handlers forget to invalidate and whatever Redis drops, the
\* TTL of the access cache lets every caller of the evaluation endpoints see
\* the last change in the end (access.service.ts getConfig, setex).
AccessConverges ==
    <>[](\A c \in Clients : CacheOf[c] = "access" /\ EnvOf[c] \in live => Fresh(c))

-----------------------------------------------------------------------------
(* What all of this is for.                                                *)

Feed == INSTANCE ConfigFeed WITH content <- db, floor <- published

\* Whatever the handlers, the caches and the requests do, clients see a feed of
\* versioned configs: a version never comes with less than was committed when it was
\* given out (the promise behind sdk.service.ts getConfigChanges).
FeedSpec == Feed!Spec
=============================================================================
