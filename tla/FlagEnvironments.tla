-------------------------- MODULE FlagEnvironments --------------------------
(***************************************************************************)
(* Which flags of a project have a row in which of its environments.       *)
(* EnvironmentService creates an environment first and then, in other      *)
(* statements, the rows of the flags it finds; FeatureFlagService reads    *)
(* the environments first and then creates flags with their rows in one    *)
(* transaction. Nothing creates a missing row later but configuring that   *)
(* flag in that environment. Names and keys are left out.                  *)
(***************************************************************************)
EXTENDS FiniteSets

CONSTANTS
    Flags,     \* ids; one that no call refers to is used again
    Envs,
    Requests,  \* concurrent creations
    System     \* the environments that come with the project

ASSUME SystemAssumption == System \subseteq Envs

VARIABLES
    flag,  \* flag[f] \in {"none", "live", "archived"}
    env,   \* the environments that exist
    row,   \* the pairs <<f, e>> that have a row
    req,   \* req[r]: the creation that runs in r
    gap    \* history: the pairs whose row a creation left out, see Gap below

vars == <<flag, env, row, req, gap>>

\* `envs' is the environment being created, or those that flags are created in;
\* `flags' those that get rows.
Idle == [pc |-> "idle", envs |-> {}, flags |-> {}]

Existing == {f \in Flags : flag[f] # "none"}

TypeOK ==
    /\ flag \in [Flags -> {"none", "live", "archived"}]
    /\ System \subseteq env /\ env \subseteq Envs
    /\ row \subseteq Existing \X env
    /\ gap \subseteq Existing \X env
    /\ \A r \in Requests : /\ req[r].pc \in {"idle", "list", "sync", "flags"}
                           /\ req[r].envs \subseteq Envs /\ req[r].flags \subseteq Flags

Init ==
    /\ flag = [f \in Flags |-> "none"]
    /\ env = System
    /\ row = {} /\ gap = {}
    /\ req = [r \in Requests |-> Idle]

End(r) == req' = [req EXCEPT ![r] = Idle]

\* The pairs that this step could have left a row for, and did not.
Gap(pairs) == gap' = gap \cup (pairs \ row)

-----------------------------------------------------------------------------
(* create of EnvironmentService, and syncFeatureFlagsWithNewEnvironment.   *)

CreateEnvironment(r, e) ==
    /\ req[r].pc = "idle"
    /\ e \notin env /\ \A q \in Requests : e \notin req[q].envs
    /\ env' = env \cup {e}
    /\ req' = [req EXCEPT ![r] = [pc |-> "list", envs |-> {e}, flags |-> {}]]
    /\ UNCHANGED <<flag, row, gap>>

\* Archived flags are left out. Without flags, or without the environment, it ends.
ListFlags(r) ==
    LET live == {f \in Flags : flag[f] = "live"}
    IN  /\ req[r].pc = "list"
        /\ Gap((Existing \ live) \X (req[r].envs \cap env))
        /\ IF live = {} \/ ~ req[r].envs \subseteq env THEN End(r)
           ELSE req' = [req EXCEPT ![r].pc = "sync", ![r].flags = live]
        /\ UNCHANGED <<flag, env, row>>

\* One statement: fails if the environment or any of the flags is gone.
SyncFlags(r) ==
    LET me == req[r]
    IN  /\ me.pc = "sync"
        /\ IF me.envs \subseteq env /\ me.flags \subseteq Existing
           THEN row' = row \cup (me.flags \X me.envs) /\ UNCHANGED gap
           ELSE row' = row /\ Gap((me.flags \cap Existing) \X (me.envs \cap env))
        /\ End(r)
        /\ UNCHANGED <<flag, env>>

-----------------------------------------------------------------------------
(* createFeatureFlag, and createMultipleFeatureFlags.                      *)

CreateFeatureFlags(r, new) ==
    /\ req[r].pc = "idle"
    /\ new # {} /\ new \cap Existing = {} /\ \A q \in Requests : new \cap req[q].flags = {}
    /\ req' = [req EXCEPT ![r] = [pc |-> "flags", envs |-> env, flags |-> new]]
    /\ UNCHANGED <<flag, env, row, gap>>

\* Slip: the rows are created after the loop, for the last flag.
RowsOfOne(me) == {CHOOSE f \in me.flags : TRUE} \X me.envs

NewRows(me) == me.flags \X me.envs

\* The environments whose creation still has to list the flags.
ToBeListed == UNION {req[r].envs : r \in {q \in Requests : req[q].pc = "list"}}

\* Fails if an environment that was read is gone.
CommitFlags(r) ==
    LET me == req[r]
    IN  /\ me.pc = "flags"
        /\ IF me.envs \subseteq env
           THEN /\ flag' = [f \in Flags |-> IF f \in me.flags THEN "live" ELSE flag[f]]
                /\ row' = row \cup NewRows(me)
                /\ Gap(me.flags \X ((env \ me.envs) \ ToBeListed))
           ELSE UNCHANGED <<flag, row, gap>>
        /\ End(r)
        /\ UNCHANGED env

\* The process stops between two statements, or the connection is lost.
Fails(r) ==
    /\ req[r].pc # "idle"
    /\ IF req[r].pc = "flags" THEN UNCHANGED gap ELSE Gap(Existing \X (req[r].envs \cap env))
    /\ End(r)
    /\ UNCHANGED <<flag, env, row>>

-----------------------------------------------------------------------------
(* Handlers of one statement, or of one transaction.                       *)

ConfigureFlagForEnvironment(f, e) ==
    /\ f \in Existing /\ e \in env
    /\ row' = row \cup {<<f, e>>}
    /\ UNCHANGED <<flag, env, req, gap>>

\* archiveFeatureFlag and restoreFeatureFlag.
UpdateFeatureFlag(f, archived) ==
    /\ f \in Existing
    /\ flag' = [flag EXCEPT ![f] = IF archived THEN "archived" ELSE "live"]
    /\ UNCHANGED <<env, row, req, gap>>

\* Slip: the relation does not cascade.
DeleteWithoutRows(f) ==
    /\ f \in Existing
    /\ flag' = [flag EXCEPT ![f] = "none"]
    /\ UNCHANGED <<env, row, req, gap>>

\* Rows go with their flag or environment.
DeleteFeatureFlag(f) ==
    /\ f \in Existing
    /\ flag' = [flag EXCEPT ![f] = "none"]
    /\ row' = {p \in row : p[1] # f}
    /\ gap' = {p \in gap : p[1] # f}
    /\ UNCHANGED <<env, req>>

RemoveEnvironment(e) ==
    /\ e \in env \ System
    /\ env' = env \ {e}
    /\ row' = {p \in row : p[2] # e}
    /\ gap' = {p \in gap : p[2] # e}
    /\ UNCHANGED <<flag, req>>

-----------------------------------------------------------------------------
Next ==
    \/ \E r \in Requests :
         \/ \E e \in Envs : CreateEnvironment(r, e)
         \/ ListFlags(r)
         \/ SyncFlags(r)
         \/ \E new \in SUBSET Flags : CreateFeatureFlags(r, new)
         \/ CommitFlags(r)
         \/ Fails(r)
    \/ \E f \in Flags, e \in Envs : ConfigureFlagForEnvironment(f, e)
    \/ \E f \in Flags, archived \in BOOLEAN : UpdateFeatureFlag(f, archived)
    \/ \E f \in Flags : DeleteFeatureFlag(f)
    \/ \E e \in Envs : RemoveEnvironment(e)

Spec == Init /\ [][Next]_vars

-----------------------------------------------------------------------------
(* Properties.                                                             *)

\* docs/MCP_GUIDE.md:335, "The flag is created disabled in all existing environments",
\* and the synchronisation of a new environment (environment.service.ts:101): a flag
\* misses an environment only if the environment is still being filled, was left
\* unfilled by a failure (a flag deleted meanwhile fails all of them), found the
\* flag archived, or listed the flags before this one was there and was created
\* after this one's creation had read the environments.
MissingRowsAreKnown ==
    \A f \in Existing, e \in env :
        \/ <<f, e>> \in row \cup gap
        \/ \E r \in Requests : /\ e \in req[r].envs
                               /\ req[r].pc = "list" \/ (req[r].pc = "sync" /\ f \in req[r].flags)
=============================================================================
