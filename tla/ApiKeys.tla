------------------------------ MODULE ApiKeys ------------------------------
(***************************************************************************)
(* The API keys of one project and the agent users that AGENT keys act as: *)
(* ApiKeyService creates them in statements of their own, removeMember     *)
(* takes an agent user away with its keys in one transaction, and removing *)
(* an environment leaves its keys without one. Names, hashes and origins   *)
(* are left out: no decision here depends on them.                         *)
(***************************************************************************)
EXTENDS FiniteSets

CONSTANTS
    Agents,    \* ids of agent users; one that nothing refers to is used again
    Keys,      \* ids, likewise
    Envs,
    Requests,  \* concurrent calls of create and removeMember
    None       \* no user, no environment, no key

ASSUME AgentsAssumption == None \notin Agents

VARIABLES
    agent,   \* the agent users of the organization
    member,  \* those that are members of the project
    env,     \* the environments that exist
    key,     \* key[k]: the row, or None
    req      \* req[r]: the call that runs in r

vars == <<agent, member, env, key, req>>

\* `late' (history): when the key was inserted, a removal of its user had already
\* revoked the keys it found.
Row == [agent : BOOLEAN, user : Agents \cup {None}, env : Envs \cup {None},
        revoked : BOOLEAN, late : BOOLEAN]

\* `user' is the agent of a creation or of a removal; a removal deletes the
\* membership (`left') and revokes the keys `revokes' in its transaction.
\* `overtaken' (history): an agent user was created since the call looked for one.
Idle == [pc |-> "idle", env |-> None, user |-> None, left |-> FALSE, revokes |-> {},
         overtaken |-> FALSE]

TypeOK ==
    /\ member \subseteq agent /\ agent \subseteq Agents
    /\ env \subseteq Envs
    /\ \A k \in Keys : key[k] # None => key[k] \in Row /\ key[k].user \in agent \cup {None}
    /\ \A r \in Requests : req[r].pc \in {"idle", "find", "agent", "member", "insert",
                                          "memberships", "revoke", "delete"}

Init ==
    /\ agent = {} /\ member = {}
    /\ env = Envs
    /\ key = [k \in Keys |-> None]
    /\ req = [r \in Requests |-> Idle]

Goto(r, pc) == req' = [req EXCEPT ![r].pc = pc]

-----------------------------------------------------------------------------
(* create.                                                                 *)

Create(r, e, type) ==
    /\ req[r].pc = "idle"
    /\ e \in env
    /\ req' = [req EXCEPT ![r] = [Idle EXCEPT !.pc = IF type = "AGENT" THEN "find" ELSE "insert",
                                             !.env = e]]
    /\ UNCHANGED <<agent, member, env, key>>

\* Slip: only agents of this project are looked for.
MembersOnly == member

ExistingAgents == agent

FindAgent(r) ==
    /\ req[r].pc = "find"
    /\ IF ExistingAgents = {} THEN Goto(r, "agent")
       ELSE \E u \in ExistingAgents : req' = [req EXCEPT ![r].pc = "member", ![r].user = u]
    /\ UNCHANGED <<agent, member, env, key>>

CreateAgent(r, u) ==
    /\ req[r].pc = "agent"
    /\ u \notin agent
    /\ \A q \in Requests : req[q].user # u
    /\ agent' = agent \cup {u}
    /\ req' = [q \in Requests |->
                 IF q = r THEN [req[q] EXCEPT !.pc = "member", !.user = u]
                 ELSE IF req[q].pc = "agent" THEN [req[q] EXCEPT !.overtaken = TRUE] ELSE req[q]]
    /\ UNCHANGED <<member, env, key>>

\* A foreign key: fails without the user.
UpsertMember(r) ==
    /\ req[r].pc = "member"
    /\ IF req[r].user \in agent
       THEN member' = member \cup {req[r].user} /\ Goto(r, "insert")
       ELSE member' = member /\ req' = [req EXCEPT ![r] = Idle]
    /\ UNCHANGED <<agent, env, key>>

\* environmentId is no foreign key: the environment may be gone.
InsertKey(r, k) ==
    LET u == req[r].user
    IN  /\ req[r].pc = "insert"
        /\ key[k] = None
        /\ \A q \in Requests : k \notin req[q].revokes
        /\ key' = IF u \notin agent \cup {None} THEN key
                  ELSE [key EXCEPT ![k] =
                          [agent |-> u # None, user |-> u, env |-> req[r].env, revoked |-> FALSE,
                           late |-> \E q \in Requests : req[q].pc = "delete" /\ req[q].user = u]]
        /\ req' = [req EXCEPT ![r] = Idle]
        /\ UNCHANGED <<agent, member, env>>

-----------------------------------------------------------------------------
(* removeMember, of an agent user.                                         *)

RemoveMember(r, u) ==
    /\ req[r].pc = "idle"
    /\ u \in agent
    /\ req' = [req EXCEPT ![r] = [Idle EXCEPT !.pc = "memberships", !.user = u]]
    /\ UNCHANGED <<agent, member, env, key>>

DeleteMemberships(r) ==
    /\ req[r].pc = "memberships"
    /\ req' = [req EXCEPT ![r].pc = "revoke", ![r].left = req[r].user \in member]
    /\ UNCHANGED <<agent, member, env, key>>

KeysOf(u) == {k \in Keys : key[k] # None /\ key[k].user = u}

\* Slip: joined with the environment, which may have been removed.
KeysWithEnvironment(u) == {k \in KeysOf(u) : key[k].env \in env}

Revocable(u) == KeysOf(u)

RevokeKeys(r) ==
    /\ req[r].pc = "revoke"
    /\ req' = [req EXCEPT ![r].pc = "delete", ![r].revokes = Revocable(req[r].user)]
    /\ UNCHANGED <<agent, member, env, key>>

\* Slip: memberships are no foreign keys.
NeverKept(r) == FALSE

\* By a membership that was inserted since.
Kept(r) == req[r].user \in member /\ ~ req[r].left

\* A key that was inserted since is left without user. The transaction commits with
\* this statement.
DeleteUser(r) ==
    LET u == req[r].user
    IN  /\ req[r].pc = "delete"
        /\ req' = [req EXCEPT ![r] = Idle]
        /\ IF u \notin agent \/ Kept(r)
           THEN UNCHANGED <<agent, member, key>>
           ELSE /\ agent' = agent \ {u}
                /\ member' = IF req[r].left THEN member \ {u} ELSE member
                /\ key' = [k \in Keys |->
                             IF k \notin KeysOf(u) THEN key[k]
                             ELSE [key[k] EXCEPT !.user = None,
                                                 !.revoked = @ \/ k \in req[r].revokes]]
        /\ UNCHANGED env

\* Between any two statements; a transaction is rolled back.
Fails(r) ==
    /\ req[r].pc # "idle"
    /\ req' = [req EXCEPT ![r] = Idle]
    /\ UNCHANGED <<agent, member, env, key>>

-----------------------------------------------------------------------------
(* Handlers of one statement, or of one transaction.                       *)

RevokeByKeyId(k) ==
    /\ key[k] # None
    /\ key' = [key EXCEPT ![k].revoked = TRUE]
    /\ UNCHANGED <<agent, member, env, req>>

DeleteApiKeyByKeyId(k) ==
    /\ key[k] # None
    /\ key' = [key EXCEPT ![k] = None]
    /\ UNCHANGED <<agent, member, env, req>>

RemoveEnvironment(e) ==
    /\ e \in env
    /\ env' = env \ {e}
    /\ key' = [k \in Keys |-> IF key[k] # None /\ key[k].env = e
                              THEN [key[k] EXCEPT !.env = None] ELSE key[k]]
    /\ UNCHANGED <<agent, member, req>>

\* A new id, so one that nothing refers to any more.
CreateEnvironment(e) ==
    /\ e \notin env
    /\ \A k \in Keys : key[k] # None => key[k].env # e
    /\ \A r \in Requests : req[r].env # e
    /\ env' = env \cup {e}
    /\ UNCHANGED <<agent, member, key, req>>

-----------------------------------------------------------------------------
Step(r) ==
    \/ \E e \in Envs, type \in {"AGENT", "SERVER"} : Create(r, e, type)
    \/ FindAgent(r)
    \/ \E u \in Agents : CreateAgent(r, u)
    \/ UpsertMember(r)
    \/ \E k \in Keys : InsertKey(r, k)
    \/ \E u \in Agents : RemoveMember(r, u)
    \/ DeleteMemberships(r)
    \/ RevokeKeys(r)
    \/ DeleteUser(r)
    \/ Fails(r)

Next ==
    \/ \E r \in Requests : Step(r)
    \/ \E k \in Keys : RevokeByKeyId(k) \/ DeleteApiKeyByKeyId(k)
    \/ \E e \in Envs : RemoveEnvironment(e) \/ CreateEnvironment(e)

Spec == Init /\ [][Next]_vars

-----------------------------------------------------------------------------
(* Properties.                                                             *)

\* api-key.service.ts:156, "All AGENT keys within an organization share a single
\* agent user": a second one is only created by a call that looked for the first
\* before it was there, whatever calls failed half way and whoever was removed.
SecondAgentOnlyByOvertaking ==
    [][\A r \in Requests, u \in Agents : CreateAgent(r, u) /\ agent # {} => req[r].overtaken]_vars

\* mcp-auth.guard.ts:60, "An AGENT key without a linked user should not exist":
\* one that is not revoked was inserted while its user was being removed, after
\* the removal revoked the user's keys.
UnlinkedOnlyByOverlap ==
    \A k \in Keys : key[k] # None /\ key[k].agent /\ key[k].user = None =>
        key[k].revoked \/ key[k].late
=============================================================================
