----------------------------- MODULE Ownership -----------------------------
(***************************************************************************)
(* Who owns an organization: the role and the active mark of each of its   *)
(* users, as the handlers of OrganizationService and UserService change    *)
(* them. Each handler reads what it needs, decides, and only then runs the *)
(* transaction that writes, so a decision may be stale when it is carried  *)
(* out. Names, passwords, sessions and project memberships are left out:   *)
(* no decision here depends on them.                                       *)
(***************************************************************************)
EXTENDS Naturals, FiniteSets

CONSTANTS
    Users,     \* everybody who may ever be a user of the organization
    Agents,    \* those that stand for AGENT API keys
    Founder,   \* the first owner
    Requests,  \* concurrent calls
    Handlers,  \* the names of the handlers that may be called
    Absent     \* no such user

ASSUME OwnershipAssumption ==
    /\ IsFiniteSet(Users)
    /\ Agents \subseteq Users
    /\ Founder \in Users \ Agents
    /\ Absent \notin [role : {"OWNER", "MEMBER"}, active : BOOLEAN]

VARIABLES
    user,  \* user[u]: the row of user u, or Absent
    req    \* req[r]: the call that runs in r

vars == <<user, req>>

Roles == {"OWNER", "MEMBER"}
Row   == [role : Roles, active : BOOLEAN]

\* A call that decided to write (`op', about user `u', and `from' whom for a
\* transfer), or that answers "last owner".
Call == [pc : {"write", "refused"}, op : {"add", "role", "remove", "delete", "transfer"},
         u : Users, from : Users, role : Roles]
Idle == [pc |-> "idle"]

TypeOK ==
    /\ user \in [Users -> Row \cup {Absent}]
    /\ req \in [Requests -> Call \cup {Idle}]

Init ==
    /\ user = [u \in Users |-> IF u = Founder THEN [role |-> "OWNER", active |-> TRUE] ELSE Absent]
    /\ req = [r \in Requests |-> Idle]

Exists(u) == user[u] # Absent
IsOwner(u) == Exists(u) /\ user[u].role = "OWNER"
ActiveOwners == {u \in Users : IsOwner(u) /\ user[u].active}

-----------------------------------------------------------------------------
(* What the handlers count before they demote, remove or delete an owner.  *)

\* organization.count({ id, users: { some: ... } }): how many organizations of
\* this id have an active owner.
OwnerCount == IF ActiveOwners = {} THEN 0 ELSE 1

LastOwner == OwnerCount <= 1

\* Slip: users that were deactivated are counted too.
LastUserWithRole == Cardinality({u \in Users : IsOwner(u)}) <= 1

\* deleteUser counts users.
LastActiveOwner == Cardinality(ActiveOwners) <= 1

-----------------------------------------------------------------------------
(* The handlers up to their write.                                         *)

Decide(r, name, call) ==
    /\ name \in Handlers
    /\ req[r] = Idle
    /\ req' = [req EXCEPT ![r] = call]
    /\ UNCHANGED user

To(op, u, from, role)      == [pc |-> "write", op |-> op, u |-> u, from |-> from, role |-> role]
Refused(op, u, from, role) == [pc |-> "refused", op |-> op, u |-> u, from |-> from, role |-> role]

\* A new e-mail address, or the address of a user that deleted the account.
AddUserToOrganization(r, u, role) ==
    /\ u \notin Agents
    /\ Exists(u) => ~ user[u].active
    /\ Decide(r, "addUserToOrganization", To("add", u, u, role))

\* An active agent user is reused: nothing to write.
CreateAgentUser(r, u) ==
    /\ u \in Agents
    /\ ~ Exists(u)
    /\ \A a \in Agents : Exists(a) => ~ user[a].active
    /\ Decide(r, "createAgentUser", To("add", u, u, "MEMBER"))

UpdateOrganizationRole(r, u, role) ==
    /\ Exists(u)
    /\ u \notin Agents
    /\ IF IsOwner(u) /\ role # "OWNER" /\ LastOwner
       THEN Decide(r, "updateOrganizationRole", Refused("role", u, u, role))
       ELSE Decide(r, "updateOrganizationRole", To("role", u, u, role))

RemoveMember(r, current, u) ==
    /\ Exists(u)
    /\ IF IsOwner(u) /\ LastOwner
       THEN Decide(r, "removeMember", Refused("remove", u, u, "MEMBER"))
       ELSE current # u /\ Decide(r, "removeMember", To("remove", u, u, "MEMBER"))

\* Of oneself; the access token outlives the account.
DeleteUser(r, u) ==
    /\ u \notin Agents
    /\ Exists(u)
    /\ IF IsOwner(u) /\ LastActiveOwner
       THEN Decide(r, "deleteUser", Refused("delete", u, u, "MEMBER"))
       ELSE Decide(r, "deleteUser", To("delete", u, u, "MEMBER"))

TransferOwnership(r, from, u) ==
    /\ from # u
    /\ IsOwner(from)
    /\ Exists(u)
    /\ Decide(r, "transferOwnership", To("transfer", u, from, "OWNER"))

-----------------------------------------------------------------------------
(* The write, one transaction. It fails if a row it names is gone, or for  *)
(* an insert, there already, and may fail for any other reason.            *)

\* An added user is new or was inactive; with one call at a time it is still so here.
Written(call) ==
    \/ /\ call.op = "add"
       /\ user' = [user EXCEPT ![call.u] = [role |-> call.role, active |-> TRUE]]
    \/ call.op = "role"     /\ user' = [user EXCEPT ![call.u].role = call.role]
    \/ call.op = "remove"   /\ user' = [user EXCEPT ![call.u] = Absent]
    \/ call.op = "delete"   /\ user' = [user EXCEPT ![call.u].active = FALSE]
    \/ /\ call.op = "transfer"
       /\ user' = [user EXCEPT ![call.from].role = "MEMBER", ![call.u].role = "OWNER"]

Fails(call) ==
    IF call.op = "add" THEN Exists(call.u) /\ user[call.u].active
                       ELSE ~ Exists(call.u) \/ ~ Exists(call.from)

Write(r) ==
    /\ req[r].pc = "write"
    /\ \/ UNCHANGED user
       \/ ~ Fails(req[r]) /\ Written(req[r])
    /\ req' = [req EXCEPT ![r] = Idle]

Refuse(r) ==
    /\ req[r].pc = "refused"
    /\ req' = [req EXCEPT ![r] = Idle]
    /\ UNCHANGED user

-----------------------------------------------------------------------------
Next == \E r \in Requests :
    \/ \E u \in Users, role \in Roles : AddUserToOrganization(r, u, role)
    \/ \E u \in Users : CreateAgentUser(r, u)
    \/ \E u \in Users, role \in Roles : UpdateOrganizationRole(r, u, role)
    \/ \E current, u \in Users : RemoveMember(r, current, u)
    \/ \E u \in Users : DeleteUser(r, u)
    \/ \E from, u \in Users : TransferOwnership(r, from, u)
    \/ Write(r)
    \/ Refuse(r)

Spec == Init /\ [][Next]_vars

-----------------------------------------------------------------------------
(* Properties.                                                             *)

\* What the three "last owner" checks are there for (organization.service.ts
\* :245 and :352, user.service.ts:156): there is always an active user who owns
\* the organization.
HasActiveOwner == ActiveOwners # {}

\* The "last owner" checks are enough for every call but one, whatever roles
\* were given, taken and restored before: while calls run one at a time, an
\* organization loses its last active owner only when transferOwnership
\* (organization.service.ts:430) goes to a user that is not active.
OwnerLostOnlyByTransfer ==
    [][ HasActiveOwner /\ ~ HasActiveOwner' =>
            \E r \in Requests : /\ req[r].pc = "write" /\ req[r].op = "transfer"
                               /\ Exists(req[r].u) /\ ~ user[req[r].u].active ]_vars

\* organization.service.ts:245 and :352: a call that is refused with "Cannot
\* demote" or "Cannot remove the last owner of the organization" is about the
\* last one.
RefusedOnlyLastOwner ==
    \A r \in Requests : req[r].pc = "refused" => Cardinality(ActiveOwners) <= 1
=============================================================================
