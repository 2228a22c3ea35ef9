-------------------------- MODULE OwnershipProofs --------------------------
(***************************************************************************)
(* What the "last owner" checks achieve, for any number of users, while    *)
(* handlers run one at a time: an organization loses its last active owner *)
(* only by a transfer to a user that is not active. So one that starts     *)
(* with an active owner always has one if nobody deletes an account or     *)
(* nobody transfers the ownership. Then, of the sessions of one account,   *)
(* for any finite set of logins that interleave: how far they can exceed   *)
(* the limit, and what they can leave to an account that was deactivated.  *)
(***************************************************************************)
EXTENDS MCOwnership, TLAPS, FiniteSetTheorems

\* At most one call at a time.
Serial == \A r, s \in Requests : r = s

\* What a call that is about to write knows of the users: nothing was written
\* since it decided.
AddFits(call) == call.op = "add" => (Exists(call.u) => ~ user[call.u].active)
RoleFits(call) == call.op = "role" => (IsOwner(call.u) => call.role = "OWNER")
RemoveFits(call) == call.op = "remove" => ~ IsOwner(call.u)
DeleteFits(call) ==
    call.op = "delete" =>
        /\ "deleteUser" \in Handlers
        /\ IsOwner(call.u) => ~ LastActiveOwner
TransferFits(call) ==
    call.op = "transfer" => "transferOwnership" \in Handlers /\ call.from # call.u

DecisionFits(r) ==
    req[r].pc = "write" =>
        /\ AddFits(req[r])
        /\ RoleFits(req[r])
        /\ RemoveFits(req[r])
        /\ DeleteFits(req[r])
        /\ TransferFits(req[r])

Known ==
    /\ TypeOK
    /\ \A r \in Requests : DecisionFits(r)

-----------------------------------------------------------------------------
\* No call runs yet.
LEMMA KnownInit == Init => Known
<1> USE OwnershipAssumption
<1>1. Init => TypeOK
  BY DEF Init, TypeOK, Row, Roles
<1>2. Init => \A r \in Requests : DecisionFits(r)
  BY DEF Init, DecisionFits, Idle
<1> QED BY <1>1, <1>2 DEF Known

\* The organization count is never more than one, so the "last owner" check of
\* updateOrganizationRole and removeMember refuses about every owner.
LEMMA LastOwnerAlways == LastOwner
BY DEF LastOwner, OwnerCount

\* A decision leaves the users alone, so what it was based on still holds.
LEMMA DecideKeeps ==
    ASSUME Known, NEW r \in Requests, NEW name, NEW call \in Call, Decide(r, name, call),
           call.pc = "write" =>
               /\ AddFits(call)
               /\ RoleFits(call)
               /\ RemoveFits(call)
               /\ DeleteFits(call)
               /\ TransferFits(call)
    PROVE  Known' /\ user' = user
<1>1. user' = user /\ req' = [req EXCEPT ![r] = call]
  BY DEF Decide
<1>2. TypeOK'
  BY <1>1 DEF Known, TypeOK
<1>3. ASSUME NEW s \in Requests PROVE DecisionFits(s)'
  <2>1. req'[s] = IF s = r THEN call ELSE req[s]
    BY <1>1 DEF Known, TypeOK
  <2>2. DecisionFits(s)
    BY DEF Known
  <2> QED
    BY <1>1, <2>1, <2>2
    DEF DecisionFits, AddFits, RoleFits, RemoveFits, DeleteFits, TransferFits, LastActiveOwner,
        ActiveOwners, IsOwner, Exists
<1> QED BY <1>1, <1>2, <1>3 DEF Known

\* Refusing writes nothing, so a refusal has nothing to fit.
LEMMA RefusalKeeps ==
    ASSUME Known, NEW r \in Requests, NEW name, NEW op \in {"role", "remove", "delete"},
           NEW u \in Users, NEW role \in Roles, Decide(r, name, Refused(op, u, u, role))
    PROVE  Known' /\ user' = user
<1>1. Refused(op, u, u, role) \in Call /\ Refused(op, u, u, role).pc # "write"
  BY DEF Refused, Call
<1> HIDE DEF Refused
<1> QED BY <1>1, DecideKeeps

\* What To builds is a call with the parts it was given.
LEMMA ToIsCall ==
    ASSUME NEW op \in {"add", "role", "remove", "delete", "transfer"}, NEW u \in Users,
           NEW from \in Users, NEW role \in Roles
    PROVE  /\ To(op, u, from, role) \in Call
           /\ To(op, u, from, role).op = op
           /\ To(op, u, from, role).u = u
           /\ To(op, u, from, role).from = from
           /\ To(op, u, from, role).role = role
BY DEF To, Call

\* Each handler's decision fits.
LEMMA DecisionsKeep ==
    ASSUME Known, NEW r \in Requests, NEW u \in Users, NEW from \in Users, NEW role \in Roles,
           \/ AddUserToOrganization(r, u, role)
           \/ CreateAgentUser(r, u)
           \/ UpdateOrganizationRole(r, u, role)
           \/ RemoveMember(r, from, u)
           \/ DeleteUser(r, u)
           \/ TransferOwnership(r, from, u)
    PROVE  Known' /\ user' = user
<1>m. "MEMBER" \in Roles /\ "OWNER" \in Roles
  BY DEF Roles
<1> USE DEF AddFits, RoleFits, RemoveFits, DeleteFits, TransferFits
<1>1. CASE AddUserToOrganization(r, u, role)
  <2> DEFINE call == To("add", u, u, role)
  <2>1. call \in Call /\ call.op = "add" /\ call.u = u
    BY ToIsCall
  <2>2. Decide(r, "addUserToOrganization", call) /\ (Exists(u) => ~ user[u].active)
    BY <1>1 DEF AddUserToOrganization
  <2> HIDE DEF call
  <2> QED BY <2>1, <2>2, DecideKeeps
<1>2. CASE CreateAgentUser(r, u)
  <2> DEFINE call == To("add", u, u, "MEMBER")
  <2>1. call \in Call /\ call.op = "add" /\ call.u = u
    BY <1>m, ToIsCall
  <2>2. Decide(r, "createAgentUser", call) /\ ~ Exists(u)
    BY <1>2 DEF CreateAgentUser
  <2> HIDE DEF call
  <2> QED BY <2>1, <2>2, DecideKeeps
<1>3. CASE UpdateOrganizationRole(r, u, role)
  <2> DEFINE call == To("role", u, u, role)
  <2>1. call \in Call /\ call.op = "role" /\ call.u = u /\ call.role = role
    BY ToIsCall
  <2>2. \/ Decide(r, "updateOrganizationRole", Refused("role", u, u, role))
        \/ /\ Decide(r, "updateOrganizationRole", call)
           /\ IsOwner(u) => role = "OWNER"
    BY <1>3, LastOwnerAlways DEF UpdateOrganizationRole
  <2> HIDE DEF call
  <2> QED BY <2>1, <2>2, DecideKeeps, RefusalKeeps
<1>4. CASE RemoveMember(r, from, u)
  <2> DEFINE call == To("remove", u, u, "MEMBER")
  <2>1. call \in Call /\ call.op = "remove" /\ call.u = u
    BY <1>m, ToIsCall
  <2>2. \/ Decide(r, "removeMember", Refused("remove", u, u, "MEMBER"))
        \/ Decide(r, "removeMember", call) /\ ~ IsOwner(u)
    BY <1>4, LastOwnerAlways DEF RemoveMember
  <2> HIDE DEF call
  <2> QED BY <1>m, <2>1, <2>2, DecideKeeps, RefusalKeeps
<1>5. CASE DeleteUser(r, u)
  <2> DEFINE call == To("delete", u, u, "MEMBER")
  <2>1. call \in Call /\ call.op = "delete" /\ call.u = u
    BY <1>m, ToIsCall
  <2>2. \/ Decide(r, "deleteUser", Refused("delete", u, u, "MEMBER"))
        \/ /\ Decide(r, "deleteUser", call)
           /\ IsOwner(u) => ~ LastActiveOwner
    BY <1>5 DEF DeleteUser
  <2>3. "deleteUser" \in Handlers
    BY <2>2 DEF Decide
  <2> HIDE DEF call
  <2> QED BY <1>m, <2>1, <2>2, <2>3, DecideKeeps, RefusalKeeps
<1>6. CASE TransferOwnership(r, from, u)
  <2> DEFINE call == To("transfer", u, from, "OWNER")
  <2>1. call \in Call /\ call.op = "transfer" /\ call.u = u /\ call.from = from
    BY <1>m, ToIsCall
  <2>2. /\ Decide(r, "transferOwnership", call)
        /\ "transferOwnership" \in Handlers
        /\ from # u
    BY <1>6 DEF TransferOwnership, Decide
  <2> HIDE DEF call
  <2> QED BY <2>1, <2>2, DecideKeeps
<1> QED BY <1>1, <1>2, <1>3, <1>4, <1>5, <1>6

-----------------------------------------------------------------------------
\* Whom a write goes to when it takes the last active owner.
ToInactive(call) ==
    call.op = "transfer" /\ Exists(call.u) /\ ~ user[call.u].active

\* A write that does not fail gives every user a row again, or none.
LEMMA WrittenTyped ==
    ASSUME TypeOK, NEW call \in Call, ~ Fails(call), Written(call)
    PROVE  user' \in [Users -> Row \cup {Absent}]
<1> USE OwnershipAssumption
<1>t. /\ user \in [Users -> Row \cup {Absent}]
      /\ call.u \in Users /\ call.from \in Users /\ call.role \in Roles
      /\ "MEMBER" \in Roles /\ "OWNER" \in Roles
      /\ Absent \notin Row
  BY DEF TypeOK, Call, Row, Roles
<1>1. ASSUME call.op \in {"role", "delete", "transfer"}
      PROVE  user[call.u] \in Row /\ user[call.from] \in Row
  BY <1>t, <1>1 DEF Fails, Exists
<1>2. CASE call.op = "add"
  <2>1. user' = [user EXCEPT ![call.u] = [role |-> call.role, active |-> TRUE]]
    BY <1>2 DEF Written
  <2>2. [role |-> call.role, active |-> TRUE] \in Row
    BY <1>t DEF Row
  <2> QED BY <1>t, <2>1, <2>2
<1>3. CASE call.op = "role"
  <2>1. user' = [user EXCEPT ![call.u].role = call.role]
    BY <1>3 DEF Written
  <2> QED BY <1>t, <1>1, <1>3, <2>1 DEF Row
<1>4. CASE call.op = "remove"
  BY <1>t, <1>4 DEF Written
<1>5. CASE call.op = "delete"
  <2>1. user' = [user EXCEPT ![call.u].active = FALSE]
    BY <1>5 DEF Written
  <2> QED BY <1>t, <1>1, <1>5, <2>1 DEF Row
<1>6. CASE call.op = "transfer"
  <2>1. user' = [user EXCEPT ![call.from].role = "MEMBER", ![call.u].role = "OWNER"]
    BY <1>6 DEF Written
  <2> DEFINE first == [user EXCEPT ![call.from].role = "MEMBER"]
  <2>2. first \in [Users -> Row \cup {Absent}] /\ first[call.u] \in Row
    BY <1>t, <1>1, <1>6 DEF Row
  <2>3. user' = [first EXCEPT ![call.u].role = "OWNER"]
    BY <2>1
  <2> HIDE DEF first
  <2> QED BY <1>t, <2>2, <2>3 DEF Row
<1> QED BY <1>2, <1>3, <1>4, <1>5, <1>6 DEF Call

\* A write that fits its decision leaves an active owner where there was one,
\* unless it transfers the ownership to a user that is not active.
LEMMA WrittenKeepsOwner ==
    ASSUME TypeOK, NEW call \in Call, ~ Fails(call), Written(call),
           AddFits(call), RoleFits(call), RemoveFits(call), DeleteFits(call), TransferFits(call)
    PROVE  /\ user' \in [Users -> Row \cup {Absent}]
           /\ HasActiveOwner => HasActiveOwner' \/ ToInactive(call)
<1> USE OwnershipAssumption
<1>t. /\ user \in [Users -> Row \cup {Absent}]
      /\ call.u \in Users /\ call.from \in Users /\ call.role \in Roles
      /\ "MEMBER" \in Roles /\ "OWNER" \in Roles
      /\ Absent \notin Row
  BY DEF TypeOK, Call, Row, Roles
<1>r. user' \in [Users -> Row \cup {Absent}]
  BY WrittenTyped
<1>w. (\E v \in Users : user'[v] # Absent /\ user'[v].role = "OWNER" /\ user'[v].active)
      => HasActiveOwner'
  BY DEF HasActiveOwner, ActiveOwners, IsOwner, Exists
<1> SUFFICES ASSUME HasActiveOwner, ~ ToInactive(call) PROVE HasActiveOwner'
  BY <1>r
<1>o. PICK o \in Users : o \in ActiveOwners
  BY DEF HasActiveOwner, ActiveOwners
<1>p. user[o] # Absent /\ user[o].role = "OWNER" /\ user[o].active
  BY <1>o DEF ActiveOwners, IsOwner, Exists
<1>1. CASE call.op = "add"
  <2>1. user' = [user EXCEPT ![call.u] = [role |-> call.role, active |-> TRUE]]
    BY <1>1 DEF Written
  <2>2. call.u # o
    BY <1>1, <1>p DEF Fails, Exists
  <2> QED BY <1>t, <1>p, <1>w, <2>1, <2>2
<1>2. CASE call.op = "role"
  <2>1. user' = [user EXCEPT ![call.u].role = call.role]
    BY <1>2 DEF Written
  <2>2. call.u = o => call.role = "OWNER"
    BY <1>2, <1>p DEF RoleFits, IsOwner, Exists
  <2> QED BY <1>t, <1>p, <1>w, <2>1, <2>2 DEF Row
<1>3. CASE call.op = "remove"
  <2>1. user' = [user EXCEPT ![call.u] = Absent]
    BY <1>3 DEF Written
  <2>2. call.u # o
    BY <1>3, <1>p DEF RemoveFits, IsOwner, Exists
  <2> QED BY <1>t, <1>p, <1>w, <2>1, <2>2
<1>4. CASE call.op = "delete"
  <2>1. user' = [user EXCEPT ![call.u].active = FALSE]
    BY <1>4 DEF Written
  <2>2. PICK v \in Users : v \in ActiveOwners /\ v # call.u
    <3>1. CASE o # call.u
      BY <1>o, <3>1
    <3>2. CASE o = call.u
      <4>1. ~ (Cardinality(ActiveOwners) <= 1)
        BY <1>4, <1>p, <3>2 DEF DeleteFits, IsOwner, Exists, LastActiveOwner
      <4>2. ActiveOwners # {o}
        BY <4>1, FS_Singleton
      <4> QED BY <1>o, <3>2, <4>2 DEF ActiveOwners
    <3> QED BY <3>1, <3>2
  <2> QED BY <1>t, <1>w, <2>1, <2>2 DEF ActiveOwners, IsOwner, Exists
<1>5. CASE call.op = "transfer"
  <2>1. /\ user' = [user EXCEPT ![call.from].role = "MEMBER", ![call.u].role = "OWNER"]
        /\ user[call.u] \in Row
        /\ call.from # call.u
    BY <1>5, <1>t DEF Written, Fails, Exists, TransferFits
  <2>2. user[call.u].active
    BY <1>5 DEF ToInactive, Fails
  <2>3. user'[call.u] # Absent /\ user'[call.u].role = "OWNER" /\ user'[call.u].active
    BY <1>t, <2>1, <2>2 DEF Row
  <2> QED BY <1>t, <1>w, <2>3
<1> QED BY <1>1, <1>2, <1>3, <1>4, <1>5 DEF Call

\* After the only call there is, no decision is pending.
LEMMA WriteKeeps ==
    ASSUME Known, Serial, NEW r \in Requests, Write(r)
    PROVE  /\ Known'
           /\ HasActiveOwner => HasActiveOwner' \/ ToInactive(req[r])
<1>1. req[r].pc = "write" /\ req[r] \in Call
  BY DEF Write, Known, TypeOK, Idle
<1>2. req' = [s \in Requests |-> Idle]
  BY DEF Write, Serial, Known, TypeOK
<1>3. /\ user' \in [Users -> Row \cup {Absent}]
      /\ HasActiveOwner => HasActiveOwner' \/ ToInactive(req[r])
  <2>1. CASE UNCHANGED user
    BY <2>1 DEF Known, TypeOK, HasActiveOwner, ActiveOwners, IsOwner, Exists
  <2>2. CASE ~ Fails(req[r]) /\ Written(req[r])
    <3>1. DecisionFits(r) /\ TypeOK
      BY DEF Known
    <3> QED BY <1>1, <2>2, <3>1, WrittenKeepsOwner DEF DecisionFits
  <2> QED BY <2>1, <2>2 DEF Write
<1>4. TypeOK' /\ \A s \in Requests : DecisionFits(s)'
  BY <1>2, <1>3 DEF TypeOK, DecisionFits, Idle
<1> QED BY <1>3, <1>4 DEF Known

LEMMA RefuseKeeps ==
    ASSUME Known, Serial, NEW r \in Requests, Refuse(r)
    PROVE  Known' /\ user' = user
<1>1. req' = [s \in Requests |-> Idle] /\ user' = user
  BY DEF Refuse, Serial, Known, TypeOK
<1>2. TypeOK'
  BY <1>1 DEF Known, TypeOK
<1>3. \A s \in Requests : DecisionFits(s)'
  BY <1>1 DEF DecisionFits, Idle
<1> QED BY <1>1, <1>2, <1>3 DEF Known

\* Every step keeps what calls know; only a write changes users.
LEMMA EveryStep ==
    ASSUME Known, Serial, [Next]_vars
    PROVE  /\ Known'
           /\ user' = user \/ \E r \in Requests : Write(r)
<1>1. CASE UNCHANGED vars
  BY <1>1
  DEF vars, Known, TypeOK, DecisionFits, AddFits, RoleFits, RemoveFits, DeleteFits,
      TransferFits, LastActiveOwner, ActiveOwners, IsOwner, Exists
<1>2. CASE Next
  <2>1. PICK r \in Requests :
          \/ \E u, from \in Users, role \in Roles :
               \/ AddUserToOrganization(r, u, role)
               \/ CreateAgentUser(r, u)
               \/ UpdateOrganizationRole(r, u, role)
               \/ RemoveMember(r, from, u)
               \/ DeleteUser(r, u)
               \/ TransferOwnership(r, from, u)
          \/ Write(r)
          \/ Refuse(r)
    <3>1. "OWNER" \in Roles
      BY DEF Roles
    <3> QED BY <1>2, <3>1 DEF Next
  <2> QED BY <2>1, DecisionsKeep, WriteKeeps, RefuseKeeps
<1> QED BY <1>1, <1>2

\* A step that takes the last active owner is a transfer to an inactive user.
LEMMA OwnerLost ==
    ASSUME Known, Serial, [Next]_vars, HasActiveOwner, ~ HasActiveOwner'
    PROVE  \E r \in Requests : Write(r) /\ req[r].pc = "write" /\ ToInactive(req[r])
<1>1. user' # user
  BY DEF HasActiveOwner, ActiveOwners, IsOwner, Exists
<1>2. PICK r \in Requests : Write(r)
  BY <1>1, EveryStep
<1> QED BY <1>2, WriteKeeps DEF Write

\* While calls run one at a time, the "last owner" checks of
\* organization.service.ts and user.service.ts suffice for every handler but
\* transferOwnership, and for that one too unless the new owner is inactive.
THEOREM LostOnlyByTransfer ==
    ASSUME Serial
    PROVE  Spec => OwnerLostOnlyByTransfer
<1>1. Known /\ [Next]_vars => Known'
  BY EveryStep
<1>2. Known /\ [Next]_vars =>
        [ HasActiveOwner /\ ~ HasActiveOwner' =>
            \E r \in Requests : /\ req[r].pc = "write" /\ req[r].op = "transfer"
                               /\ Exists(req[r].u) /\ ~ user[req[r].u].active ]_vars
  BY OwnerLost DEF ToInactive
<1> QED BY KnownInit, <1>1, <1>2, PTL DEF Spec, OwnerLostOnlyByTransfer

-----------------------------------------------------------------------------
\* Deleting accounts and transferring ownership do not both happen.
NotBoth == "transferOwnership" \notin Handlers \/ "deleteUser" \notin Handlers

\* Only deleteUser deactivates.
PresentAreActive ==
    "deleteUser" \notin Handlers => \A u \in Users : Exists(u) => user[u].active

\* The founder is active.
LEMMA OwnerInit == Init => HasActiveOwner /\ PresentAreActive
<1> SUFFICES ASSUME Init PROVE HasActiveOwner /\ PresentAreActive
  OBVIOUS
<1> USE OwnershipAssumption
<1>1. [role |-> "OWNER", active |-> TRUE] # Absent
  <2>1. [role |-> "OWNER", active |-> TRUE] \in [role : {"OWNER", "MEMBER"}, active : BOOLEAN]
    OBVIOUS
  <2> QED BY <2>1, Zenon
<1>2. user[Founder] = [role |-> "OWNER", active |-> TRUE]
  BY DEF Init
<1>3. Founder \in ActiveOwners
  BY <1>1, <1>2 DEF ActiveOwners, IsOwner, Exists
<1>4. PresentAreActive
  BY DEF Init, PresentAreActive, Exists
<1> QED BY <1>3, <1>4 DEF HasActiveOwner

\* No other handler leaves a user that is present and not active.
LEMMA ActiveStep ==
    ASSUME Known, Serial, [Next]_vars, PresentAreActive
    PROVE  PresentAreActive'
<1> USE OwnershipAssumption
<1>1. CASE user' = user
  BY <1>1 DEF PresentAreActive, Exists
<1>2. ASSUME NEW r \in Requests, Write(r), user' # user PROVE PresentAreActive'
  <2> DEFINE call == req[r]
  <2>1. /\ user \in [Users -> Row \cup {Absent}]
        /\ call \in Call
        /\ call.u \in Users /\ call.from \in Users
        /\ Absent \notin Row
    BY <1>2 DEF Known, TypeOK, Write, Idle, Call, Row, Roles
  <2>2. ~ Fails(call) /\ Written(call) /\ DeleteFits(call) /\ TransferFits(call)
    BY <1>2 DEF Known, DecisionFits, Write
  <2> HIDE DEF call
  <2>3. ASSUME call.op \in {"role", "transfer"}
        PROVE  user[call.u] \in Row /\ user[call.from] \in Row
    BY <2>1, <2>2, <2>3 DEF Fails, Exists
  <2>4. CASE call.op = "add"
    <3>1. user' = [user EXCEPT ![call.u] = [role |-> call.role, active |-> TRUE]]
      BY <2>2, <2>4 DEF Written
    <3> QED BY <2>1, <3>1 DEF PresentAreActive, Exists
  <2>5. CASE call.op = "role"
    BY <2>1, <2>2, <2>3, <2>5 DEF Written, PresentAreActive, Exists, Row
  <2>6. CASE call.op = "remove"
    BY <2>1, <2>2, <2>6 DEF Written, PresentAreActive, Exists
  <2>7. CASE call.op = "delete"
    BY <2>2, <2>7 DEF DeleteFits, PresentAreActive
  <2>8. CASE call.op = "transfer"
    <3>1. user' = [user EXCEPT ![call.from].role = "MEMBER", ![call.u].role = "OWNER"]
      BY <2>2, <2>8 DEF Written
    <3>2. call.from # call.u /\ user[call.u] \in Row /\ user[call.from] \in Row
      BY <2>2, <2>3, <2>8 DEF TransferFits
    <3>3. \A v \in Users : Exists(v)' => user'[v].active = user[v].active /\ Exists(v)
      <4> SUFFICES ASSUME NEW v \in Users, Exists(v)'
                   PROVE  user'[v].active = user[v].active /\ Exists(v)
        OBVIOUS
      <4>1. CASE v = call.u
        BY <2>1, <3>1, <3>2, <4>1 DEF Exists, Row
      <4>2. CASE v = call.from
        BY <2>1, <3>1, <3>2, <4>2 DEF Exists, Row
      <4>3. CASE v # call.u /\ v # call.from
        BY <2>1, <3>1, <4>3 DEF Exists
      <4> QED BY <4>1, <4>2, <4>3
    <3> QED BY <3>3 DEF PresentAreActive
  <2> QED BY <2>1, <2>4, <2>5, <2>6, <2>7, <2>8 DEF Call
<1> QED BY <1>1, <1>2, EveryStep

\* While calls run one at a time, and accounts are not deleted where ownership
\* is transferred, every organization always has an active owner.
THEOREM OwnerRemains ==
    ASSUME Serial, NotBoth
    PROVE  Spec => []HasActiveOwner
<1> DEFINE Inv == Known /\ HasActiveOwner /\ PresentAreActive
<1>1. Init => Inv
  BY KnownInit, OwnerInit
<1>2. Inv /\ [Next]_vars => Inv'
  <2> SUFFICES ASSUME Inv, [Next]_vars PROVE Inv'
    OBVIOUS
  <2>1. Known' /\ PresentAreActive'
    BY EveryStep, ActiveStep
  <2>2. ASSUME ~ HasActiveOwner' PROVE FALSE
    <3>1. PICK r \in Requests : Write(r) /\ req[r].pc = "write" /\ ToInactive(req[r])
      BY <2>2, OwnerLost
    <3>2. "transferOwnership" \in Handlers
      BY <3>1 DEF Known, DecisionFits, TransferFits, ToInactive
    <3>3. req[r].u \in Users
      BY <3>1 DEF Known, TypeOK, Idle, Call
    <3> QED BY <3>1, <3>2, <3>3 DEF NotBoth, PresentAreActive, ToInactive
  <2> QED BY <2>1, <2>2
<1>3. Inv => HasActiveOwner
  OBVIOUS
<1> QED BY <1>1, <1>2, <1>3, PTL DEF Spec
-----------------------------------------------------------------------------
(* The sessions of an account, for any number of logins and refreshes.     *)

\* Sessions counts with the same operators as this module.
LEMMA SameCounting ==
    ASSUME NEW S
    PROVE  /\ Account!Cardinality(S) = Cardinality(S)
           /\ Account!IsFiniteSet(S) = IsFiniteSet(S)
<1>1. Account!IsFiniteSet(S) = IsFiniteSet(S)
  BY DEF Account!IsFiniteSet, IsFiniteSet
<1>2. Account!Cardinality(S) = Cardinality(S)
  BY DEF Account!Cardinality, Cardinality
<1> QED BY <1>1, <1>2

\* What the assumption says, in the operators of this module.
LEMMA Limits == IsFiniteSet(Logins) /\ MaxPerUser \in Nat \ {0} /\ NoSession \notin Ids
BY AccountAssumption, SameCounting DEF Account!SessionsAssumption

\* Where a count says something, the table is finite and ordered.
Table ==
    /\ Account!Rows \subseteq Ids
    /\ newer \in [Account!Rows -> SUBSET Account!Rows]
    /\ Account!InOrder
    /\ IsFiniteSet(Account!Rows)

\* Deleting keeps the order of what is left.
LEMMA Deletes ==
    ASSUME Table, NEW ids, Account!Delete(ids)
    PROVE  /\ Table'
           /\ Account!Rows' = Account!Rows \ ids
           /\ ended' = [revoked |-> ended.revoked \ ids, expired |-> ended.expired \ ids]
<1> USE DEF Account!Rows
<1>1. newer' = [id \in Account!Rows \ ids |-> newer[id] \ ids]
  BY DEF Account!Delete
<1>2. Account!Rows' = Account!Rows \ ids
  BY <1>1
<1>3. \A x \in Account!Rows' : newer'[x] = newer[x] \ ids
  BY <1>1
<1>4. newer' \in [Account!Rows' -> SUBSET Account!Rows']
  BY <1>1, <1>2 DEF Table
<1>5. Account!InOrder'
  BY <1>2, <1>3 DEF Table, Account!InOrder
<1>6. IsFiniteSet(Account!Rows')
  BY <1>2, FS_Subset DEF Table
<1> QED BY <1>2, <1>4, <1>5, <1>6 DEF Table, Account!Delete

\* A session that comes before all others keeps the order, whether it is new or not.
LEMMA ComesFirst ==
    ASSUME Table, NEW id \in Ids, Account!MostRecent(id)
    PROVE  Table' /\ Account!Rows' = Account!Rows \cup {id}
<1> USE DEF Account!Rows
<1>1. newer' = [x \in Account!Rows \cup {id} |-> IF x = id THEN {} ELSE newer[x] \cup {id}]
  BY DEF Account!MostRecent
<1>2. Account!Rows' = Account!Rows \cup {id}
  BY <1>1
<1>3. \A x \in Account!Rows' : newer'[x] = IF x = id THEN {} ELSE newer[x] \cup {id}
  BY <1>1
<1>4. newer' \in [Account!Rows' -> SUBSET Account!Rows']
  BY <1>1, <1>2 DEF Table
<1>5. Account!InOrder'
  <2>1. ASSUME NEW x \in Account!Rows' PROVE x \notin newer'[x]
    BY <1>2, <1>3 DEF Table, Account!InOrder
  <2>2. ASSUME NEW x \in Account!Rows', NEW y \in Account!Rows', x \in newer'[y]
        PROVE  newer'[x] \subseteq newer'[y]
    <3>1. y # id /\ y \in Account!Rows /\ newer'[y] = newer[y] \cup {id}
      BY <1>2, <1>3, <2>2
    <3>2. CASE x = id
      BY <1>3, <3>2
    <3>3. CASE x # id
      <4>1. x \in Account!Rows /\ x \in newer[y] /\ newer'[x] = newer[x] \cup {id}
        BY <1>2, <1>3, <2>2, <3>1, <3>3
      <4>2. newer[x] \subseteq newer[y]
        BY <3>1, <4>1 DEF Table, Account!InOrder
      <4> QED BY <3>1, <4>1, <4>2
    <3> QED BY <3>2, <3>3
  <2>3. ASSUME NEW x \in Account!Rows', NEW y \in Account!Rows', x # y
        PROVE  x \in newer'[y] \/ y \in newer'[x]
    <3>1. CASE x = id \/ y = id
      BY <1>3, <2>3, <3>1
    <3>2. CASE x # id /\ y # id
      <4>1. x \in Account!Rows /\ y \in Account!Rows
        BY <1>2, <2>3, <3>2
      <4>2. x \in newer[y] \/ y \in newer[x]
        BY <2>3, <4>1 DEF Table, Account!InOrder
      <4> QED BY <1>3, <2>3, <3>2, <4>2
    <3> QED BY <3>1, <3>2
  <2> QED BY <2>1, <2>2, <2>3 DEF Account!InOrder
<1>6. IsFiniteSet(Account!Rows')
  BY <1>2, FS_AddElement DEF Table
<1> QED BY <1>2, <1>4, <1>5, <1>6 DEF Table

\* What enforceSessionLimit leaves: in an ordered table, fewer than MaxPerUser rows
\* have fewer than MaxPerUser - 1 rows before them.
LEMMA RoomIsMade ==
    ASSUME Table
    PROVE  /\ IsFiniteSet(Account!Rows \ Account!SessionsToDelete)
           /\ Cardinality(Account!Rows \ Account!SessionsToDelete) <= MaxPerUser - 1
<1> DEFINE kept == Account!Rows \ Account!SessionsToDelete
           place == [x \in kept |-> Cardinality(newer[x])]
<1>1. \A x \in Account!Rows : IsFiniteSet(newer[x]) /\ Cardinality(newer[x]) \in Nat
  BY FS_Subset, FS_CardinalityType DEF Table
<1>2. \A x \in kept : x \in Account!Rows /\ Cardinality(newer[x]) < MaxPerUser - 1
  BY <1>1, Limits, SameCounting DEF Account!SessionsToDelete
<1>3. place \in [kept -> 0..MaxPerUser - 2]
  BY <1>1, <1>2, Limits
<1>4. ASSUME NEW x \in Account!Rows, NEW y \in Account!Rows, x \in newer[y]
      PROVE  Cardinality(newer[x]) # Cardinality(newer[y])
  <2>1. newer[x] \subseteq newer[y] /\ x \notin newer[x]
    BY <1>4 DEF Table, Account!InOrder
  <2> QED BY <1>1, <1>4, <2>1, FS_Subset
<1>5. ASSUME NEW x \in kept, NEW y \in kept, place[x] = place[y] PROVE x = y
  <2>1. Cardinality(newer[x]) = Cardinality(newer[y])
    BY <1>5
  <2>2. x # y => x \in newer[y] \/ y \in newer[x]
    BY <1>2 DEF Table, Account!InOrder
  <2> QED BY <1>2, <1>4, <2>1, <2>2
<1>6. place \in Injection(kept, 0..MaxPerUser - 2)
  BY <1>3, <1>5 DEF Injection, IsInjective
<1>7. IsFiniteSet(0..MaxPerUser - 2) /\ Cardinality(0..MaxPerUser - 2) = MaxPerUser - 1
  BY FS_Interval, Limits
<1> HIDE DEF kept, place
<1>8. IsFiniteSet(kept) /\ Cardinality(kept) <= MaxPerUser - 1
  BY <1>6, <1>7, FS_Injection
<1> QED BY <1>8 DEF kept

-----------------------------------------------------------------------------
\* The types: of the table, of what ended and of the calls.
CallTypes ==
    /\ active \in BOOLEAN
    /\ login \in [Logins -> [pc : {"idle", "check", "cleanup", "list", "delete", "create"},
                             doomed : SUBSET Ids]]
    /\ refresh \in [Refreshes -> [pc : {"idle", "touch", "find", "update", "token"},
                                  id : Ids \cup {NoSession}]]

EndedTypes == ended \in [revoked : SUBSET Ids, expired : SUBSET Ids]

AccountTypes == Table /\ EndedTypes /\ CallTypes

LEMMA TypesAreOK == AccountTypes => Account!TypeOK
BY DEF AccountTypes, Account!TypeOK, Table, EndedTypes, CallTypes

\* No row and no call yet.
LEMMA AccountTypesInit == Account!Init => AccountTypes
<1> SUFFICES ASSUME Account!Init PROVE AccountTypes
  OBVIOUS
<1>1. Account!Rows = {}
  BY DEF Account!Init, Account!Rows
<1>2. newer \in [Account!Rows -> SUBSET Account!Rows] /\ Account!InOrder
  BY <1>1 DEF Account!Init, Account!InOrder
<1>3. login \in [Logins -> [pc : {"idle", "check", "cleanup", "list", "delete", "create"},
                            doomed : SUBSET Ids]]
  BY DEF Account!Init, Account!NoLogin
<1>4. refresh \in [Refreshes -> [pc : {"idle", "touch", "find", "update", "token"},
                                 id : Ids \cup {NoSession}]]
  BY DEF Account!Init, Account!NoRefresh
<1>5. ended \in [revoked : SUBSET Ids, expired : SUBSET Ids] /\ active \in BOOLEAN
  BY DEF Account!Init
<1>6. IsFiniteSet(Account!Rows)
  BY <1>1, FS_EmptySet
<1> QED BY <1>1, <1>2, <1>3, <1>4, <1>5, <1>6 DEF AccountTypes, Table, EndedTypes, CallTypes

\* A deletion keeps the types, and what ended are ids still.
LEMMA DeletesTyped ==
    ASSUME Table, EndedTypes, NEW ids, Account!Delete(ids)
    PROVE  Table' /\ EndedTypes' /\ Account!Rows' = Account!Rows \ ids
BY Deletes DEF EndedTypes

\* Rows and types when nothing touches the table.
LEMMA Untouched ==
    ASSUME UNCHANGED newer
    PROVE  Account!Rows' = Account!Rows /\ (Table => Table')
BY DEF Table, Account!Rows, Account!InOrder

\* Every step of a login keeps the types.
LEMMA LoginTyped ==
    ASSUME AccountTypes, NEW p \in Logins, Account!StepLogin(p)
    PROVE  AccountTypes'
<1>t. Table /\ EndedTypes /\ CallTypes
  BY DEF AccountTypes
<1>1. CASE Account!LoginDeactivated(p)
  <2>1. Table' /\ EndedTypes'
    BY <1>1, <1>t, DeletesTyped DEF Account!LoginDeactivated
  <2> QED BY <1>1, <1>t, <2>1 DEF AccountTypes, Account!LoginDeactivated, CallTypes
<1>2. CASE Account!Login(p) \/ Account!CreateSession(p) \/ Account!EnforceSessionLimit(p)
           \/ Account!LoginFails(p)
  <2>1. UNCHANGED <<newer, ended, active, refresh>>
    BY <1>2 DEF Account!Login, Account!CreateSession, Account!EnforceSessionLimit,
                Account!LoginFails
  <2>2. Account!SessionsToDelete \subseteq Ids
    BY <1>t DEF Account!SessionsToDelete, Table
  <2>3. login' \in [Logins -> [pc : {"idle", "check", "cleanup", "list", "delete", "create"},
                              doomed : SUBSET Ids]]
    BY <1>2, <1>t, <2>2 DEF CallTypes, Account!Login, Account!CreateSession,
       Account!EnforceSessionLimit, Account!LoginFails, Account!NoLogin
  <2> QED BY <1>t, <2>1, <2>3, Untouched DEF AccountTypes, CallTypes, EndedTypes
<1>3. CASE Account!CleanupExpiredSessions(p) \/ Account!DeleteSessions(p)
  <2>1. Table' /\ EndedTypes'
    BY <1>3, <1>t, DeletesTyped DEF Account!CleanupExpiredSessions, Account!DeleteSessions
  <2>2. UNCHANGED <<active, refresh>>
    BY <1>3 DEF Account!CleanupExpiredSessions, Account!DeleteSessions
  <2>3. login' \in [Logins -> [pc : {"idle", "check", "cleanup", "list", "delete", "create"},
                              doomed : SUBSET Ids]]
    BY <1>3, <1>t DEF CallTypes, Account!CleanupExpiredSessions, Account!DeleteSessions,
       Account!NoLogin
  <2> QED BY <1>t, <2>1, <2>2, <2>3 DEF AccountTypes, CallTypes
<1>4. CASE Account!SessionCreated(p)
  <2>1. PICK id \in Ids : Account!MostRecent(id)
    BY <1>4 DEF Account!SessionCreated
  <2>2. Table'
    BY <1>t, <2>1, ComesFirst
  <2>3. login' \in [Logins -> [pc : {"idle", "check", "cleanup", "list", "delete", "create"},
                              doomed : SUBSET Ids]]
    BY <1>4, <1>t DEF CallTypes, Account!SessionCreated, Account!NoLogin
  <2> QED BY <1>4, <1>t, <2>2, <2>3 DEF AccountTypes, CallTypes, EndedTypes, Account!SessionCreated
<1> QED BY <1>1, <1>2, <1>3, <1>4 DEF Account!StepLogin

\* Every step of a refresh keeps the types and the set of rows.
LEMMA RefreshTyped ==
    ASSUME AccountTypes, NEW r \in Refreshes, Account!StepRefresh(r)
    PROVE  AccountTypes' /\ Account!Rows' = Account!Rows /\ UNCHANGED <<login, active>>
<1>t. Table /\ EndedTypes /\ CallTypes
  BY DEF AccountTypes
<1> DEFINE RefreshTypes == [Refreshes -> [pc : {"idle", "touch", "find", "update", "token"},
                                          id : Ids \cup {NoSession}]]
<1>1. UNCHANGED <<ended, active, login>> /\ refresh' \in RefreshTypes
  <2>1. refresh \in RefreshTypes
    BY <1>t DEF CallTypes
  <2> QED BY <2>1 DEF Account!StepRefresh, Account!Validate, Account!UpdateSessionLastUsed,
       Account!FindActiveSession, Account!UpdateSession, Account!Answer, Account!Touch,
       Account!NoRefresh
<1>2. \/ UNCHANGED newer
      \/ refresh[r].id \in Account!Rows /\ Account!MostRecent(refresh[r].id)
  BY DEF Account!StepRefresh, Account!Validate, Account!UpdateSessionLastUsed,
       Account!FindActiveSession, Account!UpdateSession, Account!Answer, Account!Touch,
       Account!Used
<1>3. Table' /\ Account!Rows' = Account!Rows
  <2>1. CASE UNCHANGED newer
    BY <1>t, <2>1, Untouched
  <2>2. CASE refresh[r].id \in Account!Rows /\ Account!MostRecent(refresh[r].id)
    <3>1. refresh[r].id \in Ids
      BY <1>t, <2>2 DEF Table
    <3> QED BY <1>t, <2>2, <3>1, ComesFirst
  <2> QED BY <1>2, <2>1, <2>2
<1> QED BY <1>t, <1>1, <1>3 DEF AccountTypes, CallTypes, EndedTypes

\* The operations of one statement keep the types and the calls, and take rows only.
LEMMA OthersTyped ==
    ASSUME AccountTypes,
           \/ \E id \in Ids : \/ Account!Logout(id) \/ Account!RevokeSession(id)
                              \/ Account!RevokeAllSessions(id) \/ Account!Expire(id)
           \/ Account!DeleteUser
           \/ Account!AddUserAgain
    PROVE  /\ AccountTypes'
           /\ Account!Rows' \subseteq Account!Rows
           /\ UNCHANGED login
           /\ ~ active' => Account!Rows' = {} \/ ~ active
<1>t. Table /\ EndedTypes /\ CallTypes
  BY DEF AccountTypes
<1>1. ASSUME NEW id \in Ids, Account!Logout(id) \/ Account!Expire(id)
      PROVE  UNCHANGED <<newer, active, login, refresh>> /\ EndedTypes'
  BY <1>t, <1>1 DEF Account!Logout, Account!Expire, EndedTypes
<1>2. ASSUME NEW id \in Ids, Account!Logout(id) \/ Account!Expire(id)
      PROVE  AccountTypes' /\ Account!Rows' = Account!Rows /\ UNCHANGED <<active, login>>
  BY <1>t, <1>1, <1>2, Untouched DEF AccountTypes, CallTypes
<1>3. ASSUME NEW ids, Account!Delete(ids), UNCHANGED <<login, refresh>>, active' \in BOOLEAN
      PROVE  AccountTypes' /\ Account!Rows' = Account!Rows \ ids
  BY <1>t, <1>3, DeletesTyped DEF AccountTypes, CallTypes
<1>4. ASSUME NEW id \in Ids, Account!RevokeSession(id) \/ Account!RevokeAllSessions(id)
      PROVE  AccountTypes' /\ Account!Rows' \subseteq Account!Rows /\ UNCHANGED <<active, login>>
  <2>1. \E ids : Account!Delete(ids) /\ UNCHANGED <<active, login, refresh>>
    BY <1>4 DEF Account!RevokeSession, Account!RevokeAllSessions
  <2> QED BY <1>t, <1>3, <2>1 DEF CallTypes
<1>5. CASE Account!DeleteUser
  <2>1. Account!Delete(Ids) /\ UNCHANGED <<login, refresh>> /\ active' \in BOOLEAN
    BY <1>5 DEF Account!DeleteUser
  <2>2. AccountTypes' /\ Account!Rows' = Account!Rows \ Ids
    BY <1>3, <2>1
  <2> QED BY <1>t, <2>1, <2>2 DEF Table
<1>6. CASE Account!AddUserAgain
  <2>1. UNCHANGED <<newer, ended, login, refresh>> /\ active' = TRUE
    BY <1>6 DEF Account!AddUserAgain
  <2> QED BY <1>t, <2>1, Untouched DEF AccountTypes, EndedTypes, CallTypes
<1> QED BY <1>2, <1>4, <1>5, <1>6

-----------------------------------------------------------------------------
(* How many sessions there can be. A login that has made room, and one     *)
(* that is about to make it, hold a place of their own; what the second    *)
(* ones will still delete does not count. Any of them may delete first and *)
(* any may fail, hence the sets of them.                                   *)

Deleting == {p \in Logins : login[p].pc = "delete"}
Creating == {p \in Logins : login[p].pc = "create"}

\* The rows that none of these logins is about to delete.
Kept(D) == {id \in Account!Rows : \A p \in D : id \notin login[p].doomed}

WithinLimit ==
    \A D \in SUBSET Deleting :
        Cardinality(Kept(D)) + Cardinality(Creating \cup D) <= MaxPerUser - 1 + Cardinality(Logins)

\* Everything that is counted is finite.
LEMMA Countable ==
    ASSUME Table, NEW D \in SUBSET Deleting
    PROVE  /\ IsFiniteSet(Kept(D)) /\ Cardinality(Kept(D)) \in Nat
           /\ IsFiniteSet(Creating \cup D) /\ Cardinality(Creating \cup D) \in Nat
           /\ Cardinality(Creating \cup D) <= Cardinality(Logins)
           /\ Cardinality(Logins) \in Nat
<1>1. Kept(D) \subseteq Account!Rows /\ Creating \cup D \subseteq Logins
  BY DEF Kept, Creating, Deleting
<1> QED BY <1>1, Limits, FS_Subset, FS_CardinalityType DEF Table

\* A set that is part of another has no more members.
LEMMA PartIsSmaller ==
    ASSUME NEW S, NEW T, T \subseteq S, IsFiniteSet(S)
    PROVE  /\ IsFiniteSet(T) /\ Cardinality(T) \in Nat /\ Cardinality(S) \in Nat
           /\ Cardinality(T) <= Cardinality(S)
BY FS_Subset, FS_CardinalityType

\* Fewer rows, fewer logins in flight: still within the limit.
LEMMA FewerIsWithin ==
    ASSUME Table, WithinLimit, Account!Rows' \subseteq Account!Rows,
           Deleting' \subseteq Deleting, Creating' \subseteq Creating,
           \A p \in Deleting' : login'[p].doomed = login[p].doomed
    PROVE  WithinLimit'
<1> SUFFICES ASSUME NEW D \in SUBSET Deleting'
             PROVE  Cardinality(Kept(D)') + Cardinality(Creating' \cup D)
                        <= MaxPerUser - 1 + Cardinality(Logins)
  BY DEF WithinLimit
<1>1. D \in SUBSET Deleting
  OBVIOUS
<1>2. Kept(D)' \subseteq Kept(D)
  BY DEF Kept
<1>3. Creating' \cup D \subseteq Creating \cup D
  OBVIOUS
<1>4. /\ Cardinality(Kept(D)) \in Nat /\ Cardinality(Kept(D)') \in Nat
      /\ Cardinality(Kept(D)') <= Cardinality(Kept(D))
  BY <1>1, <1>2, Countable, PartIsSmaller
<1>5. /\ Cardinality(Creating \cup D) \in Nat /\ Cardinality(Creating' \cup D) \in Nat
      /\ Cardinality(Creating' \cup D) <= Cardinality(Creating \cup D)
  BY <1>1, <1>3, Countable, PartIsSmaller
<1>6. Cardinality(Kept(D)) + Cardinality(Creating \cup D) <= MaxPerUser - 1 + Cardinality(Logins)
  BY <1>1 DEF WithinLimit
<1>7. Cardinality(Logins) \in Nat /\ MaxPerUser \in Nat \ {0}
  BY <1>1, Limits, Countable
<1> QED BY <1>4, <1>5, <1>6, <1>7

\* enforceSessionLimit: the login takes its place, with room made or to be made.
LEMMA ListedIsWithin ==
    ASSUME AccountTypes, WithinLimit, NEW p \in Logins, Account!EnforceSessionLimit(p)
    PROVE  WithinLimit'
<1>t. Table /\ login \in [Logins -> [pc : {"idle", "check", "cleanup", "list", "delete", "create"},
                                     doomed : SUBSET Ids]]
  BY DEF AccountTypes, CallTypes
<1>1. /\ login[p].pc = "list"
      /\ Account!Rows' = Account!Rows
      /\ login' = [login EXCEPT ![p] =
                     [pc |-> IF Account!SessionsToDelete = {} THEN "create" ELSE "delete",
                      doomed |-> Account!SessionsToDelete]]
  BY DEF Account!EnforceSessionLimit, Account!Rows
<1>2. \A q \in Logins : q # p => login'[q] = login[q]
  BY <1>1, <1>t
<1>n. Cardinality(Logins) \in Nat /\ MaxPerUser \in Nat \ {0}
  BY Limits, FS_CardinalityType
<1>3. ASSUME NEW D \in SUBSET Deleting', p \notin D
      PROVE  D \in SUBSET Deleting /\ Kept(D)' = Kept(D)
  BY <1>1, <1>2, <1>3 DEF Deleting, Kept
<1>4. ASSUME NEW D \in SUBSET Deleting', p \in D \/ p \in Creating'
      PROVE  Cardinality(Kept(D)') + Cardinality(Creating' \cup D)
                 <= MaxPerUser - 1 + Cardinality(Logins)
  <2>1. Kept(D)' \subseteq Account!Rows \ Account!SessionsToDelete
    BY <1>1, <1>4, <1>t DEF Kept, Creating
  <2>2. Cardinality(Kept(D)') \in Nat /\ Cardinality(Kept(D)') <= MaxPerUser - 1
    BY <1>t, <1>n, <2>1, RoomIsMade, PartIsSmaller
  <2>3. Creating' \cup D \subseteq Logins
    BY DEF Creating, Deleting
  <2>4. /\ Cardinality(Creating' \cup D) \in Nat
        /\ Cardinality(Creating' \cup D) <= Cardinality(Logins)
    BY <2>3, Limits, PartIsSmaller
  <2> QED BY <1>n, <2>2, <2>4
<1>5. ASSUME NEW D \in SUBSET Deleting', p \notin D, p \notin Creating'
      PROVE  Cardinality(Kept(D)') + Cardinality(Creating' \cup D)
                 <= MaxPerUser - 1 + Cardinality(Logins)
  <2>1. Creating' = Creating
    BY <1>1, <1>2, <1>5 DEF Creating
  <2>2. Cardinality(Kept(D)) + Cardinality(Creating \cup D) <= MaxPerUser - 1 + Cardinality(Logins)
    BY <1>3, <1>5 DEF WithinLimit
  <2> QED BY <1>3, <1>5, <2>1, <2>2
<1> QED BY <1>4, <1>5 DEF WithinLimit

\* The deletion makes the room that the login's place promised.
LEMMA DeletedIsWithin ==
    ASSUME AccountTypes, WithinLimit, NEW p \in Logins, Account!DeleteSessions(p)
    PROVE  WithinLimit'
<1>t. Table /\ login \in [Logins -> [pc : {"idle", "check", "cleanup", "list", "delete", "create"},
                                     doomed : SUBSET Ids]]
  BY DEF AccountTypes, CallTypes
<1>1. /\ login[p].pc = "delete"
      /\ Account!Delete(login[p].doomed)
      /\ login' = [login EXCEPT ![p] = [pc |-> "create", doomed |-> {}]]
  <2>1. [Account!NoLogin EXCEPT !.pc = "create"] = [pc |-> "create", doomed |-> {}]
    BY DEF Account!NoLogin
  <2> QED BY <2>1 DEF Account!DeleteSessions
<1>2. Account!Rows' = Account!Rows \ login[p].doomed
  BY <1>1, <1>t, Deletes
<1>3. /\ \A q \in Logins : q # p => login'[q] = login[q]
      /\ login'[p].pc = "create"
  BY <1>1, <1>t
<1> SUFFICES ASSUME NEW D \in SUBSET Deleting'
             PROVE  Cardinality(Kept(D)') + Cardinality(Creating' \cup D)
                        <= MaxPerUser - 1 + Cardinality(Logins)
  BY DEF WithinLimit
<1>4. p \notin D /\ D \cup {p} \in SUBSET Deleting
  BY <1>1, <1>3 DEF Deleting
<1>5. Kept(D)' = Kept(D \cup {p})
  BY <1>2, <1>3, <1>4 DEF Kept, Deleting
<1>6. Creating' \cup D = Creating \cup (D \cup {p})
  BY <1>3 DEF Creating
<1> QED BY <1>4, <1>5, <1>6 DEF WithinLimit

\* The new row takes the place of its login.
LEMMA CreatedIsWithin ==
    ASSUME AccountTypes, WithinLimit, NEW p \in Logins, Account!SessionCreated(p)
    PROVE  WithinLimit'
<1>t. Table /\ login \in [Logins -> [pc : {"idle", "check", "cleanup", "list", "delete", "create"},
                                     doomed : SUBSET Ids]]
  BY DEF AccountTypes, CallTypes
<1>1. PICK id \in Ids : Account!MostRecent(id)
  BY DEF Account!SessionCreated
<1>2. Account!Rows' = Account!Rows \cup {id}
  BY <1>1, <1>t, ComesFirst
<1>3. login[p].pc = "create" /\ login' = [login EXCEPT ![p] = [pc |-> "idle", doomed |-> {}]]
  BY DEF Account!SessionCreated, Account!NoLogin
<1>4. /\ \A q \in Logins : q # p => login'[q] = login[q]
      /\ login'[p].pc = "idle"
  BY <1>3, <1>t
<1> SUFFICES ASSUME NEW D \in SUBSET Deleting'
             PROVE  Cardinality(Kept(D)') + Cardinality(Creating' \cup D)
                        <= MaxPerUser - 1 + Cardinality(Logins)
  BY DEF WithinLimit
<1>5. p \notin D /\ D \in SUBSET Deleting
  BY <1>3, <1>4 DEF Deleting
<1>6. Kept(D)' \subseteq Kept(D) \cup {id}
  BY <1>2, <1>4, <1>5 DEF Kept, Deleting
<1>7. /\ Cardinality(Kept(D)) \in Nat /\ Cardinality(Kept(D)') \in Nat
      /\ Cardinality(Kept(D)') <= Cardinality(Kept(D)) + 1
  <2>1. IsFiniteSet(Kept(D)) /\ Cardinality(Kept(D)) \in Nat
    BY <1>5, <1>t, Countable
  <2>2. /\ IsFiniteSet(Kept(D) \cup {id})
        /\ Cardinality(Kept(D) \cup {id}) = Cardinality(Kept(D))
           \/ Cardinality(Kept(D) \cup {id}) = Cardinality(Kept(D)) + 1
    BY <2>1, FS_AddElement
  <2>3. /\ Cardinality(Kept(D)') \in Nat
        /\ Cardinality(Kept(D)') <= Cardinality(Kept(D) \cup {id})
    BY <1>6, <2>2, PartIsSmaller
  <2> QED BY <2>1, <2>2, <2>3
<1>8. /\ Cardinality(Creating \cup D) \in Nat
      /\ Cardinality(Creating' \cup D) = Cardinality(Creating \cup D) - 1
  <2>1. Creating' \cup D = (Creating \cup D) \ {p} /\ p \in Creating \cup D
    BY <1>3, <1>4, <1>5 DEF Creating
  <2>2. IsFiniteSet(Creating \cup D) /\ Cardinality(Creating \cup D) \in Nat
    BY <1>5, <1>t, Countable
  <2> QED BY <2>1, <2>2, FS_RemoveElement
<1>9. Cardinality(Kept(D)) + Cardinality(Creating \cup D) <= MaxPerUser - 1 + Cardinality(Logins)
  BY <1>5 DEF WithinLimit
<1>10. Cardinality(Logins) \in Nat /\ MaxPerUser \in Nat \ {0}
  BY Limits, FS_CardinalityType
<1> QED BY <1>7, <1>8, <1>9, <1>10

-----------------------------------------------------------------------------
(* What deleteUser may leave: while the account is inactive, a row or a    *)
(* login past createSession's look at the user takes the place of one      *)
(* login.                                                                  *)

AccountInv == AccountTypes /\ WithinLimit /\ Account!LeftToInactive

\* The bound on what is left, in the operators of this module.
LEMMA LeftCounted ==
    Account!LeftToInactive <=>
        (~active => Cardinality(Account!Rows) + Cardinality(Account!Admitted) <= Cardinality(Logins))
BY SameCounting DEF Account!LeftToInactive

\* The same, of the next state.
LEMMA LeftCountedNext ==
    Account!LeftToInactive' <=>
        (~active' => Cardinality(Account!Rows') + Cardinality(Account!Admitted')
                         <= Cardinality(Logins))
BY SameCounting DEF Account!LeftToInactive

\* Fewer rows and fewer admitted logins, or no rows at all.
LEMMA FewerAreLeft ==
    ASSUME AccountTypes, Account!LeftToInactive,
           ~ active' => \/ Account!Rows' = {}
                        \/ /\ ~ active
                           /\ Account!Rows' \subseteq Account!Rows
                           /\ Account!Admitted' \subseteq Account!Admitted
    PROVE  Account!LeftToInactive'
<1> SUFFICES ASSUME ~ active'
             PROVE  Cardinality(Account!Rows') + Cardinality(Account!Admitted')
                        <= Cardinality(Logins)
  BY LeftCountedNext
<1>t. Table
  BY DEF AccountTypes
<1>1. /\ Cardinality(Account!Admitted') \in Nat /\ Cardinality(Logins) \in Nat
      /\ Cardinality(Account!Admitted') <= Cardinality(Logins)
  <2>1. Account!Admitted' \subseteq Logins
    BY DEF Account!Admitted
  <2> QED BY <2>1, Limits, PartIsSmaller
<1>2. CASE Account!Rows' = {}
  BY <1>1, <1>2, FS_EmptySet
<1>3. CASE /\ ~ active
           /\ Account!Rows' \subseteq Account!Rows
           /\ Account!Admitted' \subseteq Account!Admitted
  <2>1. /\ Cardinality(Account!Rows') \in Nat /\ Cardinality(Account!Rows) \in Nat
        /\ Cardinality(Account!Rows') <= Cardinality(Account!Rows)
    BY <1>t, <1>3, PartIsSmaller DEF Table
  <2>2. IsFiniteSet(Account!Admitted)
    BY Limits, FS_Subset DEF Account!Admitted
  <2>3. /\ Cardinality(Account!Admitted) \in Nat
        /\ Cardinality(Account!Admitted') <= Cardinality(Account!Admitted)
    BY <1>3, <2>2, PartIsSmaller
  <2>4. Cardinality(Account!Rows) + Cardinality(Account!Admitted) <= Cardinality(Logins)
    BY <1>3, LeftCounted
  <2> QED BY <1>1, <2>1, <2>3, <2>4
<1> QED BY <1>2, <1>3

\* The admitted login that creates a row is not counted twice.
LEMMA CreatedIsLeft ==
    ASSUME AccountTypes, Account!LeftToInactive, NEW p \in Logins, Account!SessionCreated(p)
    PROVE  Account!LeftToInactive'
<1>t. Table /\ login \in [Logins -> [pc : {"idle", "check", "cleanup", "list", "delete", "create"},
                                     doomed : SUBSET Ids]]
  BY DEF AccountTypes, CallTypes
<1> SUFFICES ASSUME ~ active'
             PROVE  Cardinality(Account!Rows') + Cardinality(Account!Admitted')
                        <= Cardinality(Logins)
  BY LeftCountedNext
<1>1. PICK id \in Ids : Account!MostRecent(id)
  BY DEF Account!SessionCreated
<1>2. Account!Rows' = Account!Rows \cup {id}
  BY <1>1, <1>t, ComesFirst
<1>3. /\ login[p].pc = "create"
      /\ login' = [login EXCEPT ![p] = [pc |-> "idle", doomed |-> {}]]
      /\ ~ active
  BY DEF Account!SessionCreated, Account!NoLogin
<1>4. Account!Admitted' = Account!Admitted \ {p} /\ p \in Account!Admitted
  BY <1>3, <1>t DEF Account!Admitted
<1>5. /\ IsFiniteSet(Account!Admitted) /\ Cardinality(Account!Admitted) \in Nat
      /\ Cardinality(Logins) \in Nat
  BY Limits, FS_Subset, FS_CardinalityType DEF Account!Admitted
<1>6. Cardinality(Account!Admitted') = Cardinality(Account!Admitted) - 1
  BY <1>4, <1>5, FS_RemoveElement
<1>7. IsFiniteSet(Account!Rows) /\ Cardinality(Account!Rows) \in Nat
  BY <1>t, FS_CardinalityType DEF Table
<1>8. \/ Cardinality(Account!Rows') = Cardinality(Account!Rows)
      \/ Cardinality(Account!Rows') = Cardinality(Account!Rows) + 1
  BY <1>2, <1>7, FS_AddElement
<1>9. Cardinality(Account!Rows) + Cardinality(Account!Admitted) <= Cardinality(Logins)
  BY <1>3, LeftCounted
<1> QED BY <1>5, <1>6, <1>7, <1>8, <1>9

\* Every step of a login keeps the invariant.
LEMMA LoginKeeps ==
    ASSUME AccountInv, NEW p \in Logins, Account!StepLogin(p)
    PROVE  AccountInv'
<1>t. /\ AccountTypes /\ WithinLimit /\ Account!LeftToInactive /\ Table
      /\ login \in [Logins -> [pc : {"idle", "check", "cleanup", "list", "delete", "create"},
                               doomed : SUBSET Ids]]
  BY DEF AccountInv, AccountTypes, CallTypes
<1>0. AccountTypes'
  BY <1>t, LoginTyped
<1>1. CASE Account!LoginDeactivated(p)
  <2>1. Account!Rows' \subseteq Account!Rows /\ UNCHANGED <<login, active>>
    BY <1>1, <1>t, Deletes DEF Account!LoginDeactivated
  <2>2. /\ Deleting' = Deleting /\ Creating' = Creating
        /\ Account!Admitted' = Account!Admitted
    BY <2>1 DEF Deleting, Creating, Account!Admitted
  <2> QED BY <1>t, <1>0, <2>1, <2>2, FewerIsWithin, FewerAreLeft DEF AccountInv
<1>2. CASE Account!Login(p) \/ Account!CreateSession(p) \/ Account!CleanupExpiredSessions(p)
  <2>1. Account!Rows' \subseteq Account!Rows /\ UNCHANGED active
    BY <1>2, <1>t, Deletes DEF Account!Login, Account!CreateSession,
       Account!CleanupExpiredSessions, Account!Rows
  <2>2. /\ \A q \in Logins : q # p => login'[q] = login[q]
        /\ login[p].pc \in {"idle", "check", "cleanup"}
        /\ login'[p].pc \in {"idle", "check", "cleanup", "list"}
        /\ login[p].pc # "cleanup" /\ ~ active => login'[p].pc \in {"idle", "check"}
    BY <1>2, <1>t DEF Account!Login, Account!CreateSession, Account!CleanupExpiredSessions,
       Account!NoLogin
  <2>3. /\ Deleting' = Deleting /\ Creating' = Creating
        /\ \A q \in Deleting' : login'[q].doomed = login[q].doomed
    BY <2>2 DEF Deleting, Creating
  <2>4. ~ active => Account!Admitted' \subseteq Account!Admitted
    BY <2>2 DEF Account!Admitted
  <2> QED BY <1>t, <1>0, <2>1, <2>3, <2>4, FewerIsWithin, FewerAreLeft DEF AccountInv
<1>3. CASE Account!EnforceSessionLimit(p)
  <2>1. Account!Rows' = Account!Rows /\ UNCHANGED active
    BY <1>3 DEF Account!EnforceSessionLimit, Account!Rows
  <2>2. Account!Admitted' = Account!Admitted
    BY <1>3, <1>t DEF Account!EnforceSessionLimit, Account!Admitted
  <2> QED BY <1>t, <1>0, <1>3, <2>1, <2>2, ListedIsWithin, FewerAreLeft DEF AccountInv
<1>4. CASE Account!DeleteSessions(p)
  <2>1. Account!Rows' \subseteq Account!Rows /\ UNCHANGED active
    BY <1>4, <1>t, Deletes DEF Account!DeleteSessions
  <2>2. /\ login[p].pc = "delete"
        /\ login' = [login EXCEPT ![p] = [Account!NoLogin EXCEPT !.pc = "create"]]
    BY <1>4 DEF Account!DeleteSessions
  <2>3. [Account!NoLogin EXCEPT !.pc = "create"].pc = "create"
    BY DEF Account!NoLogin
  <2>4. Account!Admitted' = Account!Admitted
    BY <1>t, <2>2, <2>3 DEF Account!Admitted
  <2> QED BY <1>t, <1>0, <1>4, <2>1, <2>4, DeletedIsWithin, FewerAreLeft DEF AccountInv
<1>5. CASE Account!SessionCreated(p)
  BY <1>t, <1>0, <1>5, CreatedIsWithin, CreatedIsLeft DEF AccountInv
<1>6. CASE Account!LoginFails(p)
  <2>1. Account!Rows' = Account!Rows /\ UNCHANGED active
    BY <1>6 DEF Account!LoginFails, Account!Rows
  <2>2. \A q \in Logins : q # p => login'[q] = login[q]
    BY <1>6, <1>t DEF Account!LoginFails
  <2>3. login'[p].pc = "idle"
    BY <1>6, <1>t DEF Account!LoginFails, Account!NoLogin
  <2>4. /\ Deleting' \subseteq Deleting /\ Creating' \subseteq Creating
        /\ \A q \in Deleting' : login'[q].doomed = login[q].doomed
    BY <2>2, <2>3 DEF Deleting, Creating
  <2>5. Account!Admitted' \subseteq Account!Admitted
    BY <2>2, <2>3 DEF Account!Admitted
  <2> QED BY <1>t, <1>0, <2>1, <2>4, <2>5, FewerIsWithin, FewerAreLeft DEF AccountInv
<1> QED BY <1>1, <1>2, <1>3, <1>4, <1>5, <1>6 DEF Account!StepLogin

\* Every step of the account keeps the invariant.
LEMMA AccountStep ==
    ASSUME AccountInv, [Account!Next]_accountVars
    PROVE  AccountInv'
<1>t. AccountTypes /\ WithinLimit /\ Account!LeftToInactive /\ Table
  BY DEF AccountInv, AccountTypes
<1>1. ASSUME NEW p \in Logins, Account!StepLogin(p) PROVE AccountInv'
  BY <1>1, LoginKeeps
<1>2. ASSUME AccountTypes', Account!Rows' \subseteq Account!Rows, UNCHANGED login,
             ~ active' => Account!Rows' = {} \/ ~ active
      PROVE  AccountInv'
  <2>1. /\ Deleting' = Deleting /\ Creating' = Creating
        /\ Account!Admitted' = Account!Admitted
    BY <1>2 DEF Deleting, Creating, Account!Admitted
  <2> QED BY <1>t, <1>2, <2>1, FewerIsWithin, FewerAreLeft DEF AccountInv
<1>3. ASSUME NEW r \in Refreshes, Account!StepRefresh(r) PROVE AccountInv'
  BY <1>t, <1>2, <1>3, RefreshTyped
<1>4. CASE \/ \E id \in Ids : \/ Account!Logout(id) \/ Account!RevokeSession(id)
                              \/ Account!RevokeAllSessions(id) \/ Account!Expire(id)
           \/ Account!DeleteUser
           \/ Account!AddUserAgain
  BY <1>t, <1>2, <1>4, OthersTyped
<1>5. CASE UNCHANGED accountVars
  <2>1. UNCHANGED <<newer, ended, active, login, refresh>>
    BY <1>5 DEF accountVars
  <2>2. AccountTypes' /\ Account!Rows' = Account!Rows
    BY <1>t, <2>1, Untouched DEF AccountTypes, EndedTypes, CallTypes
  <2> QED BY <1>2, <2>1, <2>2
<1> QED BY <1>1, <1>3, <1>4, <1>5 DEF Account!Next

\* No rows, no calls.
LEMMA AccountStart == Account!Init => AccountInv
<1> SUFFICES ASSUME Account!Init PROVE AccountInv
  OBVIOUS
<1>1. AccountTypes
  BY AccountTypesInit
<1>2. Account!Rows = {} /\ active
  BY DEF Account!Init, Account!Rows
<1>3. Deleting = {} /\ Creating = {}
  BY DEF Account!Init, Account!NoLogin, Deleting, Creating
<1>4. WithinLimit
  <2>1. ASSUME NEW D \in SUBSET Deleting PROVE Kept(D) = {} /\ Creating \cup D = {}
    BY <1>2, <1>3 DEF Kept
  <2>2. Cardinality({}) = 0 /\ Cardinality(Logins) \in Nat /\ MaxPerUser \in Nat \ {0}
    BY FS_EmptySet, FS_CardinalityType, Limits
  <2>3. ASSUME NEW D \in SUBSET Deleting
        PROVE  Cardinality(Kept(D)) + Cardinality(Creating \cup D)
                   <= MaxPerUser - 1 + Cardinality(Logins)
    <3>1. Cardinality(Kept(D)) = 0 /\ Cardinality(Creating \cup D) = 0
      BY <2>1, <2>2
    <3> QED BY <2>2, <3>1
  <2> QED BY <2>3 DEF WithinLimit
<1> QED BY <1>1, <1>2, <1>4 DEF AccountInv, Account!LeftToInactive

\* In every state of the account.
LEMMA AccountAlways == Account!Spec => []AccountInv
<1>1. AccountInv /\ [Account!Next]_Account!vars => AccountInv'
  BY AccountStep DEF Account!vars, accountVars
<1> QED BY <1>1, AccountStart, PTL DEF Account!Spec

\* However many logins and refreshes run, an account has at most one session
\* more than the limit for every login but one (auth.service.ts:367).
THEOREM LimitExceeded == Account!Spec => []LimitExceededByOverlapOnly
<1>1. AccountInv => LimitExceededByOverlapOnly
  <2> SUFFICES ASSUME AccountInv
               PROVE  Cardinality(Account!Rows) <= MaxPerUser - 1 + Cardinality(Logins)
    BY SameCounting DEF LimitExceededByOverlapOnly, Account!LimitExceededByOverlapOnly
  <2>1. Table /\ WithinLimit
    BY DEF AccountInv, AccountTypes
  <2>2. Kept({}) = Account!Rows
    BY DEF Kept
  <2>3. Cardinality(Kept({})) + Cardinality(Creating \cup {}) <= MaxPerUser - 1 + Cardinality(Logins)
    BY <2>1 DEF WithinLimit
  <2>4. /\ Cardinality(Kept({})) \in Nat /\ Cardinality(Creating \cup {}) \in Nat
        /\ Cardinality(Logins) \in Nat /\ MaxPerUser \in Nat \ {0}
    BY <2>1, Countable, Limits
  <2> QED BY <2>2, <2>3, <2>4
<1> QED BY <1>1, AccountAlways, PTL

\* However many logins deleteUser overtakes, they leave no more sessions to an
\* account that is not active than there are logins (auth.service.ts:248).
THEOREM LeftByLogins == Account!Spec => []LeftToInactive
<1>1. AccountInv => LeftToInactive
  BY DEF AccountInv, LeftToInactive
<1> QED BY <1>1, AccountAlways, PTL

-----------------------------------------------------------------------------
(* The users and the account side by side.                                 *)

\* Whatever a handler decides is a call.
LEMMA DecidesTyped ==
    ASSUME TypeOK, NEW r \in Requests, NEW name, NEW call \in Call, Decide(r, name, call)
    PROVE  TypeOK'
BY DEF TypeOK, Decide

\* The handlers keep the types, however many of them run.
LEMMA UsersTyped ==
    ASSUME TypeOK, [Next]_vars
    PROVE  TypeOK'
<1>1. ASSUME NEW r \in Requests, NEW u \in Users, NEW from \in Users, NEW role \in Roles,
             \/ AddUserToOrganization(r, u, role)
             \/ CreateAgentUser(r, u)
             \/ UpdateOrganizationRole(r, u, role)
             \/ RemoveMember(r, from, u)
             \/ DeleteUser(r, u)
             \/ TransferOwnership(r, from, u)
      PROVE  TypeOK'
  <2>1. "MEMBER" \in Roles /\ "OWNER" \in Roles
    BY DEF Roles
  <2>2. \E name : \E op \in {"add", "role", "remove", "delete", "transfer"}, w \in Users,
                     ro \in Roles :
            Decide(r, name, To(op, u, w, ro)) \/ Decide(r, name, Refused(op, u, w, ro))
    BY <1>1, <2>1 DEF AddUserToOrganization, CreateAgentUser, UpdateOrganizationRole,
       RemoveMember, DeleteUser, TransferOwnership
  <2>3. ASSUME NEW op \in {"add", "role", "remove", "delete", "transfer"}, NEW w \in Users,
               NEW ro \in Roles
        PROVE  To(op, u, w, ro) \in Call /\ Refused(op, u, w, ro) \in Call
    BY DEF To, Refused, Call
  <2>4. ASSUME NEW name, NEW op \in {"add", "role", "remove", "delete", "transfer"},
               NEW w \in Users, NEW ro \in Roles,
               Decide(r, name, To(op, u, w, ro)) \/ Decide(r, name, Refused(op, u, w, ro))
        PROVE  TypeOK'
    BY <2>3, <2>4, DecidesTyped
  <2> QED BY <2>2, <2>4
<1>2. ASSUME NEW r \in Requests, Write(r)
      PROVE  TypeOK'
  <2>1. req' = [req EXCEPT ![r] = Idle] /\ req[r].pc = "write"
    BY <1>2 DEF Write
  <2>2. req[r] \in Call
    BY <2>1 DEF TypeOK, Idle
  <2>3. user' \in [Users -> Row \cup {Absent}]
    <3>1. CASE UNCHANGED user
      BY <3>1 DEF TypeOK
    <3>2. CASE ~ Fails(req[r]) /\ Written(req[r])
      BY <2>2, <3>2, WrittenTyped
    <3> QED BY <1>2, <3>1, <3>2 DEF Write
  <2> QED BY <2>1, <2>3 DEF TypeOK
<1>3. ASSUME NEW r \in Requests, Refuse(r)
      PROVE  TypeOK'
  BY <1>3 DEF Refuse, TypeOK
<1>4. CASE UNCHANGED vars
  BY <1>4 DEF vars, TypeOK
<1>5. "OWNER" \in Roles
  BY DEF Roles
<1>6. CASE Next
  <2>1. PICK r \in Requests :
            \/ \E u \in Users, role \in Roles : AddUserToOrganization(r, u, role)
            \/ \E u \in Users : CreateAgentUser(r, u)
            \/ \E u \in Users, role \in Roles : UpdateOrganizationRole(r, u, role)
            \/ \E current, u \in Users : RemoveMember(r, current, u)
            \/ \E u \in Users : DeleteUser(r, u)
            \/ \E from, u \in Users : TransferOwnership(r, from, u)
            \/ Write(r)
            \/ Refuse(r)
    BY <1>6 DEF Next
  <2> QED BY <1>1, <1>2, <1>3, <1>5, <2>1
<1> QED BY <1>4, <1>6

\* The rows of users, calls, sessions, logins and refreshes keep their shape, and
\* lastUsedAt orders the sessions, for any number of each.
THEOREM TypesCorrect == MCSpec => []TypesOK
<1> DEFINE Inv == TypeOK /\ AccountInv
<1>1. MCInit => Inv
  <2>1. Init => TypeOK
    BY OwnershipAssumption DEF Init, TypeOK, Row, Roles
  <2> QED BY <2>1, AccountStart DEF MCInit
<1>2. ASSUME Inv, [MCNext]_<<vars, accountVars>> PROVE Inv'
  <2>1. [Next]_vars /\ [Account!Next]_accountVars
    BY <1>2 DEF MCNext
  <2> QED BY <1>2, <2>1, UsersTyped, AccountStep
<1>3. Inv => TypesOK
  BY TypesAreOK DEF TypesOK, AccountInv
<1> QED BY <1>1, <1>2, <1>3, PTL DEF MCSpec
=============================================================================
