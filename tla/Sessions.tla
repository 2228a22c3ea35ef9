------------------------------ MODULE Sessions ------------------------------
(***************************************************************************)
(* The sessions of one user: AuthService creates one at each login after   *)
(* making room for it, refreshes and revokes them, in statements of their  *)
(* own that interleave with those of other requests; UserService.deleteUser *)
(* ends them all.                                                          *)
(*                                                                         *)
(* newer is the user's part of the session table and its order by          *)
(* lastUsedAt: for every row, the rows used more recently than it. Using a *)
(* session moves it before all others.                                     *)
(***************************************************************************)
EXTENDS Naturals, FiniteSets

CONSTANTS
    Logins,          \* concurrent calls of login
    Refreshes,       \* concurrent calls of refresh
    MaxPerUser,      \* MAX_SESSIONS_PER_USER
    Ids,             \* session ids; one that nobody knows any more is used again
    NoSession

\* What the constants are assumed to be.
SessionsAssumption ==
    /\ IsFiniteSet(Logins)
    /\ MaxPerUser \in Nat \ {0}
    /\ NoSession \notin Ids

VARIABLES
    newer,     \* newer[id]: the sessions used more recently than session id
    ended,     \* those logged out (revokedAt) and those past expiresAt
    active,    \* user.isActive
    login,     \* login[p]: the call of login that runs in p
    refresh    \* refresh[r]: the call of refresh that runs in r

vars == <<newer, ended, active, login, refresh>>

Rows == DOMAIN newer

NoLogin   == [pc |-> "idle", doomed |-> {}]
NoRefresh == [pc |-> "idle", id |-> NoSession]

\* lastUsedAt orders the rows: of two, one was used before the other.
InOrder ==
    /\ \A x \in Rows : x \notin newer[x]
    /\ \A x, y \in Rows : x \in newer[y] => newer[x] \subseteq newer[y]
    /\ \A x, y \in Rows : x # y => x \in newer[y] \/ y \in newer[x]

TypeOK ==
    /\ Rows \subseteq Ids
    /\ newer \in [Rows -> SUBSET Rows]
    /\ InOrder
    /\ ended \in [revoked : SUBSET Ids, expired : SUBSET Ids]
    /\ active \in BOOLEAN
    /\ login \in [Logins -> [pc : {"idle", "check", "cleanup", "list", "delete", "create"},
                             doomed : SUBSET Ids]]
    /\ refresh \in [Refreshes -> [pc : {"idle", "touch", "find", "update", "token"},
                                  id : Ids \cup {NoSession}]]

Init ==
    /\ newer = [id \in {} |-> {}]
    /\ ended = [revoked |-> {}, expired |-> {}]
    /\ active = TRUE
    /\ login = [p \in Logins |-> NoLogin]
    /\ refresh = [r \in Refreshes |-> NoRefresh]

Delete(ids) ==
    /\ newer' = [id \in Rows \ ids |-> newer[id] \ ids]
    /\ ended' = [revoked |-> ended.revoked \ ids, expired |-> ended.expired \ ids]

\* Inserted or used just now: before all others.
MostRecent(id) ==
    newer' = [x \in Rows \cup {id} |-> IF x = id THEN {} ELSE newer[x] \cup {id}]

Usable(id) == id \in Rows \ (ended.revoked \cup ended.expired)

-----------------------------------------------------------------------------
(* login and createSession.                                                *)

\* An account that is not active: all its sessions are deleted, the login fails.
LoginDeactivated(p) ==
    /\ login[p].pc = "idle"
    /\ ~active
    /\ Delete(Ids)
    /\ UNCHANGED <<active, login, refresh>>

\* Then the password is compared and the tokens are signed and hashed.
Login(p) ==
    /\ login[p].pc = "idle"
    /\ active
    /\ login' = [login EXCEPT ![p].pc = "check"]
    /\ UNCHANGED <<newer, ended, active, refresh>>

\* createSession looks at the user again.
CreateSession(p) ==
    /\ login[p].pc = "check"
    /\ login' = [login EXCEPT ![p] = IF active THEN [NoLogin EXCEPT !.pc = "cleanup"] ELSE NoLogin]
    /\ UNCHANGED <<newer, ended, active, refresh>>

CleanupExpiredSessions(p) ==
    /\ login[p].pc = "cleanup"
    /\ Delete(ended.expired)
    /\ login' = [login EXCEPT ![p].pc = "list"]
    /\ UNCHANGED <<active, refresh>>

\* Slip: skips MaxPerUser instead of one less.
OneTooFew == {id \in Rows : Cardinality(newer[id]) >= MaxPerUser}

\* All but the MaxPerUser - 1 most recently used.
SessionsToDelete == {id \in Rows : Cardinality(newer[id]) >= MaxPerUser - 1}

EnforceSessionLimit(p) ==
    /\ login[p].pc = "list"
    /\ login' = [login EXCEPT ![p] =
                   [pc |-> IF SessionsToDelete = {} THEN "create" ELSE "delete",
                    doomed |-> SessionsToDelete]]
    /\ UNCHANGED <<newer, ended, active, refresh>>

DeleteSessions(p) ==
    /\ login[p].pc = "delete"
    /\ Delete(login[p].doomed)
    /\ login' = [login EXCEPT ![p] = [NoLogin EXCEPT !.pc = "create"]]
    /\ UNCHANGED <<active, refresh>>

\* randomUUID: an id that no row has and no request refers to.
Known == Rows \cup UNION {login[p].doomed : p \in Logins}
                     \cup {refresh[r].id : r \in Refreshes}

SessionCreated(p) ==
    /\ login[p].pc = "create"
    /\ \E id \in Ids \ Known : MostRecent(id)
    /\ login' = [login EXCEPT ![p] = NoLogin]
    /\ UNCHANGED <<ended, active, refresh>>

\* A statement throws or the process stops: what was deleted stays deleted.
LoginFails(p) ==
    /\ login[p].pc # "idle"
    /\ login' = [login EXCEPT ![p] = NoLogin]
    /\ UNCHANGED <<newer, ended, active, refresh>>

-----------------------------------------------------------------------------
(* refresh: JwtRefreshTokenStrategy.validate, then AuthService.refresh.    *)

Validate(r, id) ==
    /\ refresh[r].pc = "idle"
    /\ Usable(id)
    /\ refresh' = [refresh EXCEPT ![r] = [pc |-> "touch", id |-> id]]
    /\ UNCHANGED <<newer, ended, active, login>>

\* Slip: the session also keeps its old place.
UsedTwice(id) ==
    newer' = [x \in Rows |-> IF x = id THEN newer[x] ELSE newer[x] \cup {id}]

\* An update of lastUsedAt by id: it throws when the row is gone, and does not
\* look at revokedAt.
Used(id) == MostRecent(id)

Touch(r, from, to) ==
    /\ refresh[r].pc = from
    /\ IF refresh[r].id \in Rows
       THEN /\ Used(refresh[r].id)
            /\ refresh' = [refresh EXCEPT ![r].pc = to]
       ELSE /\ UNCHANGED newer
            /\ refresh' = [refresh EXCEPT ![r] = NoRefresh]
    /\ UNCHANGED <<ended, active, login>>

UpdateSessionLastUsed(r) == Touch(r, "touch", "find")

FindActiveSession(r) ==
    /\ refresh[r].pc = "find"
    /\ refresh' = [refresh EXCEPT ![r] = IF Usable(@.id) THEN [@ EXCEPT !.pc = "update"] ELSE NoRefresh]
    /\ UNCHANGED <<newer, ended, active, login>>

UpdateSession(r) == Touch(r, "update", "token")

\* The access token is signed.
Answer(r) ==
    /\ refresh[r].pc = "token"
    /\ refresh' = [refresh EXCEPT ![r] = NoRefresh]
    /\ UNCHANGED <<newer, ended, active, login>>

-----------------------------------------------------------------------------
(* The other operations, of one statement each.                            *)

Logout(id) ==
    /\ id \in Rows \ ended.revoked
    /\ ended' = [ended EXCEPT !.revoked = @ \cup {id}]
    /\ UNCHANGED <<newer, active, login, refresh>>

RevokeSession(id) ==
    /\ id \in Rows
    /\ Delete({id})
    /\ UNCHANGED <<active, login, refresh>>

RevokeAllSessions(except) ==
    /\ Rows # {}
    /\ Delete(Ids \ {except})
    /\ UNCHANGED <<active, login, refresh>>

Expire(id) ==
    /\ id \in Rows \ ended.expired
    /\ ended' = [ended EXCEPT !.expired = @ \cup {id}]
    /\ UNCHANGED <<newer, active, login, refresh>>

\* Slip: leaves the sessions.
MarkInactive ==
    /\ active
    /\ active' = FALSE
    /\ UNCHANGED <<newer, ended, login, refresh>>

\* UserService.deleteUser: sessions and mark in one transaction.
DeleteUser ==
    /\ active
    /\ active' = FALSE
    /\ Delete(Ids)
    /\ UNCHANGED <<login, refresh>>

\* OrganizationService.addUserToOrganization with the e-mail of a deleted account.
AddUserAgain ==
    /\ ~active
    /\ active' = TRUE
    /\ UNCHANGED <<newer, ended, login, refresh>>

-----------------------------------------------------------------------------
StepLogin(p) ==
    \/ LoginDeactivated(p)
    \/ Login(p)
    \/ CreateSession(p)
    \/ CleanupExpiredSessions(p)
    \/ EnforceSessionLimit(p)
    \/ DeleteSessions(p)
    \/ SessionCreated(p)
    \/ LoginFails(p)

StepRefresh(r) ==
    \/ \E id \in Ids : Validate(r, id)
    \/ UpdateSessionLastUsed(r)
    \/ FindActiveSession(r)
    \/ UpdateSession(r)
    \/ Answer(r)

Next ==
    \/ \E p \in Logins : StepLogin(p)
    \/ \E r \in Refreshes : StepRefresh(r)
    \/ \E id \in Ids : Logout(id) \/ RevokeSession(id) \/ RevokeAllSessions(id) \/ Expire(id)
    \/ DeleteUser
    \/ AddUserAgain

Spec == Init /\ [][Next]_vars

-----------------------------------------------------------------------------
(* Properties.                                                             *)

\* Two logins that overlap may both list the sessions before either creates its
\* own, so the limit of createSession can be exceeded: at most by the logins that
\* overlap, less one, however they interleave with the refreshes that reorder the
\* list between its reading and the deletion.
LimitExceededByOverlapOnly == Cardinality(Rows) <= MaxPerUser - 1 + Cardinality(Logins)

\* Past the second look at the user, which createSession takes once.
Admitted == {p \in Logins : login[p].pc \in {"cleanup", "list", "delete", "create"}}

\* A login that deleteUser overtakes after createSession looked at the user leaves a
\* session to an account that is not active: never more than the logins in flight.
LeftToInactive == ~active => Cardinality(Rows) + Cardinality(Admitted) <= Cardinality(Logins)
=============================================================================
