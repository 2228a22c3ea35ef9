---------------------------- MODULE MCOwnership ----------------------------
(***************************************************************************)
(* The users of an organization for TLC: Ownership, and beside it the      *)
(* sessions of one account. No handler of either reads what the other      *)
(* changes, so a behaviour moves one of them while the other rests.        *)
(***************************************************************************)
EXTENDS Ownership, TLC

CONSTANTS Logins, Refreshes, MaxPerUser, Ids, NoSession

VARIABLES newer, ended, active, login, refresh

EveryHandler ==
    {"addUserToOrganization", "createAgentUser", "updateOrganizationRole", "removeMember",
     "deleteUser", "transferOwnership"}

Account == INSTANCE Sessions

ASSUME AccountAssumption == Account!SessionsAssumption

accountVars == <<newer, ended, active, login, refresh>>

MCInit == Init /\ Account!Init

MCNext ==
    \/ Account!Init /\ Next /\ UNCHANGED accountVars
    \/ Init /\ Account!Next /\ UNCHANGED vars

MCSpec == MCInit /\ [][MCNext]_<<vars, accountVars>>

\* Only what Sessions never orders.
Symmetry == Permutations(Ids) \cup Permutations(Logins)

TypesOK == TypeOK /\ Account!TypeOK

LimitExceededByOverlapOnly == Account!LimitExceededByOverlapOnly
LeftToInactive == Account!LeftToInactive
=============================================================================
