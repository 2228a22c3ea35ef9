---------------------------- MODULE ApiKeysProofs ----------------------------
(***************************************************************************)
(* Both properties of ApiKeys for any number of agent users, keys and      *)
(* overlapping calls. A creation that found no agent user may go on        *)
(* without knowing of one only if it was overtaken; and what a removal has *)
(* not revoked when it is about to delete the user came too late for it.   *)
(* Then the order of an action's strategies, for any finite set of them:   *)
(* the row of the action is a lock, and who holds it numbers all that      *)
(* there are.                                                              *)
(***************************************************************************)
EXTENDS MCProject, TLAPS, FiniteSetTheorems

USE AgentsAssumption

Call == [pc : {"idle", "find", "agent", "member", "insert", "memberships", "revoke", "delete"},
         env : Envs \cup {None}, user : Agents \cup {None}, left : BOOLEAN,
         revokes : SUBSET Keys, overtaken : BOOLEAN]

Typed ==
    /\ agent \subseteq Agents
    /\ key \in [Keys -> Row \cup {None}]
    /\ env \subseteq Envs
    /\ req \in [Requests -> Call]

\* A call that found no agent user.
FoundNone(r) == req[r].pc = "agent" => agent = {} \/ req[r].overtaken

\* What a removal about to delete the user leaves unrevoked.
Accounted(r) ==
    req[r].pc = "delete" =>
        /\ req[r].user # None
        /\ \A k \in Keys : key[k] # None /\ key[k].user = req[r].user =>
             k \in req[r].revokes \/ key[k].revoked \/ key[k].late

\* A removal is about an agent user.
OfAgent(r) == req[r].pc \in {"memberships", "revoke"} => req[r].user # None

Known ==
    /\ Typed
    /\ UnlinkedOnlyByOverlap
    /\ \A r \in Requests : FoundNone(r) /\ OfAgent(r) /\ Accounted(r)

-----------------------------------------------------------------------------
\* No call runs, and there are no keys.
LEMMA KnownInit == Init => Known
<1> SUFFICES ASSUME Init PROVE Known
  OBVIOUS
<1>1. Typed
  BY DEF Init, Typed, Call, Idle
<1>2. UnlinkedOnlyByOverlap
  BY DEF Init, UnlinkedOnlyByOverlap
<1>3. \A r \in Requests : FoundNone(r) /\ OfAgent(r) /\ Accounted(r)
  BY DEF Init, FoundNone, OfAgent, Accounted, Idle
<1> QED BY <1>1, <1>2, <1>3 DEF Known

\* A call that goes on to c leaves the agent users and the keys alone.
LEMMA CallStep ==
    ASSUME Known, NEW r \in Requests, NEW c \in Call,
           req' = [req EXCEPT ![r] = c], UNCHANGED <<agent, env, key>>,
           c.pc = "agent" => agent = {} \/ c.overtaken,
           c.pc \in {"memberships", "revoke"} => c.user # None,
           c.pc = "delete" => /\ c.user # None
                              /\ \A k \in Keys : key[k] # None /\ key[k].user = c.user =>
                                   k \in c.revokes \/ key[k].revoked \/ key[k].late
    PROVE  Known'
<1>1. Typed'
  BY DEF Known, Typed
<1>2. UnlinkedOnlyByOverlap'
  BY DEF Known, UnlinkedOnlyByOverlap
<1>3. ASSUME NEW q \in Requests PROVE (FoundNone(q) /\ OfAgent(q) /\ Accounted(q))'
  <2>1. req'[q] = IF q = r THEN c ELSE req[q]
    BY DEF Known, Typed
  <2> QED BY <2>1 DEF Known, FoundNone, OfAgent, Accounted
<1> QED BY <1>1, <1>2, <1>3 DEF Known

-----------------------------------------------------------------------------
(* One lemma for each action that moves more than the call.                *)

LEMMA CreateAgentStep ==
    ASSUME Known, NEW r \in Requests, NEW u \in Agents, CreateAgent(r, u)
    PROVE  Known'
<1>1. \A q \in Requests :
        req'[q] = IF q = r THEN [req[q] EXCEPT !.pc = "member", !.user = u]
                  ELSE IF req[q].pc = "agent" THEN [req[q] EXCEPT !.overtaken = TRUE]
                  ELSE req[q]
  BY DEF CreateAgent
<1>2. \A q \in Requests : req[q] \in Call
  BY DEF Known, Typed
<1>3. ASSUME NEW q \in Requests
      PROVE  /\ req'[q] \in Call
             /\ req'[q].pc = IF q = r THEN "member" ELSE req[q].pc
             /\ q # r => req'[q].user = req[q].user
             /\ q # r /\ req[q].pc = "agent" => req'[q].overtaken
             /\ req'[q].revokes = req[q].revokes
  <2>1. CASE q = r
    <3>1. req'[q] = [req[q] EXCEPT !.pc = "member", !.user = u]
      BY <1>1, <2>1
    <3> QED BY <1>2, <2>1, <3>1 DEF Call
  <2>2. CASE q # r /\ req[q].pc = "agent"
    <3>1. req'[q] = [req[q] EXCEPT !.overtaken = TRUE]
      BY <1>1, <2>2
    <3> QED BY <1>2, <2>2, <3>1 DEF Call
  <2>3. CASE q # r /\ req[q].pc # "agent"
    BY <1>1, <1>2, <2>3
  <2> QED BY <2>1, <2>2, <2>3
<1>4. Typed'
  <2>1. req' \in [Requests -> Call]
    BY <1>3 DEF CreateAgent
  <2> QED BY <2>1 DEF Known, Typed, CreateAgent
<1>5. UnlinkedOnlyByOverlap'
  BY DEF Known, UnlinkedOnlyByOverlap, CreateAgent
<1>6. ASSUME NEW q \in Requests PROVE (FoundNone(q) /\ OfAgent(q) /\ Accounted(q))'
  <2>1. key' = key
    BY DEF CreateAgent
  <2>2. FoundNone(q)'
    BY <1>3, <1>6 DEF FoundNone
  <2>3. OfAgent(q) /\ Accounted(q)
    BY DEF Known
  <2>4. OfAgent(q)' /\ Accounted(q)'
    BY <1>3, <2>1, <2>3 DEF OfAgent, Accounted
  <2> QED BY <2>2, <2>4
<1> QED BY <1>4, <1>5, <1>6 DEF Known

\* A key inserted for a user whose keys were revoked is late.
LEMMA InsertKeyStep ==
    ASSUME Known, NEW r \in Requests, NEW k \in Keys, InsertKey(r, k)
    PROVE  Known'
<1> DEFINE u == req[r].user
           fresh == [agent |-> u # None, user |-> u, env |-> req[r].env, revoked |-> FALSE,
                   late |-> \E q \in Requests : req[q].pc = "delete" /\ req[q].user = u]
<1>1. req' = [req EXCEPT ![r] = Idle] /\ UNCHANGED <<agent, env>>
  BY DEF InsertKey
<1>2. Idle \in Call
  BY DEF Idle, Call
<1>3. CASE key' = key
  <2>1. Idle.pc = "idle"
    BY DEF Idle
  <2> QED BY <1>1, <1>2, <1>3, <2>1, CallStep
<1>4. CASE key' = [key EXCEPT ![k] = fresh]
  <2>1. fresh \in Row
    <3>1. u \in Agents \cup {None} /\ req[r].env \in Envs \cup {None}
      BY DEF Known, Typed, Call
    <3> QED BY <3>1 DEF Row
  <2>2. Typed'
    BY <1>1, <1>2, <1>4, <2>1 DEF Known, Typed
  <2>3. \A j \in Keys : key'[j] = IF j = k THEN fresh ELSE key[j]
    BY <1>4 DEF Known, Typed
  <2>6. fresh.agent => fresh.user # None
    OBVIOUS
  <2>7. ASSUME NEW q \in Requests, req[q].pc = "delete", fresh.user = req[q].user PROVE fresh.late
    BY <2>7
  <2> HIDE DEF fresh
  <2>4. UnlinkedOnlyByOverlap'
    BY <2>3, <2>6 DEF Known, UnlinkedOnlyByOverlap
  <2>5. ASSUME NEW q \in Requests PROVE (FoundNone(q) /\ OfAgent(q) /\ Accounted(q))'
    <3>1. req'[q] = IF q = r THEN Idle ELSE req[q]
      BY <1>1 DEF Known, Typed
    <3>2. FoundNone(q)' /\ OfAgent(q)'
      BY <1>1, <3>1 DEF Known, FoundNone, OfAgent, Idle
    <3>3. Accounted(q)'
      <4> SUFFICES ASSUME req'[q].pc = "delete" PROVE Accounted(q)'
        BY DEF Accounted
      <4>1. req'[q] = req[q] /\ Accounted(q)
        BY <3>1 DEF Known, Idle
      <4>2. fresh.user = req[q].user => fresh.late
        BY <2>7, <4>1
      <4>3. \A j \in Keys : key'[j] # None /\ key'[j].user = req[q].user =>
              j \in req[q].revokes \/ key'[j].revoked \/ key'[j].late
        BY <2>3, <4>1, <4>2 DEF Accounted
      <4>4. req[q].user # None
        BY <4>1 DEF Accounted
      <4> QED BY <4>1, <4>3, <4>4 DEF Accounted
    <3> QED BY <3>2, <3>3
  <2> QED BY <2>2, <2>4, <2>5 DEF Known
<1> QED BY <1>3, <1>4 DEF InsertKey

\* What goes unlinked was revoked with the user, or came late; other removals are
\* about other users, or fail.
LEMMA DeleteUserStep ==
    ASSUME Known, NEW r \in Requests, DeleteUser(r)
    PROVE  Known'
<1> DEFINE u == req[r].user
<1>1. req' = [req EXCEPT ![r] = Idle] /\ UNCHANGED env
  BY DEF DeleteUser, Kept
<1>2. Idle \in Call /\ Idle.pc = "idle"
  BY DEF Idle, Call
<1>3. CASE UNCHANGED <<agent, key>>
  BY <1>1, <1>2, <1>3, CallStep
<1>4. CASE /\ agent' = agent \ {u}
           /\ key' = [k \in Keys |->
                        IF k \notin KeysOf(u) THEN key[k]
                        ELSE [key[k] EXCEPT !.user = None,
                                            !.revoked = @ \/ k \in req[r].revokes]]
  <2>1. u # None /\ Accounted(r) /\ req[r].pc = "delete"
    BY DEF Known, DeleteUser, Accounted
  <2>2. \A k \in Keys : key[k] # None => key[k] \in Row
    BY DEF Known, Typed
  <2>3. ASSUME NEW k \in Keys
        PROVE  \/ k \notin KeysOf(u) /\ key'[k] = key[k]
               \/ /\ key[k] # None /\ key[k].user = u
                  /\ key'[k] = [key[k] EXCEPT !.user = None,
                                              !.revoked = @ \/ k \in req[r].revokes]
    BY <1>4 DEF KeysOf
  <2>4. ASSUME NEW k \in Keys, key[k] # None, key[k].user = u,
               key'[k] = [key[k] EXCEPT !.user = None, !.revoked = @ \/ k \in req[r].revokes]
        PROVE  /\ key'[k] \in Row
               /\ key'[k].user = None
               /\ key'[k].revoked \/ key'[k].late
    <3>1. key[k] \in Row
      BY <2>2, <2>4
    <3>2. key'[k].revoked = (key[k].revoked \/ k \in req[r].revokes)
      BY <2>4, <3>1 DEF Row
    <3>3. key'[k].late = key[k].late /\ key'[k].user = None
      BY <2>4, <3>1 DEF Row
    <3>5. key'[k] \in Row
      BY <2>4, <3>1 DEF Row
    <3>6. k \in req[r].revokes \/ key[k].revoked \/ key[k].late
      BY <2>1, <2>4 DEF Accounted
    <3> QED BY <3>2, <3>3, <3>5, <3>6
  <2>5. Typed'
    <3>1. \A k \in Keys : key'[k] \in Row \cup {None}
      BY <2>2, <2>3, <2>4
    <3>2. key' \in [Keys -> Row \cup {None}]
      BY <1>4, <3>1
    <3>3. agent' \subseteq Agents /\ req' \in [Requests -> Call] /\ env' \subseteq Envs
      BY <1>1, <1>2, <1>4 DEF Known, Typed
    <3> QED BY <3>2, <3>3 DEF Typed
  <2>6. UnlinkedOnlyByOverlap'
    BY <2>3, <2>4 DEF Known, UnlinkedOnlyByOverlap
  <2>7. ASSUME NEW q \in Requests PROVE (FoundNone(q) /\ OfAgent(q) /\ Accounted(q))'
    <3>1. req'[q] = IF q = r THEN Idle ELSE req[q]
      BY <1>1 DEF Known, Typed
    <3>2. FoundNone(q)' /\ OfAgent(q)'
      BY <1>2, <1>4, <3>1 DEF Known, FoundNone, OfAgent
    <3>3. Accounted(q)'
      <4> SUFFICES ASSUME req'[q].pc = "delete" PROVE Accounted(q)'
        BY DEF Accounted
      <4>1. req'[q] = req[q] /\ Accounted(q) /\ req[q].user # None
        BY <1>2, <3>1 DEF Known, Accounted
      <4>2. ASSUME NEW k \in Keys, key'[k] # None, key'[k].user = req[q].user
            PROVE  k \in req[q].revokes \/ key'[k].revoked \/ key'[k].late
        <5>1. key'[k] = key[k]
          BY <2>3, <2>4, <4>1, <4>2
        <5> QED BY <4>1, <4>2, <5>1 DEF Accounted
      <4> QED BY <4>1, <4>2 DEF Accounted
    <3> QED BY <3>2, <3>3
  <2> QED BY <2>5, <2>6, <2>7 DEF Known
<1> QED BY <1>3, <1>4 DEF DeleteUser, Kept

\* A handler that changes keys without touching users, or environments only: no key
\* loses a mark or gets a user.
LEMMA KeysStep ==
    ASSUME Known, UNCHANGED <<agent, req>>, env' \subseteq Envs,
           key' \in [Keys -> Row \cup {None}],
           \A k \in Keys : key'[k] # None =>
               /\ key[k] # None
               /\ key'[k].user = key[k].user
               /\ key'[k].agent = key[k].agent
               /\ key[k].revoked => key'[k].revoked
               /\ key[k].late => key'[k].late
    PROVE  Known'
<1>1. Typed'
  BY DEF Known, Typed
<1>2. UnlinkedOnlyByOverlap'
  BY DEF Known, UnlinkedOnlyByOverlap
<1>3. \A q \in Requests : (FoundNone(q) /\ OfAgent(q) /\ Accounted(q))'
  BY DEF Known, FoundNone, OfAgent, Accounted
<1> QED BY <1>1, <1>2, <1>3 DEF Known

-----------------------------------------------------------------------------
\* Every step keeps what is known.
LEMMA EveryStep ==
    Known /\ [Next]_vars => Known'
<1> SUFFICES ASSUME Known, [Next]_vars PROVE Known'
  OBVIOUS
<1>1. CASE UNCHANGED vars
  BY <1>1 DEF vars, Known, Typed, UnlinkedOnlyByOverlap, FoundNone, OfAgent, Accounted
<1>2. ASSUME NEW r \in Requests, Step(r) PROVE Known'
  <2>1. req[r] \in Call
    BY DEF Known, Typed
  <2>2. Idle \in Call /\ Idle.pc = "idle"
    BY DEF Idle, Call
  <2>3. CASE \E e \in Envs, type \in {"AGENT", "SERVER"} : Create(r, e, type)
    <3> PICK e \in Envs, type \in {"AGENT", "SERVER"} : Create(r, e, type)
      BY <2>3
    <3> DEFINE c == [Idle EXCEPT !.pc = IF type = "AGENT" THEN "find" ELSE "insert", !.env = e]
    <3>1. c \in Call /\ c.pc \in {"find", "insert"}
      BY DEF Idle, Call
    <3>2. req' = [req EXCEPT ![r] = c] /\ UNCHANGED <<agent, env, key>>
      BY DEF Create
    <3> QED BY <3>1, <3>2, CallStep
  <2>4. CASE FindAgent(r)
    <3>1. CASE agent = {} /\ Goto(r, "agent")
      <4> DEFINE c == [req[r] EXCEPT !.pc = "agent"]
      <4>1. c \in Call /\ c.pc = "agent"
        BY <2>1 DEF Call
      <4>2. req' = [req EXCEPT ![r] = c] /\ UNCHANGED <<agent, env, key>>
        BY <2>4, <3>1 DEF FindAgent, Goto
      <4> QED BY <3>1, <4>1, <4>2, CallStep
    <3>2. CASE \E u \in agent : req' = [req EXCEPT ![r].pc = "member", ![r].user = u]
      <4> PICK u \in agent : req' = [req EXCEPT ![r].pc = "member", ![r].user = u]
        BY <3>2
      <4> DEFINE c == [req[r] EXCEPT !.pc = "member", !.user = u]
      <4>1. c \in Call /\ c.pc = "member"
        BY <2>1 DEF Call, Known, Typed
      <4>2. req' = [req EXCEPT ![r] = c] /\ UNCHANGED <<agent, env, key>>
        BY <2>4 DEF FindAgent
      <4> QED BY <4>1, <4>2, CallStep
    <3> QED BY <2>4, <3>1, <3>2 DEF FindAgent, ExistingAgents
  <2>5. CASE \E u \in Agents : CreateAgent(r, u)
    BY <2>5, CreateAgentStep
  <2>6. CASE UpsertMember(r)
    <3> DEFINE c == [req[r] EXCEPT !.pc = "insert"]
    <3>1. c \in Call /\ c.pc = "insert"
      BY <2>1 DEF Call
    <3>2. UNCHANGED <<agent, env, key>>
      BY <2>6 DEF UpsertMember
    <3>3. req' = [req EXCEPT ![r] = c] \/ req' = [req EXCEPT ![r] = Idle]
      BY <2>6 DEF UpsertMember, Goto
    <3> QED BY <2>2, <3>1, <3>2, <3>3, CallStep
  <2>7. CASE \E k \in Keys : InsertKey(r, k)
    BY <2>7, InsertKeyStep
  <2>8. CASE \E u \in Agents : RemoveMember(r, u)
    <3> PICK u \in Agents : RemoveMember(r, u)
      BY <2>8
    <3> DEFINE c == [Idle EXCEPT !.pc = "memberships", !.user = u]
    <3>1. c \in Call /\ c.pc = "memberships" /\ c.user = u
      BY DEF Idle, Call
    <3>2. req' = [req EXCEPT ![r] = c] /\ UNCHANGED <<agent, env, key>>
      BY DEF RemoveMember
    <3>3. u # None
      OBVIOUS
    <3> QED BY <3>1, <3>2, <3>3, CallStep
  <2>9. CASE DeleteMemberships(r)
    <3> DEFINE left == req[r].user \in member
               c == [req[r] EXCEPT !.pc = "revoke", !.left = left]
    <3>0. left \in BOOLEAN
      OBVIOUS
    <3>1. c \in Call /\ c.pc = "revoke" /\ c.user = req[r].user
      <4> HIDE DEF left
      <4> QED BY <2>1, <3>0 DEF Call
    <3>2. req' = [req EXCEPT ![r] = c] /\ UNCHANGED <<agent, env, key>>
      BY <2>9 DEF DeleteMemberships
    <3>3. c.user # None
      BY <2>9, <3>1 DEF DeleteMemberships, Known, OfAgent
    <3> QED BY <3>1, <3>2, <3>3, CallStep
  <2>10. CASE RevokeKeys(r)
    <3> DEFINE c == [req[r] EXCEPT !.pc = "delete", !.revokes = KeysOf(req[r].user)]
    <3>1. c \in Call /\ c.pc = "delete" /\ c.user = req[r].user
      BY <2>1 DEF Call, KeysOf
    <3>2. req' = [req EXCEPT ![r] = c] /\ UNCHANGED <<agent, env, key>>
      BY <2>10 DEF RevokeKeys, Revocable
    <3>3. c.user # None
      BY <2>10, <3>1 DEF RevokeKeys, Known, OfAgent
    <3>4. \A k \in Keys : key[k] # None /\ key[k].user = c.user => k \in c.revokes
      BY <2>1, <3>1 DEF Call, KeysOf
    <3> QED BY <3>1, <3>2, <3>3, <3>4, CallStep
  <2>11. CASE DeleteUser(r)
    BY <2>11, DeleteUserStep
  <2>12. CASE Fails(r)
    BY <2>2, <2>12, CallStep DEF Fails
  <2> QED
    BY <1>2, <2>3, <2>4, <2>5, <2>6, <2>7, <2>8, <2>9, <2>10, <2>11, <2>12 DEF Step
<1>3. \A k \in Keys : key[k] # None => key[k] \in Row
  BY DEF Known, Typed
<1>4. ASSUME NEW k \in Keys, RevokeByKeyId(k) PROVE Known'
  BY <1>3, <1>4, KeysStep DEF RevokeByKeyId, Row, Known, Typed
<1>5. ASSUME NEW k \in Keys, DeleteApiKeyByKeyId(k) PROVE Known'
  BY <1>5, KeysStep DEF DeleteApiKeyByKeyId, Known, Typed
<1>6. ASSUME NEW e \in Envs, RemoveEnvironment(e) PROVE Known'
  BY <1>3, <1>6, KeysStep DEF RemoveEnvironment, Row, Known, Typed
<1>7. ASSUME NEW e \in Envs, CreateEnvironment(e) PROVE Known'
  BY <1>7, KeysStep DEF CreateEnvironment, Known, Typed
<1> QED BY <1>1, <1>2, <1>4, <1>5, <1>6, <1>7 DEF Next

-----------------------------------------------------------------------------
\* The foreign keys: a member is a user, and a key's user exists or was taken away.
Referenced ==
    /\ member \subseteq agent
    /\ \A k \in Keys : key[k] # None => key[k].user \in agent \cup {None}

\* Each statement refers to rows that are there, and takes those that refer to it along.
LEMMA ReferencedStep ==
    ASSUME Known, Referenced, [Next]_vars
    PROVE  Referenced'
<1>t. /\ key \in [Keys -> Row \cup {None}] /\ req \in [Requests -> Call]
      /\ agent \subseteq Agents
  BY DEF Known, Typed
<1>1. ASSUME UNCHANGED <<agent, member, key>> PROVE Referenced'
  BY <1>1 DEF Referenced
<1>2. ASSUME NEW r \in Requests, Step(r) PROVE Referenced'
  <2>1. CASE \/ \E e \in Envs, type \in {"AGENT", "SERVER"} : Create(r, e, type)
             \/ FindAgent(r)
             \/ \E u \in Agents : RemoveMember(r, u)
             \/ DeleteMemberships(r)
             \/ RevokeKeys(r)
             \/ Fails(r)
    BY <1>1, <2>1 DEF Create, FindAgent, RemoveMember, DeleteMemberships, RevokeKeys, Fails
  <2>2. CASE \E u \in Agents : CreateAgent(r, u)
    BY <2>2 DEF Referenced, CreateAgent
  <2>3. CASE UpsertMember(r)
    BY <2>3 DEF Referenced, UpsertMember
  <2>4. ASSUME NEW k \in Keys, InsertKey(r, k) PROVE Referenced'
    <3> DEFINE u == req[r].user
               inserted == [agent |-> u # None, user |-> u, env |-> req[r].env,
                            revoked |-> FALSE,
                            late |-> \E q \in Requests : req[q].pc = "delete" /\ req[q].user = u]
    <3>1. /\ UNCHANGED <<agent, member>>
          /\ key' = key \/ (key' = [key EXCEPT ![k] = inserted] /\ u \in agent \cup {None})
      BY <2>4 DEF InsertKey
    <3>2. inserted.user = u
      OBVIOUS
    <3> HIDE DEF inserted
    <3> QED BY <1>t, <3>1, <3>2 DEF Referenced
  <2>5. CASE DeleteUser(r)
    <3> DEFINE u == req[r].user
    <3>1. CASE UNCHANGED <<agent, member, key>>
      BY <1>1, <3>1
    <3>2. CASE /\ ~ (u \notin agent \/ (u \in member /\ ~ req[r].left))
               /\ agent' = agent \ {u}
               /\ member' = IF req[r].left THEN member \ {u} ELSE member
               /\ key' = [k \in Keys |->
                            IF k \notin KeysOf(u) THEN key[k]
                            ELSE [key[k] EXCEPT !.user = None,
                                                !.revoked = @ \/ k \in req[r].revokes]]
      <4>1. member' \subseteq agent'
        BY <3>2 DEF Referenced
      <4>2. ASSUME NEW k \in Keys, key'[k] # None PROVE key'[k].user \in agent' \cup {None}
        <5>1. CASE k \notin KeysOf(u)
          BY <3>2, <4>2, <5>1 DEF KeysOf, Referenced
        <5>2. CASE k \in KeysOf(u)
          <6>1. key[k] \in Row
            BY <1>t, <5>2 DEF KeysOf
          <6>2. key'[k] = [key[k] EXCEPT !.user = None, !.revoked = @ \/ k \in req[r].revokes]
            BY <3>2, <5>2
          <6>3. key'[k].user = None
            BY <6>1, <6>2 DEF Row
          <6> QED BY <6>3
        <5> QED BY <5>1, <5>2
      <4> QED BY <4>1, <4>2 DEF Referenced
    <3> QED BY <2>5, <3>1, <3>2 DEF DeleteUser, Kept
  <2> QED BY <1>2, <2>1, <2>2, <2>3, <2>4, <2>5 DEF Step
<1>3. ASSUME NEW k \in Keys, RevokeByKeyId(k) \/ DeleteApiKeyByKeyId(k) PROVE Referenced'
  <2>1. CASE RevokeByKeyId(k)
    <3>1. key' = [key EXCEPT ![k].revoked = TRUE] /\ key[k] \in Row
      BY <1>t, <2>1 DEF RevokeByKeyId
    <3>2. key'[k].user = key[k].user /\ \A j \in Keys : j # k => key'[j] = key[j]
      BY <1>t, <3>1 DEF Row
    <3> QED BY <2>1, <3>2 DEF Referenced, RevokeByKeyId
  <2>2. CASE DeleteApiKeyByKeyId(k)
    BY <1>t, <2>2 DEF Referenced, DeleteApiKeyByKeyId
  <2> QED BY <1>3, <2>1, <2>2
<1>4. ASSUME NEW e \in Envs, RemoveEnvironment(e) \/ CreateEnvironment(e) PROVE Referenced'
  <2>1. CASE RemoveEnvironment(e)
    <3>1. ASSUME NEW k \in Keys, key'[k] # None
          PROVE  key[k] # None /\ key'[k].user = key[k].user
      <4>1. key'[k] = IF key[k] # None /\ key[k].env = e
                      THEN [key[k] EXCEPT !.env = None] ELSE key[k]
        BY <2>1 DEF RemoveEnvironment
      <4>2. key[k] # None
        BY <3>1, <4>1
      <4>3. key[k] \in Row
        BY <1>t, <4>2
      <4> QED BY <4>1, <4>2, <4>3 DEF Row
    <3> QED BY <2>1, <3>1 DEF Referenced, RemoveEnvironment
  <2>2. CASE CreateEnvironment(e)
    BY <1>1, <2>2 DEF CreateEnvironment
  <2> QED BY <1>4, <2>1, <2>2
<1> QED BY <1>1, <1>2, <1>3, <1>4 DEF Next, vars

-----------------------------------------------------------------------------
\* Whatever the number of agent users, keys and overlapping calls, an AGENT key that
\* has lost its user is revoked, or was inserted after the removal revoked the others.
THEOREM UnlinkedByOverlap ==
    Spec => []UnlinkedOnlyByOverlap
<1>1. Known => UnlinkedOnlyByOverlap
  BY DEF Known
<1> QED BY <1>1, KnownInit, EveryStep, PTL DEF Spec

\* An organization gets a second agent user only by a creation that was overtaken by
\* another between looking for the first and creating its own.
THEOREM SecondAgentByOvertaking ==
    Spec => SecondAgentOnlyByOvertaking
<1>1. Known /\ [Next]_vars =>
        [\A r \in Requests, u \in Agents : CreateAgent(r, u) /\ agent # {} => req[r].overtaken]_vars
  BY DEF Known, FoundNone, CreateAgent
<1> QED BY <1>1, KnownInit, EveryStep, PTL DEF Spec, SecondAgentOnlyByOvertaking
-----------------------------------------------------------------------------
(* The strategies of an action, for any number of them and of calls.       *)

LEMMA ActionCounting ==
    ASSUME NEW S
    PROVE  /\ Action!Cardinality(S) = Cardinality(S)
           /\ Action!IsFiniteSet(S) = IsFiniteSet(S)
<1>1. Action!IsFiniteSet(S) = IsFiniteSet(S)
  BY DEF Action!IsFiniteSet, IsFiniteSet
<1>2. Action!Cardinality(S) = Cardinality(S)
  BY DEF Action!Cardinality, Cardinality
<1> QED BY <1>1, <1>2

\* The strategies of an action and their priorities.
Priorities == [Strategies -> {-1} \cup Nat]

\* What a call gives for the strategies that it keeps.
Gives == {-2} \cup 0..MaxGiven

\* A call and what it knows, gives, adds and sees.
ActionCall ==
    [pc : {"idle", "begin", "ops", "recalculated"}, own : BOOLEAN,
     known : SUBSET Strategies,
     given : UNION {[kept -> Gives] : kept \in SUBSET Strategies},
     fresh : SUBSET Strategies, view : Priorities \cup {<<>>}]

ActionTyped ==
    /\ row \in Priorities \cup {Action!NoAction}
    /\ tx \in [Requests -> ActionCall]
    /\ met \in [Requests -> BOOLEAN]
    /\ \A r \in Requests : /\ DOMAIN tx[r].given \subseteq tx[r].known
                           /\ tx[r].known \cap tx[r].fresh = {}

\* Two calls write at a time only if one of them has not locked the action's row, and
\* both are then marked.
Exclusive ==
    \A r \in Requests :
        Action!Writing(r) =>
            /\ tx[r].view \in Priorities
            /\ \A q \in Requests : Action!Writing(q) /\ q # r => met[r]

\* Before the renumbering the strategies have the priorities given, after it their order.
GivenIsSeen(r) ==
    tx[r].pc = "ops" =>
        \A s \in DOMAIN tx[r].given : tx[r].given[s] # -2 => tx[r].view[s] = tx[r].given[s]

GivenOrder(r) ==
    tx[r].pc = "recalculated" =>
        \A s, t \in DOMAIN tx[r].given :
            tx[r].given[s] > tx[r].given[t] /\ tx[r].given[t] # -2
                => tx[r].view[s] > tx[r].view[t]

\* The renumbering is of all rows: of those that the call has not written, it has
\* seen every one there is, unless it met another that added one.
AllNumbered(r) ==
    tx[r].pc = "recalculated" =>
        /\ Action!Compact(tx[r].view)
        /\ ~met[r] => Action!Live(row) \ Action!Locked(r) \subseteq Action!Live(tx[r].view)

ActionInv ==
    /\ ActionTyped
    /\ Exclusive
    /\ \A r \in Requests : GivenIsSeen(r) /\ GivenOrder(r) /\ AllNumbered(r)

\* The strategies there are, among finitely many.
LEMMA LiveOf ==
    ASSUME NEW p \in Priorities
    PROVE  /\ Action!Live(p) = {s \in Strategies : p[s] # -1}
           /\ \A s \in Action!Live(p) : p[s] \in Nat
           /\ IsFiniteSet(Action!Live(p)) /\ Cardinality(Action!Live(p)) \in Nat
<1>1. Action!Live(p) = {s \in Strategies : p[s] # -1}
  BY DEF Action!Live, Action!NoRow, Priorities
<1>2. \A s \in Action!Live(p) : p[s] \in Nat
  BY <1>1 DEF Priorities
<1>3. IsFiniteSet(Action!Live(p)) /\ Cardinality(Action!Live(p)) \in Nat
  BY <1>1, ActionAssumption, FS_Subset, FS_CardinalityType
<1> QED BY <1>1, <1>2, <1>3

\* What a renumbering gives: the same strategies, each number once, in their order.
LEMMA Renumbered ==
    ASSUME NEW p \in Priorities, NEW f \in Action!Descending(p)
    PROVE  /\ Action!Numbered(f) \in Priorities
           /\ Action!Live(Action!Numbered(f)) = Action!Live(p)
           /\ Action!Compact(Action!Numbered(f))
           /\ \A s, t \in Action!Live(p) :
                p[s] > p[t] => Action!Numbered(f)[s] > Action!Numbered(f)[t]
<1> DEFINE live == Action!Live(p)
           n == Cardinality(live)
           rows == Action!Numbered(f)
<1>1. /\ live = {s \in Strategies : p[s] # -1} /\ \A s \in live : p[s] \in Nat
      /\ IsFiniteSet(live) /\ n \in Nat
  BY LiveOf
<1>2. /\ f \in [live -> 0..n - 1]
      /\ \A s, t \in live : s # t => f[s] # f[t] /\ (p[s] > p[t] => f[s] > f[t])
  BY ActionCounting DEF Action!Descending
<1> HIDE DEF live, n
<1>3. rows = [s \in Strategies |-> IF s \in live THEN f[s] ELSE -1]
  BY <1>2 DEF Action!Numbered, Action!NoRow
<1>4. rows \in Priorities
  BY <1>1, <1>2, <1>3 DEF Priorities
<1>5. \A s \in live : rows[s] = f[s] /\ f[s] \in 0..n - 1
  BY <1>1, <1>2, <1>3
<1>6. Action!Live(rows) = live
  <2>1. Action!Live(rows) = {s \in Strategies : rows[s] # -1}
    BY <1>4, LiveOf
  <2>2. \A s \in Strategies : rows[s] # -1 <=> s \in live
    BY <1>1, <1>3, <1>5
  <2> QED BY <1>1, <2>1, <2>2
<1>7. {rows[s] : s \in live} = 0..n - 1
  <2>1. f \in Injection(live, 0..n - 1)
    BY <1>2 DEF Injection, IsInjective
  <2>2. IsFiniteSet(0..n - 1) /\ Cardinality(0..n - 1) = n
    BY <1>1, FS_Interval
  <2>3. f \in Surjection(live, 0..n - 1)
    BY <2>1, <2>2, FS_Injection DEF n
  <2>4. \A i \in 0..n - 1 : \E s \in live : f[s] = i
    BY <2>3 DEF Surjection
  <2> QED BY <1>5, <2>4
<1>8. Action!Compact(rows)
  BY <1>6, <1>7, ActionCounting DEF Action!Compact, n
<1>9. \A s, t \in live : p[s] > p[t] => rows[s] > rows[t]
  <2>1. ASSUME NEW s \in live, NEW t \in live, p[s] > p[t] PROVE rows[s] > rows[t]
    <3>1. s # t
      BY <1>1, <2>1
    <3> QED BY <1>2, <1>5, <2>1, <3>1
  <2> QED BY <2>1
<1> QED BY <1>4, <1>6, <1>8, <1>9 DEF live

\* One call changes its own record, and the rows are as they were: what is left to
\* show is about that call, and that those it meets are marked.
LEMMA CallChanges ==
    ASSUME ActionInv, NEW r \in Requests, NEW c \in ActionCall,
           tx' = [tx EXCEPT ![r] = c], UNCHANGED row,
           met' \in [Requests -> BOOLEAN],
           \A q \in Requests : q # r /\ met[q] => met'[q],
           DOMAIN c.given \subseteq c.known, c.known \cap c.fresh = {},
           c.pc \in {"ops", "recalculated"} =>
               /\ c.view \in Priorities
               /\ \A q \in Requests : Action!Writing(q) /\ q # r => met'[q] /\ met'[r],
           c.pc = "ops" =>
               \A s \in DOMAIN c.given : c.given[s] # -2 => c.view[s] = c.given[s],
           c.pc = "recalculated" =>
               /\ \A s, t \in DOMAIN c.given :
                    c.given[s] > c.given[t] /\ c.given[t] # -2 => c.view[s] > c.view[t]
               /\ Action!Compact(c.view)
               /\ ~met'[r] => Action!Live(row) \ (c.known \cup c.fresh) \subseteq Action!Live(c.view)
    PROVE  ActionInv'
<1>t. tx \in [Requests -> ActionCall]
  BY DEF ActionInv, ActionTyped
<1>1. tx'[r] = c /\ \A q \in Requests : q # r => tx'[q] = tx[q]
  BY <1>t
<1>2. ActionTyped'
  <2>1. tx' \in [Requests -> ActionCall]
    BY <1>t
  <2> QED BY <1>1, <2>1 DEF ActionInv, ActionTyped
<1>w. \A q \in Requests : q # r => (Action!Writing(q)' <=> Action!Writing(q))
  BY <1>1 DEF Action!Writing
<1>3. Exclusive'
  <2>1. ASSUME NEW p \in Requests, Action!Writing(p)'
        PROVE  /\ tx'[p].view \in Priorities
               /\ \A q \in Requests : Action!Writing(q)' /\ q # p => met'[p]
    <3>1. CASE p = r
      <4>1. c.pc \in {"ops", "recalculated"}
        BY <1>1, <2>1, <3>1 DEF Action!Writing
      <4> QED BY <1>1, <1>w, <3>1, <4>1
    <3>2. CASE p # r
      <4>1. Action!Writing(p) /\ tx'[p].view \in Priorities
        BY <1>1, <1>w, <2>1, <3>2 DEF ActionInv, Exclusive
      <4>2. ASSUME NEW q \in Requests, Action!Writing(q)', q # p PROVE met'[p]
        <5>1. CASE q = r
          <6>1. c.pc \in {"ops", "recalculated"}
            BY <1>1, <4>2, <5>1 DEF Action!Writing
          <6> QED BY <3>2, <4>1, <6>1
        <5>2. CASE q # r
          <6>1. met[p]
            BY <1>w, <4>1, <4>2, <5>2 DEF ActionInv, Exclusive
          <6> QED BY <3>2, <6>1
        <5> QED BY <5>1, <5>2
      <4> QED BY <4>1, <4>2
    <3> QED BY <3>1, <3>2
  <2> QED BY <2>1 DEF Exclusive
<1>4. ASSUME NEW q \in Requests
      PROVE  (GivenIsSeen(q) /\ GivenOrder(q) /\ AllNumbered(q))'
  <2>1. CASE q # r
    <3>1. GivenIsSeen(q) /\ GivenOrder(q) /\ AllNumbered(q)
      BY DEF ActionInv
    <3>2. tx'[q] = tx[q] /\ row' = row /\ (met[q] => met'[q])
      BY <1>1, <2>1
    <3>3. Action!Locked(q)' = Action!Locked(q)
      BY <3>2 DEF Action!Locked, Action!Writing
    <3> QED BY <3>1, <3>2, <3>3 DEF GivenIsSeen, GivenOrder, AllNumbered
  <2>2. CASE q = r
    <3>1. c.pc = "recalculated" => Action!Locked(r)' = c.known \cup c.fresh
      BY <1>1 DEF Action!Locked, Action!Writing
    <3> QED BY <1>1, <2>2, <3>1 DEF GivenIsSeen, GivenOrder, AllNumbered
  <2> QED BY <2>1, <2>2
<1> QED BY <1>2, <1>3, <1>4 DEF ActionInv

\* A call that has ended.
LEMMA IdleIsCall ==
    /\ Action!Idle \in ActionCall /\ Action!Idle.pc = "idle"
    /\ DOMAIN Action!Idle.given \subseteq Action!Idle.known
    /\ Action!Idle.known \cap Action!Idle.fresh = {}
<1>1. Action!Idle = [pc |-> "idle", own |-> FALSE, known |-> {}, given |-> <<>>, fresh |-> {},
                     view |-> <<>>]
  BY DEF Action!Idle
<1>2. <<>> \in [{} -> Gives]
  OBVIOUS
<1>3. <<>> \in UNION {[kept -> Gives] : kept \in SUBSET Strategies}
  BY <1>2
<1>4. Action!Idle \in ActionCall
  BY <1>1, <1>3 DEF ActionCall
<1> QED BY <1>1, <1>4

\* A call that ends writes no more.
LEMMA IdleAgain ==
    ASSUME ActionInv, NEW r \in Requests, tx' = [tx EXCEPT ![r] = Action!Idle], UNCHANGED row,
           met' = [met EXCEPT ![r] = FALSE]
    PROVE  ActionInv'
<1>1. met' \in [Requests -> BOOLEAN] /\ \A q \in Requests : q # r /\ met[q] => met'[q]
  BY DEF ActionInv, ActionTyped
<1> QED BY <1>1, IdleIsCall, CallChanges

\* The rows change while no call has begun to write, or go with their action, or keep
\* who is live and what the calls have written.
LEMMA RowsChange ==
    ASSUME ActionInv, UNCHANGED <<tx, met>>, row' \in Priorities \cup {Action!NoAction},
           \/ \A r \in Requests : ~ Action!Writing(r)
           \/ Action!Live(row') \subseteq Action!Live(row)
    PROVE  ActionInv'
<1>1. ActionTyped'
  BY DEF ActionInv, ActionTyped
<1>2. Exclusive'
  BY DEF ActionInv, Exclusive, Action!Writing
<1>3. ASSUME NEW q \in Requests
      PROVE  (GivenIsSeen(q) /\ GivenOrder(q) /\ AllNumbered(q))'
  <2>1. GivenIsSeen(q) /\ GivenOrder(q) /\ AllNumbered(q)
    BY DEF ActionInv
  <2>2. Action!Locked(q)' = Action!Locked(q)
    BY DEF Action!Locked, Action!Writing
  <2>3. (Action!Live(row))' = Action!Live(row')
    BY DEF Action!Live
  <2> QED BY <2>1, <2>2, <2>3 DEF GivenIsSeen, GivenOrder, AllNumbered, Action!Writing
<1> QED BY <1>1, <1>2, <1>3 DEF ActionInv

\* updateAction reads what there is, and no strategy that it adds is one of them.
LEMMA UpdateActionStep ==
    ASSUME ActionInv, NEW r \in Requests, Action!UpdateAction(r)
    PROVE  ActionInv'
<1>t. row \in Priorities
  BY DEF ActionInv, ActionTyped, Action!UpdateAction
<1>1. PICK own \in BOOLEAN, kept \in SUBSET Action!Live(row) :
      \E given \in [kept -> 0..MaxGiven \cup {-2}] :
      \E fresh \in SUBSET (Strategies \ (Action!Live(row) \cup Action!Mentioned)) :
          tx' = [tx EXCEPT ![r] = [pc |-> "begin", own |-> own, known |-> Action!Live(row),
                                      given |-> given, fresh |-> fresh, view |-> <<>>]]
  BY DEF Action!UpdateAction, Action!Keep
<1>2. PICK given \in [kept -> 0..MaxGiven \cup {-2}],
           fresh \in SUBSET (Strategies \ (Action!Live(row) \cup Action!Mentioned)) :
          tx' = [tx EXCEPT ![r] = [pc |-> "begin", own |-> own, known |-> Action!Live(row),
                                      given |-> given, fresh |-> fresh, view |-> <<>>]]
  BY <1>1
<1> DEFINE c == [pc |-> "begin", own |-> own, known |-> Action!Live(row), given |-> given,
                 fresh |-> fresh, view |-> <<>>]
<1>4. Action!Live(row) \subseteq Strategies
  BY <1>t, LiveOf
<1>5. given \in UNION {[k -> Gives] : k \in SUBSET Strategies}
  <2>1. given \in [kept -> Gives] /\ kept \in SUBSET Strategies
    BY <1>2, <1>4 DEF Gives
  <2> QED BY <2>1
<1>6. c \in ActionCall
  BY <1>4, <1>5 DEF ActionCall
<1>7. /\ c.pc = "begin" /\ DOMAIN c.given \subseteq c.known /\ c.known \cap c.fresh = {}
  BY <1>2
<1>8. tx' = [tx EXCEPT ![r] = c] /\ UNCHANGED <<row, met>>
  BY <1>2 DEF Action!UpdateAction
<1>9. met' \in [Requests -> BOOLEAN] /\ \A q \in Requests : q # r /\ met[q] => met'[q]
  BY <1>8 DEF ActionInv, ActionTyped
<1> HIDE DEF c
<1> QED BY <1>6, <1>7, <1>8, <1>9, CallChanges

\* The statements about the request's strategies give each its priority.
LEMMA WriteStrategiesStep ==
    ASSUME ActionInv, NEW r \in Requests, Action!WriteStrategies(r)
    PROVE  ActionInv'
<1>t. /\ row \in Priorities /\ tx \in [Requests -> ActionCall]
      /\ DOMAIN tx[r].given \subseteq tx[r].known /\ tx[r].known \cap tx[r].fresh = {}
  BY DEF ActionInv, ActionTyped, Action!WriteStrategies
<1> DEFINE view == Action!Changed(r)
           known == tx[r].known \cap Action!Live(row)
           c == [pc |-> "ops", own |-> tx[r].own, known |-> known, given |-> tx[r].given,
                 fresh |-> tx[r].fresh, view |-> view]
<1>0. /\ ~ Action!Writing(r) /\ DOMAIN tx[r].given \subseteq known
      /\ met' = [q \in Requests |-> IF q = r THEN \E p \in Requests : Action!Beside(p, r)
                                    ELSE met[q] \/ Action!Beside(q, r)]
  BY DEF Action!WriteStrategies, Action!Writing
<1>1. ASSUME NEW q \in Requests, Action!Writing(q), q # r PROVE met'[q] /\ met'[r]
  <2>1. ~(tx[q].own /\ tx[r].own)
    BY <1>1 DEF Action!WriteStrategies, Action!ActionLock
  <2>2. Action!Beside(q, r)
    BY <1>1, <2>1 DEF Action!Beside
  <2> QED BY <1>0, <1>1, <2>2
<1>m. met' \in [Requests -> BOOLEAN] /\ \A q \in Requests : q # r /\ met[q] => met'[q]
  <2>1. \A q \in Requests : met[q] \in BOOLEAN
    BY DEF ActionInv, ActionTyped
  <2> QED BY <1>0, <2>1
<1>2. tx[r] \in ActionCall
  BY <1>t
<1>3. \A s \in DOMAIN tx[r].given : tx[r].given[s] \in Gives
  BY <1>2 DEF ActionCall
<1>4. view \in Priorities
  <2>1. view = [s \in Strategies |-> view[s]]
    BY DEF Action!Changed
  <2>2. ASSUME NEW s \in Strategies PROVE view[s] \in {-1} \cup Nat
    <3>1. row[s] \in {-1} \cup Nat
      BY <1>t DEF Priorities
    <3>2. s \in DOMAIN tx[r].given => tx[r].given[s] = -2 \/ tx[r].given[s] \in Nat
      BY <1>3, ActionAssumption DEF Gives
    <3> QED BY <3>1, <3>2 DEF Action!Changed, Action!Keep, Action!NoRow
  <2> HIDE DEF view
  <2> QED BY <2>1, <2>2 DEF Priorities
<1>5. \A s \in DOMAIN tx[r].given : tx[r].given[s] # -2 => view[s] = tx[r].given[s]
  BY <1>t, <1>2 DEF Action!Changed, Action!Keep, ActionCall
<1>6. tx' = [tx EXCEPT ![r] = c] /\ UNCHANGED row
  BY <1>t DEF Action!WriteStrategies, Action!Sees
<1> HIDE DEF view
<1>7. c \in ActionCall
  BY <1>2, <1>4 DEF ActionCall
<1>8. /\ c.pc = "ops" /\ c.given = tx[r].given /\ c.view = view
      /\ DOMAIN c.given \subseteq c.known /\ c.known \cap c.fresh = {}
  BY <1>t, <1>0
<1> HIDE DEF c
<1> QED BY <1>1, <1>m, <1>4, <1>5, <1>6, <1>7, <1>8, CallChanges

\* The renumbering is of what the transaction has written and all the rest there is.
LEMMA RecalculateStep ==
    ASSUME ActionInv, NEW r \in Requests, Action!Recalculate(r)
    PROVE  ActionInv'
<1>t. /\ tx[r].pc = "ops" /\ tx \in [Requests -> ActionCall] /\ tx[r] \in ActionCall
      /\ row \in Priorities /\ tx[r].view \in Priorities /\ Action!Writing(r)
      /\ DOMAIN tx[r].given \subseteq tx[r].known /\ tx[r].known \cap tx[r].fresh = {}
      /\ \A s \in DOMAIN tx[r].given : tx[r].given[s] # -2 => tx[r].view[s] = tx[r].given[s]
  BY DEF ActionInv, ActionTyped, Exclusive, Action!Writing, GivenIsSeen, Action!Recalculate
<1>m. /\ met' = met /\ met \in [Requests -> BOOLEAN]
      /\ \A q \in Requests : Action!Writing(q) /\ q # r => met'[q] /\ met'[r]
  BY <1>t DEF ActionInv, ActionTyped, Exclusive, Action!Recalculate
<1> DEFINE seen == Action!View(r)
<1>1. PICK f \in Action!Descending(seen) : 
           Action!Sees(r, "recalculated", tx[r].known, Action!Numbered(f))
  BY DEF Action!Recalculate
<1>2. seen = [s \in Strategies |-> IF s \in tx[r].known \cup tx[r].fresh
                                   THEN tx[r].view[s] ELSE row[s]]
  BY <1>t DEF Action!View, Action!Locked
<1> HIDE DEF seen
<1>3. seen \in Priorities
  BY <1>t, <1>2 DEF Priorities
<1> DEFINE view == Action!Numbered(f)
<1>4. /\ view \in Priorities /\ Action!Live(view) = Action!Live(seen) /\ Action!Compact(view)
      /\ \A s, t \in Action!Live(seen) : seen[s] > seen[t] => view[s] > view[t]
  BY <1>1, <1>3, Renumbered
<1> DEFINE c == [pc |-> "recalculated", own |-> tx[r].own, known |-> tx[r].known, given |-> tx[r].given,
                 fresh |-> tx[r].fresh, view |-> view]
<1>5. tx' = [tx EXCEPT ![r] = c] /\ UNCHANGED row
  BY <1>1, <1>t DEF Action!Recalculate, Action!Sees
<1> HIDE DEF view
<1>6. c \in ActionCall
  BY <1>t, <1>4 DEF ActionCall
<1>7. Action!Live(row) \ (c.known \cup c.fresh) \subseteq Action!Live(view)
  <2>1. Action!Live(row) = {s \in Strategies : row[s] # -1}
    BY <1>t, LiveOf
  <2>2. Action!Live(seen) = {s \in Strategies : seen[s] # -1}
    BY <1>3, LiveOf
  <2> QED BY <1>2, <1>4, <2>1, <2>2
<1>8. ASSUME NEW s \in DOMAIN tx[r].given, NEW t \in DOMAIN tx[r].given,
             tx[r].given[s] > tx[r].given[t], tx[r].given[t] # -2
      PROVE  view[s] > view[t]
  <2>1. s \in Strategies /\ t \in Strategies /\ s \in tx[r].known /\ t \in tx[r].known
    BY <1>t, <1>8 DEF ActionCall
  <2>2. tx[r].given[s] \in Gives /\ tx[r].given[t] \in Gives
    BY <1>t, <1>8 DEF ActionCall
  <2>3. tx[r].given[s] \in Nat /\ tx[r].given[t] \in Nat
    BY <1>8, <2>2, ActionAssumption DEF Gives
  <2>4. seen[s] = tx[r].given[s] /\ seen[t] = tx[r].given[t]
    BY <1>t, <1>2, <1>8, <2>1, <2>3
  <2>5. s \in Action!Live(seen) /\ t \in Action!Live(seen)
    BY <1>3, <2>1, <2>3, <2>4, LiveOf
  <2> QED BY <1>4, <1>8, <2>4, <2>5
<1>9. /\ c.pc = "recalculated" /\ c.view = view /\ c.given = tx[r].given
      /\ c.known = tx[r].known /\ c.fresh = tx[r].fresh
  OBVIOUS
<1> HIDE DEF c
<1> QED BY <1>t, <1>m, <1>4, <1>5, <1>6, <1>7, <1>8, <1>9, CallChanges

\* What a commit writes: rows in the order given, and numbered n - 1 .. 0 if the call
\* met no other.
LEMMA CommitWrites ==
    ASSUME ActionInv, NEW r \in Requests, Action!Commit(r)
    PROVE  /\ row' \in Priorities
           /\ ~met[r] => Action!Compact(row')
           /\ \A s, t \in DOMAIN tx[r].given :
                tx[r].given[s] > tx[r].given[t] /\ tx[r].given[t] # -2 => row'[s] > row'[t]
<1>t. /\ tx[r].pc = "recalculated" /\ tx[r] \in ActionCall
      /\ row \in Priorities /\ tx[r].view \in Priorities
      /\ DOMAIN tx[r].given \subseteq tx[r].known
      /\ GivenOrder(r) /\ AllNumbered(r)
  BY DEF ActionInv, ActionTyped, Exclusive, Action!Writing, Action!Commit
<1>1. row' = [s \in Strategies |->
                IF s \in Action!Locked(r) \cup (Action!Live(tx[r].view) \ Action!Locked(r))
                THEN tx[r].view[s] ELSE row[s]]
  BY DEF Action!Commit
<1>2. row' \in Priorities
  BY <1>t, <1>1 DEF Priorities
<1>3. /\ Action!Live(tx[r].view) = {s \in Strategies : tx[r].view[s] # -1}
      /\ Action!Live(row) = {s \in Strategies : row[s] # -1}
  BY <1>t, LiveOf
<1>4. ASSUME ~met[r] PROVE Action!Compact(row')
  <2>1. /\ Action!Compact(tx[r].view)
        /\ Action!Live(row) \ Action!Locked(r) \subseteq Action!Live(tx[r].view)
    BY <1>t, <1>4 DEF AllNumbered
  <2>2. ASSUME NEW s \in Strategies PROVE row'[s] = tx[r].view[s]
    <3>1. CASE s \in Action!Locked(r) \/ tx[r].view[s] # -1
      BY <1>1, <1>3, <3>1
    <3>2. CASE s \notin Action!Locked(r) /\ tx[r].view[s] = -1
      BY <1>1, <1>3, <2>1, <3>2
    <3> QED BY <3>1, <3>2
  <2>3. row' = tx[r].view
    BY <1>t, <1>2, <2>2 DEF Priorities
  <2> QED BY <2>1, <2>3
<1>5. ASSUME NEW s \in DOMAIN tx[r].given, NEW t \in DOMAIN tx[r].given,
             tx[r].given[s] > tx[r].given[t], tx[r].given[t] # -2
      PROVE  row'[s] > row'[t]
  <2>1. s \in Strategies /\ t \in Strategies
    BY <1>t, <1>5 DEF ActionCall
  <2>2. s \in Action!Locked(r) /\ t \in Action!Locked(r)
    BY <1>t, <1>5 DEF Action!Locked, Action!Writing
  <2>3. tx[r].view[s] > tx[r].view[t]
    BY <1>t, <1>5 DEF GivenOrder
  <2> QED BY <1>1, <2>1, <2>2, <2>3
<1> QED BY <1>2, <1>4, <1>5

\* The commit ends the call, and those that write beside it are marked.
LEMMA CommitStep ==
    ASSUME ActionInv, NEW r \in Requests, Action!Commit(r)
    PROVE  ActionInv'
<1>t. /\ tx \in [Requests -> ActionCall] /\ met \in [Requests -> BOOLEAN]
      /\ Exclusive /\ Action!Writing(r)
  BY DEF ActionInv, ActionTyped, Action!Writing, Action!Commit
<1>1. row' \in Priorities
  BY CommitWrites
<1>2. tx' = [tx EXCEPT ![r] = Action!Idle] /\ met' = [met EXCEPT ![r] = FALSE]
  BY DEF Action!Commit
<1>3. tx'[r] = Action!Idle /\ tx' \in [Requests -> ActionCall] /\ met' \in [Requests -> BOOLEAN]
  BY <1>t, <1>2, IdleIsCall
<1>4. \A q \in Requests : q # r => tx'[q] = tx[q] /\ met'[q] = met[q]
  BY <1>t, <1>2
<1>5. ~ Action!Writing(r)'
  BY <1>3, IdleIsCall DEF Action!Writing
<1>6. \A q \in Requests : Action!Writing(q)' => q # r /\ Action!Writing(q) /\ met'[q]
  BY <1>t, <1>4, <1>5 DEF Exclusive, Action!Writing
<1>7. ActionTyped'
  BY <1>1, <1>3, <1>4, IdleIsCall DEF ActionInv, ActionTyped
<1>8. Exclusive'
  BY <1>t, <1>4, <1>6 DEF Exclusive
<1>9. ASSUME NEW q \in Requests
      PROVE  (GivenIsSeen(q) /\ GivenOrder(q) /\ AllNumbered(q))'
  <2>1. CASE q = r
    <3>1. tx'[q].pc = "idle"
      BY <1>3, <2>1, IdleIsCall
    <3> QED BY <3>1 DEF GivenIsSeen, GivenOrder, AllNumbered
  <2>2. CASE q # r
    <3>1. tx'[q] = tx[q] /\ GivenIsSeen(q) /\ GivenOrder(q) /\ AllNumbered(q)
      BY <1>4, <2>2 DEF ActionInv
    <3>2. tx[q].pc = "recalculated" => met'[q]
      BY <1>6, <3>1 DEF Action!Writing
    <3> QED BY <3>1, <3>2 DEF GivenIsSeen, GivenOrder, AllNumbered
  <2> QED BY <2>1, <2>2
<1> QED BY <1>7, <1>8, <1>9 DEF ActionInv

\* Rows of equal priority are numbered from 0, too.
LEMMA NumbersOfEqual ==
    ASSUME NEW S \in SUBSET Strategies, NEW f \in Action!Descending([s \in S |-> 0])
    PROVE  f \in [S -> Nat] /\ Action!Numbered(f) \in Priorities
<1> DEFINE zero == [s \in S |-> 0]
           n == Cardinality(S)
<1>1. Action!Live(zero) = S
  BY DEF Action!Live, Action!NoRow
<1>2. f \in [S -> 0..n - 1]
  BY <1>1, ActionCounting DEF Action!Descending
<1>3. n \in Nat
  BY ActionAssumption, FS_Subset, FS_CardinalityType
<1> HIDE DEF n
<1>4. f \in [S -> Nat]
  BY <1>2, <1>3
<1> QED BY <1>4 DEF Action!Numbered, Action!NoRow, Priorities

\* A new action, while no call runs.
LEMMA CreateActionStep ==
    ASSUME ActionInv, NEW S \in SUBSET Strategies, Action!CreateAction(S)
    PROVE  ActionInv'
<1>1. PICK f \in Action!Descending([s \in S |-> 0]) : row' = Action!Numbered(f)
  BY DEF Action!CreateAction
<1>2. row' \in Priorities
  BY <1>1, NumbersOfEqual
<1>3. UNCHANGED <<tx, met>> /\ \A r \in Requests : ~ Action!Writing(r)
  BY DEF Action!CreateAction, Action!Writing
<1> QED BY <1>2, <1>3, RowsChange

\* A reordering gives new numbers to strategies that there are.
LEMMA ReorderStep ==
    ASSUME ActionInv, NEW given \in SUBSET Strategies, Action!ReorderActionStrategies(given)
    PROVE  ActionInv'
<1>1. /\ given # {} /\ given \subseteq Action!Live(row) /\ UNCHANGED <<tx, met>>
      /\ \E f \in Action!Descending([s \in given |-> 0]) :
           row' = [s \in Strategies |-> IF s \in given THEN f[s] ELSE row[s]]
  BY DEF Action!ReorderActionStrategies
<1>2. PICK f \in Action!Descending([s \in given |-> 0]) :
           row' = [s \in Strategies |-> IF s \in given THEN f[s] ELSE row[s]]
  BY <1>1
<1>3. row \in Priorities
  <2>1. row # Action!NoAction
    BY <1>1 DEF Action!NoAction, Action!Live
  <2> QED BY <2>1 DEF ActionInv, ActionTyped
<1>4. f \in [given -> Nat]
  BY NumbersOfEqual
<1>5. row' \in Priorities
  BY <1>2, <1>3, <1>4 DEF Priorities
<1>6. Action!Live(row') = Action!Live(row)
  <2>1. /\ Action!Live(row) = {s \in Strategies : row[s] # -1}
        /\ Action!Live(row') = {s \in Strategies : row'[s] # -1}
    BY <1>3, <1>5, LiveOf
  <2>2. ASSUME NEW s \in Strategies PROVE row'[s] # -1 <=> row[s] # -1
    BY <1>1, <1>2, <1>4, <2>1
  <2> QED BY <2>1, <2>2
<1> QED BY <1>1, <1>5, <1>6, RowsChange

\* With the action all its strategies go.
LEMMA DeleteActionStep ==
    ASSUME ActionInv, Action!DeleteAction
    PROVE  ActionInv'
<1>1. row' = Action!NoAction /\ UNCHANGED <<tx, met>>
  BY DEF Action!DeleteAction
<1>2. Action!Live(row') = {}
  BY <1>1 DEF Action!NoAction, Action!Live
<1> QED BY <1>1, <1>2, RowsChange

\* Every step keeps the invariant.
LEMMA ActionStep ==
    ASSUME ActionInv, [Action!Next]_actionVars
    PROVE  ActionInv'
<1>1. ASSUME NEW r \in Requests, Action!Step(r) PROVE ActionInv'
  <2>1. CASE Action!UpdateAction(r)
    BY <2>1, UpdateActionStep
  <2>2. CASE Action!WriteStrategies(r)
    BY <2>2, WriteStrategiesStep
  <2>3. CASE Action!Recalculate(r)
    BY <2>3, RecalculateStep
  <2>4. CASE Action!Commit(r)
    BY <2>4, CommitStep
  <2>5. CASE Action!UpdateFails(r)
    BY <2>5, IdleAgain DEF Action!UpdateFails
  <2> QED BY <1>1, <2>1, <2>2, <2>3, <2>4, <2>5 DEF Action!Step
<1>2. CASE UNCHANGED actionVars
  <2>1. UNCHANGED <<tx, met>> /\ row' = row /\ row \in Priorities \cup {Action!NoAction}
    BY <1>2 DEF actionVars, ActionInv, ActionTyped
  <2> QED BY <2>1, RowsChange
<1> QED BY <1>1, <1>2, CreateActionStep, ReorderStep, DeleteActionStep DEF Action!Next

\* No action, no calls.
LEMMA ActionStart == Action!Init => ActionInv
<1> SUFFICES ASSUME Action!Init PROVE ActionInv
  OBVIOUS
<1>1. /\ row = Action!NoAction /\ tx = [r \in Requests |-> Action!Idle]
      /\ met = [r \in Requests |-> FALSE]
  BY DEF Action!Init
<1>2. \A r \in Requests : /\ tx[r].pc = "idle" /\ tx[r] \in ActionCall
                          /\ DOMAIN tx[r].given \subseteq tx[r].known
                          /\ tx[r].known \cap tx[r].fresh = {}
  BY <1>1, IdleIsCall
<1>3. ActionTyped
  BY <1>1, <1>2, IdleIsCall DEF ActionTyped
<1> QED BY <1>2, <1>3
  DEF ActionInv, Exclusive, Action!Writing, GivenIsSeen, GivenOrder, AllNumbered

\* In every state of the action.
LEMMA ActionAlways == Action!Spec => []ActionInv
<1>1. ActionInv /\ [Action!Next]_Action!vars => ActionInv'
  BY ActionStep DEF Action!vars, actionVars
<1> QED BY <1>1, ActionStart, PTL DEF Action!Spec

\* An update of an action numbers all its strategies n - 1 .. 0, each number once,
\* whatever updates and reorderings came since it read them, unless its transaction
\* overlapped another of which one did not lock the action's row
\* (action.service.ts:257-355).
THEOREM LeavesCompact == Action!Spec => UpdateLeavesCompact
<1>1. ActionInv /\ [Action!Next]_Action!vars
      => [\A r \in Requests : Action!Commit(r) /\ ~met[r] => Action!Compact(row')]_Action!vars
  BY CommitWrites
<1> QED BY <1>1, ActionAlways, PTL DEF Action!Spec, UpdateLeavesCompact, Action!UpdateLeavesCompact

\* An update keeps the order that its request gives the strategies, whatever other
\* updates add and reorderings change before it commits, with the action's row locked
\* or not (action.service.ts:282-355).
THEOREM KeepsGivenOrder == Action!Spec => UpdateKeepsGivenOrder
<1>1. ActionInv /\ [Action!Next]_Action!vars
      => [\A r \in Requests : Action!Commit(r) =>
            \A s, t \in DOMAIN tx[r].given :
                tx[r].given[s] > tx[r].given[t] /\ tx[r].given[t] # Action!Keep
                    => row'[s] > row'[t]]_Action!vars
  BY CommitWrites DEF Action!Keep
<1> QED BY <1>1, ActionAlways, PTL DEF Action!Spec, UpdateKeepsGivenOrder,
   Action!UpdateKeepsGivenOrder

-----------------------------------------------------------------------------
(* The keys and the action side by side.                                   *)

\* Rows and calls keep their shape, for any number of agent users, keys,
\* environments, strategies and calls.
THEOREM TypesCorrect == MCSpec => []TypesOK
<1> DEFINE Inv == Known /\ Referenced /\ ActionInv
<1>1. MCInit => Inv
  BY KnownInit, ActionStart DEF MCInit, Init, Referenced
<1>2. ASSUME Inv, [MCNext]_<<vars, actionVars>> PROVE Inv'
  <2>1. [Next]_vars /\ [Action!Next]_actionVars
    BY <1>2 DEF MCNext
  <2> QED BY <1>2, <2>1, EveryStep, ReferencedStep, ActionStep
<1>3. Inv => TypesOK
  <2>1. Known /\ Referenced => TypeOK
    BY DEF Known, Typed, Referenced, TypeOK, Call
  <2>2. ActionInv => Action!TypeOK
    <3> SUFFICES ASSUME ActionInv PROVE Action!TypeOK
      OBVIOUS
    <3>0. met \in [Requests -> BOOLEAN]
      BY DEF ActionInv, ActionTyped
    <3>1. row \in [Strategies -> {Action!NoRow} \cup Nat] \cup {Action!NoAction}
      BY DEF ActionInv, ActionTyped, Priorities, Action!NoRow
    <3>2. ASSUME NEW r \in Requests
          PROVE  /\ tx[r].pc \in {"idle", "begin", "ops", "recalculated"}
                 /\ DOMAIN tx[r].given \subseteq tx[r].known
                 /\ tx[r].known \cup tx[r].fresh \subseteq Strategies
      BY DEF ActionInv, ActionTyped, ActionCall
    <3> QED BY <3>0, <3>1, <3>2 DEF Action!TypeOK
  <2> QED BY <2>1, <2>2 DEF TypesOK
<1> QED BY <1>1, <1>2, <1>3, PTL DEF MCSpec
=============================================================================
