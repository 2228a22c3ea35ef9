------------------------- MODULE TokenRefreshProofs -------------------------
(***************************************************************************)
(* For any number of tabs and requests: the model is type correct, and no  *)
(* request is left in the queue of a refresh that ended. The property is   *)
(* inductive once the types are: every step either leaves a tab's waiting  *)
(* requests alone, adds one behind the first, or settles all of them.      *)
(***************************************************************************)
EXTENDS TokenRefresh, TLAPS, SequenceTheorems

USE TokenAssumption

Call == [pc : {"settled", "sent", "first", "queued"}, token : 0..issued, retry : BOOLEAN]

\* A queue of messages is one after another token was issued.
LEMMA MoreTokens ==
    ASSUME NEW n \in Nat, NEW s \in Seq(0..n)
    PROVE  s \in Seq(0..n + 1)
<1>1. \A i \in 1..Len(s) : s[i] \in 0..n + 1
  BY ElementOfSeq
<1>2. s = [i \in 1..Len(s) |-> s[i]] /\ Len(s) \in Nat
  BY LenProperties
<1> QED BY <1>1, <1>2, IsASeq

\* The next token is one more, or the last that is told apart.
LEMMA Issue ==
    ASSUME TypeOK
    PROVE  /\ issued \in Nat /\ NextToken \in 1..MaxTokens
           /\ NextToken = issued \/ NextToken = issued + 1
BY DEF TypeOK, NextToken

\* What Post leaves in the inboxes.
LEMMA PostTypes ==
    ASSUME NEW n \in Nat, inbox \in [Tabs -> Seq(0..n)], NEW t \in Tabs, NEW m \in 0..n, Post(t, m)
    PROVE  inbox' \in [Tabs -> Seq(0..n)]
<1>1. \A u \in Tabs : Append(inbox[u], m) \in Seq(0..n)
  BY AppendProperties
<1> QED BY <1>1 DEF Post

LEMMA TypeInit == Init => TypeOK
BY DEF Init, TypeOK, Settled, NoToken

-----------------------------------------------------------------------------
\* Each step keeps the types.
LEMMA TypeStep ==
    ASSUME TypeOK, [Next]_vars
    PROVE  TypeOK'
<1>1. issued \in Nat /\ 0 \in 0..issued
  BY DEF TypeOK
<1>2. CASE UNCHANGED vars
  BY <1>2 DEF vars, TypeOK
<1>3. ASSUME NEW r \in Requests, Send(r) PROVE TypeOK'
  BY <1>3 DEF Send, TypeOK
<1>4. ASSUME NEW r \in Requests, Settle(r) PROVE TypeOK'
  BY <1>1, <1>4 DEF Settle, TypeOK, Settled, NoToken
<1>5. ASSUME NEW r \in Requests, Unauthorized(r) PROVE TypeOK'
  <2>1. request' \in [Requests -> Call]
        /\ \A q \in Requests : request'[q].pc \in {"first", "queued"} => request'[q].retry
    <3>1. CASE request[r].retry
      <4>1. request' = [request EXCEPT ![r] = Settled]
        BY <1>5, <3>1 DEF Unauthorized
      <4>2. Settled \in Call /\ Settled.pc = "settled"
        BY <1>1 DEF Settled, NoToken, Call
      <4>3. request \in [Requests -> Call]
        BY DEF TypeOK, Call
      <4>4. \A q \in Requests : request'[q] = IF q = r THEN Settled ELSE request[q]
        BY <4>1, <4>3
      <4>5. request' \in [Requests -> Call]
        BY <4>1, <4>2, <4>3
      <4> QED BY <4>2, <4>4, <4>5 DEF TypeOK
    <3>2. CASE ~request[r].retry
      <4>1. PICK c \in {"first", "queued"} : request' =
              [request EXCEPT ![r] = [pc |-> c, token |-> request[r].token, retry |-> TRUE]]
        BY <1>5, <3>2 DEF Unauthorized
      <4>2. request \in [Requests -> Call]
        BY DEF TypeOK, Call
      <4>3. [pc |-> c, token |-> request[r].token, retry |-> TRUE] \in Call
        BY <4>2 DEF Call
      <4> QED BY <4>1, <4>2, <4>3 DEF TypeOK
    <3> QED BY <3>1, <3>2
  <2>3. refreshing' \in [Tabs -> BOOLEAN] /\ UNCHANGED <<stored, issued, leaving, inbox>>
    BY <1>5 DEF Unauthorized, TypeOK
  <2> QED BY <2>1, <2>3 DEF TypeOK, Call
<1>6. ASSUME NEW t \in Tabs, RefreshSucceeds(t) PROVE TypeOK'
  <2>1. /\ issued' \in 0..MaxTokens /\ stored' = issued'
        /\ issued' = issued \/ issued' = issued + 1
    BY <1>6, Issue DEF RefreshSucceeds
  <2>2. inbox \in [Tabs -> Seq(0..issued')]
    BY <1>1, <2>1, MoreTokens DEF TypeOK
  <2>3. inbox' \in [Tabs -> Seq(0..issued')]
    <3>1. PICK n \in Nat : n = issued'
      BY <1>1, <2>1
    <3> QED BY <1>6, <2>2, <3>1, PostTypes DEF RefreshSucceeds
  <2>4. request' \in [Requests -> Call']
    BY <1>1, <1>6, <2>1 DEF RefreshSucceeds, ProcessQueue, TypeOK, Call
  <2>5. \A q \in Requests : request'[q].pc \in {"first", "queued"} => request'[q].retry
    BY <1>6 DEF RefreshSucceeds, ProcessQueue, TypeOK
  <2>6. refreshing' \in [Tabs -> BOOLEAN] /\ leaving' \in [Tabs -> BOOLEAN]
    BY <1>6 DEF RefreshSucceeds, TypeOK
  <2> QED BY <1>1, <2>1, <2>3, <2>4, <2>5, <2>6 DEF TypeOK, Call
<1>7. ASSUME NEW t \in Tabs, RefreshFails(t) PROVE TypeOK'
  <2>1. inbox' \in [Tabs -> Seq(0..issued)]
    BY <1>1, <1>7, PostTypes DEF RefreshFails, TypeOK, Logout
  <2>2. request' \in [Requests -> Call]
    BY <1>1, <1>7 DEF RefreshFails, ProcessQueue, TypeOK, Settled, NoToken, Call
  <2>3. \A q \in Requests : request'[q].pc \in {"first", "queued"} => request'[q].retry
    BY <1>7 DEF RefreshFails, ProcessQueue, TypeOK, Settled
  <2>4. stored' \in 0..issued /\ issued' = issued
    BY <1>1, <1>7 DEF RefreshFails, NoToken
  <2>5. refreshing' \in [Tabs -> BOOLEAN] /\ leaving' \in [Tabs -> BOOLEAN]
    BY <1>7 DEF RefreshFails, TypeOK
  <2> QED BY <2>1, <2>2, <2>3, <2>4, <2>5 DEF TypeOK, Call
<1>8. ASSUME NEW t \in Tabs, HandleMessage(t) PROVE TypeOK'
  <2>1. inbox[t] \in Seq(0..issued) /\ inbox[t] # <<>>
    BY <1>8 DEF HandleMessage, TypeOK
  <2>2. Head(inbox[t]) \in 0..issued /\ Tail(inbox[t]) \in Seq(0..issued)
    BY <2>1, HeadTailProperties
  <2>3. stored' \in 0..issued /\ inbox' \in [Tabs -> Seq(0..issued)]
    BY <1>8, <2>2 DEF HandleMessage, TypeOK
  <2>4. leaving' \in [Tabs -> BOOLEAN]
    BY <1>8 DEF HandleMessage, TypeOK
  <2>5. UNCHANGED <<issued, refreshing, request>>
    BY <1>8 DEF HandleMessage
  <2> QED BY <2>3, <2>4, <2>5 DEF TypeOK
<1>9. ASSUME NEW t \in Tabs, Navigate(t) PROVE TypeOK'
  <2>1. request' \in [Requests -> Call]
    BY <1>1, <1>9 DEF Navigate, TypeOK, Settled, NoToken, Call
  <2>2. \A q \in Requests : request'[q].pc \in {"first", "queued"} => request'[q].retry
    BY <1>9 DEF Navigate, TypeOK, Settled
  <2>3. inbox' \in [Tabs -> Seq(0..issued)]
    BY <1>9 DEF Navigate, TypeOK
  <2>4. refreshing' \in [Tabs -> BOOLEAN] /\ leaving' \in [Tabs -> BOOLEAN]
    BY <1>9 DEF Navigate, TypeOK
  <2> QED BY <1>9, <2>1, <2>2, <2>3, <2>4 DEF Navigate, TypeOK, Call
<1>10. CASE LogIn
  <2>1. /\ issued' \in 0..MaxTokens /\ stored' = issued'
        /\ issued' = issued \/ issued' = issued + 1
    BY <1>10, Issue DEF LogIn
  <2>2. inbox' \in [Tabs -> Seq(0..issued')]
    BY <1>1, <1>10, <2>1, MoreTokens DEF LogIn, TypeOK
  <2>3. request' \in [Requests -> Call']
    BY <1>1, <1>10, <2>1 DEF LogIn, TypeOK, Call
  <2> QED BY <1>1, <1>10, <2>1, <2>2, <2>3 DEF LogIn, TypeOK, Call
<1>11. CASE LogOut
  BY <1>1, <1>11 DEF LogOut, TypeOK, NoToken
<1> QED
  BY <1>2, <1>3, <1>4, <1>5, <1>6, <1>7, <1>8, <1>9, <1>10, <1>11 DEF Next

-----------------------------------------------------------------------------
\* WaitsForOwnRefresh of one tab.
HeadWaits(t) ==
    IF refreshing[t]
    THEN \E r \in Waiting(t) : \A q \in Waiting(t) : (request[q].pc = "first") <=> q = r
    ELSE Waiting(t) = {}

\* A tab whose waiting requests and refresh a step leaves as they are.
LEMMA TabUnmoved ==
    ASSUME NEW t \in Tabs, HeadWaits(t), refreshing'[t] = refreshing[t],
           \A q \in Requests : TabOf[q] = t =>
             \/ request'[q] = request[q]
             \/ /\ request[q].pc \notin {"first", "queued"}
                /\ request'[q].pc \notin {"first", "queued"}
    PROVE  HeadWaits(t)'
<1>1. Waiting(t)' = Waiting(t)
  BY DEF Waiting
<1>2. \A q \in Waiting(t) : request'[q].pc = request[q].pc
  BY DEF Waiting
<1> QED BY <1>1, <1>2 DEF HeadWaits

\* A tab whose refresh ends, every waiting request with it.
LEMMA TabReleased ==
    ASSUME NEW t \in Tabs, ~refreshing'[t],
           \A q \in Requests : TabOf[q] = t => request'[q].pc \notin {"first", "queued"}
    PROVE  HeadWaits(t)'
BY DEF HeadWaits, Waiting

\* Every step keeps WaitsForOwnRefresh.
LEMMA WaitsStep ==
    ASSUME TypeOK, WaitsForOwnRefresh, [Next]_vars
    PROVE  WaitsForOwnRefresh'
<1> SUFFICES ASSUME NEW u \in Tabs PROVE HeadWaits(u)'
  BY DEF WaitsForOwnRefresh, HeadWaits
<1>0. HeadWaits(u)
  BY DEF WaitsForOwnRefresh, HeadWaits
<1>1. request \in [Requests -> Call] /\ refreshing \in [Tabs -> BOOLEAN]
  BY DEF TypeOK, Call
<1>2. CASE UNCHANGED <<request, refreshing>>
  BY <1>0, <1>2, TabUnmoved
<1>3. ASSUME NEW r \in Requests, Send(r) PROVE HeadWaits(u)'
  <2>1. \A q \in Requests : q # r => request'[q] = request[q]
    BY <1>1, <1>3 DEF Send
  <2>2. request[r].pc = "settled" /\ request'[r].pc = "sent" /\ refreshing' = refreshing
    BY <1>1, <1>3 DEF Send
  <2> QED BY <1>0, <2>1, <2>2, TabUnmoved
<1>4. ASSUME NEW r \in Requests, Settle(r) PROVE HeadWaits(u)'
  <2>1. \A q \in Requests : q # r => request'[q] = request[q]
    BY <1>1, <1>4 DEF Settle
  <2>2. request[r].pc = "sent" /\ request'[r].pc = "settled" /\ refreshing' = refreshing
    BY <1>1, <1>4 DEF Settle, Settled
  <2> QED BY <1>0, <2>1, <2>2, TabUnmoved
<1>5. ASSUME NEW r \in Requests, Unauthorized(r) PROVE HeadWaits(u)'
  <2>1. request[r].pc = "sent" /\ \A q \in Requests : q # r => request'[q] = request[q]
    BY <1>1, <1>5 DEF Unauthorized
  <2>2. CASE request[r].retry
    <3>1. request'[r].pc = "settled" /\ refreshing' = refreshing
      BY <1>1, <1>5, <2>2 DEF Unauthorized, Settled
    <3> QED BY <1>0, <2>1, <3>1, TabUnmoved
  <2>3. CASE ~request[r].retry /\ TabOf[r] # u
    <3>1. refreshing'[u] = refreshing[u]
      BY <1>1, <1>5, <2>3 DEF Unauthorized
    <3> QED BY <1>0, <2>1, <2>3, <3>1, TabUnmoved
  <2>4. CASE ~request[r].retry /\ TabOf[r] = u
    <3>1. refreshing'[u]
      BY <1>1, <1>5, <2>4 DEF Unauthorized
    <3>2. request'[r].pc = IF refreshing[u] THEN "queued" ELSE "first"
      BY <1>1, <1>5, <2>4 DEF Unauthorized
    <3>3. Waiting(u)' = Waiting(u) \cup {r} /\ r \notin Waiting(u)
      BY <2>1, <2>4, <3>2 DEF Waiting
    <3>4. CASE refreshing[u]
      <4>1. PICK h \in Waiting(u) : \A q \in Waiting(u) : (request[q].pc = "first") <=> q = h
        BY <1>0, <3>4 DEF HeadWaits
      <4>2. \A q \in Waiting(u)' : (request'[q].pc = "first") <=> q = h
        BY <2>1, <3>2, <3>3, <3>4, <4>1 DEF Waiting
      <4> QED BY <3>1, <3>3, <4>1, <4>2 DEF HeadWaits
    <3>5. CASE ~refreshing[u]
      <4>1. Waiting(u)' = {r} /\ request'[r].pc = "first"
        BY <1>0, <3>2, <3>3, <3>5 DEF HeadWaits
      <4> QED BY <3>1, <4>1 DEF HeadWaits
    <3> QED BY <3>4, <3>5
  <2> QED BY <2>2, <2>3, <2>4
<1>6. ASSUME NEW t \in Tabs, NEW outcome, outcome.pc \notin {"first", "queued"},
             ProcessQueue(t, outcome), refreshing' = [refreshing EXCEPT ![t] = FALSE]
      PROVE  HeadWaits(u)'
  <2>1. \A q \in Requests : request'[q] = IF q \in Waiting(t) THEN outcome ELSE request[q]
    BY <1>6 DEF ProcessQueue
  <2>2. CASE u = t
    <3>1. \A q \in Requests : TabOf[q] = t => request'[q].pc \notin {"first", "queued"}
      BY <1>6, <2>1 DEF Waiting
    <3>2. ~refreshing'[t]
      BY <1>1, <1>6
    <3> QED BY <2>2, <3>1, <3>2, TabReleased
  <2>3. CASE u # t
    <3>1. \A q \in Requests : TabOf[q] = u => request'[q] = request[q]
      BY <2>1, <2>3 DEF Waiting
    <3>2. refreshing'[u] = refreshing[u]
      BY <1>1, <1>6, <2>3
    <3> QED BY <1>0, <3>1, <3>2, TabUnmoved
  <2> QED BY <2>2, <2>3
<1>7. ASSUME NEW t \in Tabs, RefreshSucceeds(t) PROVE HeadWaits(u)'
  <2>1. [pc |-> "sent", token |-> issued', retry |-> TRUE].pc \notin {"first", "queued"}
    OBVIOUS
  <2> QED BY <1>6, <1>7, <2>1 DEF RefreshSucceeds
<1>8. ASSUME NEW t \in Tabs, RefreshFails(t) PROVE HeadWaits(u)'
  <2>1. Settled.pc \notin {"first", "queued"}
    BY DEF Settled
  <2> QED BY <1>6, <1>8, <2>1 DEF RefreshFails
<1>9. ASSUME NEW t \in Tabs, Navigate(t) PROVE HeadWaits(u)'
  <2>1. \A q \in Requests : request'[q] = IF TabOf[q] = t THEN Settled ELSE request[q]
    BY <1>9 DEF Navigate
  <2>2. refreshing' = [refreshing EXCEPT ![t] = FALSE]
    BY <1>9 DEF Navigate
  <2>3. CASE u = t
    <3>1. ~refreshing'[t] /\ Settled.pc \notin {"first", "queued"}
      BY <1>1, <2>2 DEF Settled
    <3> QED BY <2>1, <2>3, <3>1, TabReleased
  <2>4. CASE u # t
    <3>1. refreshing'[u] = refreshing[u]
      BY <1>1, <2>2, <2>4
    <3> QED BY <1>0, <2>1, <2>4, <3>1, TabUnmoved
  <2> QED BY <2>3, <2>4
<1>10. ASSUME \/ \E t \in Tabs : HandleMessage(t)
              \/ LogIn
              \/ LogOut
              \/ UNCHANGED vars
       PROVE  UNCHANGED <<request, refreshing>>
  BY <1>10 DEF HandleMessage, LogIn, LogOut, vars
<1> QED
  BY <1>2, <1>3, <1>4, <1>5, <1>7, <1>8, <1>9, <1>10 DEF Next

-----------------------------------------------------------------------------
\* TypeOK: the token stored by the tabs, carried by a request or on its way in the
\* channel was issued, and only a retried request waits for a refresh.
THEOREM TypeCorrect == Spec => []TypeOK
<1>1. TypeOK /\ [Next]_vars => TypeOK'
  BY TypeStep
<1> QED BY <1>1, TypeInit, PTL DEF Spec

\* WaitsForOwnRefresh: no request is left in failedQueue by a refresh that ended, and
\* one request heads those that wait for a refresh in flight (apiClient's interceptor).
THEOREM NoneLeftBehind == Spec => []WaitsForOwnRefresh
<1>1. Init => WaitsForOwnRefresh
  <2> SUFFICES ASSUME Init, NEW t \in Tabs PROVE HeadWaits(t)
    BY DEF WaitsForOwnRefresh, HeadWaits
  <2>1. ~refreshing[t] /\ \A r \in Requests : request[r].pc = "settled"
    BY DEF Init, Settled
  <2> QED BY <2>1 DEF HeadWaits, Waiting
<1>2. TypeOK /\ WaitsForOwnRefresh /\ [Next]_vars => WaitsForOwnRefresh'
  BY WaitsStep
<1> QED BY <1>1, <1>2, TypeCorrect, PTL DEF Spec
=============================================================================
