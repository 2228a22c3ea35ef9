---------------------------- MODULE TokenRefresh ----------------------------
(***************************************************************************)
(* The access token in the tabs of one browser (apiClient): a request that *)
(* is answered 401 starts a refresh or waits for the one in flight in its  *)
(* tab, and is sent a second time with the new token; the tabs share the   *)
(* stored token and tell each other of new tokens and of logouts.          *)
(*                                                                         *)
(* What the server does with a refresh is in Sessions: here it answers or  *)
(* fails as it likes.  Code up to the next await is one step of a tab.     *)
(***************************************************************************)
EXTENDS Naturals, Sequences

CONSTANTS
    Tabs,
    Requests,
    TabOf,       \* TabOf[r]: the tab that sends r
    MaxTokens,   \* bound: access tokens told apart; those after it look like the last
    MaxInbox     \* bound: messages that a tab has not yet handled

NoToken == 0
Logout  == 0     \* as a message; any other message is the token it brings

ASSUME TokenAssumption ==
    /\ MaxTokens \in Nat \ {0}
    /\ MaxInbox \in Nat
    /\ TabOf \in [Requests -> Tabs]

VARIABLES
    stored,      \* localStorage[AUTH_TOKEN_KEY]
    issued,      \* the token issued last; a token is its number
    refreshing,  \* refreshing[t]: refreshPromise is not null
    leaving,     \* leaving[t]: location.href was set, the page is still there
    inbox,       \* inbox[t]: messages of the channel not yet handled in t
    request      \* request[r]: what became of r

vars == <<stored, issued, refreshing, leaving, inbox, request>>

Settled == [pc |-> "settled", token |-> NoToken, retry |-> FALSE]

Init ==
    /\ stored = NoToken
    /\ issued = 0
    /\ refreshing = [t \in Tabs |-> FALSE]
    /\ leaving = [t \in Tabs |-> FALSE]
    /\ inbox = [t \in Tabs |-> <<>>]
    /\ request = [r \in Requests |-> Settled]

TypeOK ==
    /\ issued \in 0..MaxTokens
    /\ stored \in 0..issued
    /\ refreshing \in [Tabs -> BOOLEAN]
    /\ leaving \in [Tabs -> BOOLEAN]
    /\ inbox \in [Tabs -> Seq(0..issued)]
    /\ request \in [Requests -> [pc : {"settled", "sent", "first", "queued"},
                                 token : 0..issued, retry : BOOLEAN]]
    /\ \A r \in Requests : request[r].pc \in {"first", "queued"} => request[r].retry

-----------------------------------------------------------------------------
(* A request.                                                              *)

\* The request interceptor adds the stored token.
Send(r) ==
    /\ request[r].pc = "settled"
    /\ request' = [request EXCEPT ![r] = [pc |-> "sent", token |-> stored, retry |-> FALSE]]
    /\ UNCHANGED <<stored, issued, refreshing, leaving, inbox>>

\* A response, an error of another status, or none within the timeout.
Settle(r) ==
    /\ request[r].pc = "sent"
    /\ request' = [request EXCEPT ![r] = Settled]
    /\ UNCHANGED <<stored, issued, refreshing, leaving, inbox>>

\* Slip: the request is not marked as retried.
UnauthorizedAgain(r) ==
    /\ request[r].pc = "sent"
    /\ request' = [request EXCEPT ![r].pc = IF refreshing[TabOf[r]] THEN "queued" ELSE "first"]
    /\ refreshing' = [refreshing EXCEPT ![TabOf[r]] = TRUE]
    /\ UNCHANGED <<stored, issued, leaving, inbox>>

\* 401: the token is missing or expired, or a login is refused.
Unauthorized(r) ==
    /\ request[r].pc = "sent"
    /\ IF request[r].retry
       THEN /\ request' = [request EXCEPT ![r] = Settled]
            /\ UNCHANGED refreshing
       ELSE /\ request' = [request EXCEPT ![r] =
                  [pc |-> IF refreshing[TabOf[r]] THEN "queued" ELSE "first",
                   token |-> @.token, retry |-> TRUE]]
            /\ refreshing' = [refreshing EXCEPT ![TabOf[r]] = TRUE]
    /\ UNCHANGED <<stored, issued, leaving, inbox>>

-----------------------------------------------------------------------------
(* The refresh of a tab.                                                   *)

\* BroadcastChannel: to every other tab.
Post(t, message) ==
    /\ \A u \in Tabs \ {t} : Len(inbox[u]) < MaxInbox
    /\ inbox' = [u \in Tabs |-> IF u = t THEN inbox[u] ELSE Append(inbox[u], message)]

Waiting(t) == {r \in Requests : TabOf[r] = t /\ request[r].pc \in {"first", "queued"}}

\* Slip: the queue is not processed.
OnlyFirst(t, outcome) ==
    request' = [r \in Requests |->
                  IF r \in Waiting(t) /\ request[r].pc = "first" THEN outcome ELSE request[r]]

\* processQueue for those that wait and the return to the first one.
ProcessQueue(t, outcome) ==
    request' = [r \in Requests |-> IF r \in Waiting(t) THEN outcome ELSE request[r]]

\* There is always another token: refreshes may succeed for ever.
NextToken == IF issued < MaxTokens THEN issued + 1 ELSE issued

RefreshSucceeds(t) ==
    /\ refreshing[t]
    /\ issued' = NextToken
    /\ stored' = issued'
    /\ Post(t, issued')
    /\ ProcessQueue(t, [pc |-> "sent", token |-> issued', retry |-> TRUE])
    /\ refreshing' = [refreshing EXCEPT ![t] = FALSE]
    /\ UNCHANGED leaving

\* Any error of the call, a lost connection too.
RefreshFails(t) ==
    /\ refreshing[t]
    /\ ProcessQueue(t, Settled)
    /\ stored' = NoToken
    /\ Post(t, Logout)
    /\ leaving' = [leaving EXCEPT ![t] = TRUE]
    /\ refreshing' = [refreshing EXCEPT ![t] = FALSE]
    /\ UNCHANGED issued

-----------------------------------------------------------------------------
(* The other events of the tabs.                                           *)

\* onmessage.
HandleMessage(t) ==
    /\ inbox[t] # <<>>
    /\ stored' = Head(inbox[t])
    /\ leaving' = [leaving EXCEPT ![t] = @ \/ Head(inbox[t]) = Logout]
    /\ inbox' = [inbox EXCEPT ![t] = Tail(@)]
    /\ UNCHANGED <<issued, refreshing, request>>

\* The browser opens "/": what the page held is gone.
Navigate(t) ==
    /\ leaving[t]
    /\ leaving' = [leaving EXCEPT ![t] = FALSE]
    /\ refreshing' = [refreshing EXCEPT ![t] = FALSE]
    /\ inbox' = [inbox EXCEPT ![t] = <<>>]
    /\ request' = [r \in Requests |-> IF TabOf[r] = t THEN Settled ELSE request[r]]
    /\ UNCHANGED <<stored, issued>>

\* useLoginFormApi and useLogoutApi, on success; neither tells the other tabs.
LogIn ==
    /\ issued' = NextToken
    /\ stored' = issued'
    /\ UNCHANGED <<refreshing, leaving, inbox, request>>

LogOut ==
    /\ stored # NoToken
    /\ stored' = NoToken
    /\ UNCHANGED <<issued, refreshing, leaving, inbox, request>>

-----------------------------------------------------------------------------
Next ==
    \/ \E r \in Requests : Send(r) \/ Settle(r) \/ Unauthorized(r)
    \/ \E t \in Tabs : RefreshSucceeds(t) \/ RefreshFails(t) \/ HandleMessage(t) \/ Navigate(t)
    \/ LogIn
    \/ LogOut

Spec == Init /\ [][Next]_vars

\* A request that was sent is answered or times out (timeout: 30000).  The refresh
\* is sent without a timeout: nothing is assumed of it.
FairSpec == Spec /\ \A r \in Requests : WF_vars(Settle(r) \/ Unauthorized(r))

-----------------------------------------------------------------------------
(* Properties.                                                             *)

\* A request waits only while a refresh is in flight in its own tab, and exactly
\* one request waits at the head of it: none is left behind in failedQueue by a
\* refresh that ended, whatever the other tabs do meanwhile.
WaitsForOwnRefresh ==
    \A t \in Tabs :
        IF refreshing[t]
        THEN \E r \in Waiting(t) : \A q \in Waiting(t) : (request[q].pc = "first") <=> q = r
        ELSE Waiting(t) = {}

\* Every request is settled, if no tab waits for its refresh for ever: a request
\* that is refused again and again, after refreshes that all succeed, does not start
\* one refresh after the other (apiClient.ts:79-83, _retry).
RequestsSettle ==
    (\A t \in Tabs : []<>~refreshing[t])
        => \A r \in Requests : (request[r].pc # "settled") ~> (request[r].pc = "settled")
=============================================================================
