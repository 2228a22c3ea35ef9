---------------------------- MODULE UnreadStream ----------------------------
(***************************************************************************)
(* The count of unread notifications one user sees: NotificationService    *)
(* changes the rows and then, without waiting, pushes the count to every   *)
(* open stream; NotificationSseService reads the count first and emits it  *)
(* when the query has returned, so pushes overtake each other; a new       *)
(* stream reads the count for itself and listens only after that.          *)
(*                                                                         *)
(* The streams are those of one process of the server: the map of streams  *)
(* is in its memory. What other processes change, they push to their own.  *)
(***************************************************************************)
EXTENDS Integers, FiniteSets

CONSTANTS
    Notifs,      \* the user's notifications
    Streams,     \* event streams: the user's open tabs
    Calls        \* concurrent calls of NotificationService for the user

VARIABLES
    status,      \* status[n]: the row's status, "none" before it is created
    subject,     \* does the map of streams hold a subject for the user?
    stream,      \* stream[s]: where the stream is, what its first query read
    shown,       \* shown[s]: the count emitted last
    call,        \* call[c]: the change is committed, its job or its push under way
    latest       \* history: did every open stream hear a push that counted after every change?

vars == <<status, subject, stream, shown, call, latest>>

None == -1   \* no count yet

Count(rows) == Cardinality({n \in Notifs : rows[n] = "UNREAD"})

Closed == [pc |-> "closed", count |-> None]
Idle   == [pc |-> "idle", count |-> None, newest |-> FALSE]

Counts == 0..Cardinality(Notifs) \cup {None}

TypeOK ==
    /\ status \in [Notifs -> {"none", "UNREAD", "READ", "ARCHIVED"}]
    /\ subject \in BOOLEAN
    /\ stream \in [Streams -> [pc : {"closed", "first", "emit", "open"}, count : Counts]]
    /\ shown \in [Streams -> Counts]
    /\ call \in [Calls -> [pc : {"idle", "queue", "push", "emit"}, count : Counts, newest : BOOLEAN]]
    /\ latest \in BOOLEAN
    /\ \A s \in Streams : stream[s].pc = "open" => shown[s] # None

Init ==
    /\ status = [n \in Notifs |-> "none"]
    /\ subject = FALSE
    /\ stream = [s \in Streams |-> Closed]
    /\ shown = [s \in Streams |-> None]
    /\ call = [c \in Calls |-> Idle]
    /\ latest = TRUE

-----------------------------------------------------------------------------
(* The calls. Each commits its change and goes on to the push, at once or  *)
(* when the jobs have been added.                                          *)

Change(c, next, rows) ==
    /\ call[c].pc = "idle"
    /\ status' = rows
    /\ call' = [call EXCEPT ![c].pc = next]
    /\ UNCHANGED <<subject, stream, shown, latest>>

NotificationCreated(c) == \E n \in Notifs :
    /\ status[n] = "none"
    /\ Change(c, "queue", [status EXCEPT ![n] = "UNREAD"])

JobAdded(c) ==
    /\ call[c].pc = "queue"
    /\ call' = [call EXCEPT ![c].pc = "push"]
    /\ UNCHANGED <<status, subject, stream, shown, latest>>

\* No other count that is under way is the newest any more.
NoneNewest == [c \in Calls |-> [call[c] EXCEPT !.newest = FALSE]]

\* A job cannot be added, this user's or another recipient's: the call throws, the
\* row stays, nothing is pushed.
QueueFails(c) ==
    /\ call[c].pc = "queue"
    /\ call' = [NoneNewest EXCEPT ![c] = Idle]
    /\ latest' = FALSE
    /\ UNCHANGED <<status, subject, stream, shown>>

\* The status the row had is not looked at: an archived one becomes read again.
MarkAsRead(c) == \E n \in Notifs :
    /\ status[n] # "none"
    /\ Change(c, "push", [status EXCEPT ![n] = "READ"])

\* Slip: the push is left out where many rows change.
MarkAllSilently(c) ==
    /\ call[c].pc = "idle"
    /\ status' = [n \in Notifs |-> IF status[n] = "UNREAD" THEN "READ" ELSE status[n]]
    /\ UNCHANGED <<subject, stream, shown, call, latest>>

MarkAllAsRead(c) ==
    Change(c, "push", [n \in Notifs |-> IF status[n] = "UNREAD" THEN "READ" ELSE status[n]])

ArchiveNotification(c) == \E n \in Notifs :
    /\ status[n] # "none"
    /\ Change(c, "push", [status EXCEPT ![n] = "ARCHIVED"])

\* A call in another process of the server: nothing is pushed here.
ChangeElsewhere ==
    /\ \E n \in Notifs, to \in {"UNREAD", "READ", "ARCHIVED"} :
         /\ status[n] = "none" <=> to = "UNREAD"
         /\ status' = [status EXCEPT ![n] = to]
    /\ call' = NoneNewest
    /\ latest' = FALSE
    /\ UNCHANGED <<subject, stream, shown>>

\* pushUnreadCount: nothing to do if the user never opened a stream.
PushToNobody(c) ==
    /\ call[c].pc = "push"
    /\ ~subject
    /\ call' = [call EXCEPT ![c] = Idle]
    /\ UNCHANGED <<status, subject, stream, shown, latest>>

Counted(n) == [pc |-> "emit", count |-> n, newest |-> TRUE]

\* Slip: the query is not awaited.
FetchNotAwaited(c) ==
    /\ call[c].pc = "push"
    /\ subject
    /\ call' = [NoneNewest EXCEPT ![c] = Counted(None)]
    /\ UNCHANGED <<status, subject, stream, shown, latest>>

FetchUnreadCount(c) ==
    /\ call[c].pc = "push"
    /\ subject
    /\ call' = [NoneNewest EXCEPT ![c] = Counted(Count(status))]
    /\ UNCHANGED <<status, subject, stream, shown, latest>>

\* The query fails: the error is logged, nothing is emitted.
FetchFails(c) ==
    /\ call[c].pc = "push"
    /\ subject
    /\ call' = [NoneNewest EXCEPT ![c] = Idle]
    /\ latest' = FALSE
    /\ UNCHANGED <<status, subject, stream, shown>>

\* subject.next: only streams that are done with their own first count hear it.
Hears(s) == stream[s].pc = "open"

Emit(c) ==
    /\ call[c].pc = "emit"
    /\ shown' = [s \in Streams |-> IF Hears(s) THEN call[c].count ELSE shown[s]]
    /\ call' = [call EXCEPT ![c] = Idle]
    /\ latest' = (call[c].newest /\ \A s \in Streams : stream[s].pc # "emit")
    /\ UNCHANGED <<status, subject, stream>>

-----------------------------------------------------------------------------
(* The streams.                                                            *)

GetStream(s) ==
    /\ stream[s].pc = "closed"
    /\ subject' = TRUE
    /\ stream' = [stream EXCEPT ![s].pc = "first"]
    /\ UNCHANGED <<status, shown, call, latest>>

FirstCount(s) ==
    /\ stream[s].pc = "first"
    /\ stream' = [stream EXCEPT ![s] = [pc |-> "emit", count |-> Count(status)]]
    /\ UNCHANGED <<status, subject, shown, call, latest>>

\* The first count is emitted, the stream listens from now on.
Listen(s) ==
    /\ stream[s].pc = "emit"
    /\ shown' = [shown EXCEPT ![s] = stream[s].count]
    /\ stream' = [stream EXCEPT ![s] = [Closed EXCEPT !.pc = "open"]]
    /\ UNCHANGED <<status, subject, call, latest>>

\* The tab is closed, the connection lost, or the first query failed. The
\* subject stays in the map.
Close(s) ==
    /\ stream[s].pc # "closed"
    /\ stream' = [stream EXCEPT ![s] = Closed]
    /\ shown' = [shown EXCEPT ![s] = None]
    /\ UNCHANGED <<status, subject, call, latest>>

-----------------------------------------------------------------------------
StepCall(c) ==
    \/ JobAdded(c)
    \/ QueueFails(c)
    \/ PushToNobody(c)
    \/ FetchUnreadCount(c)
    \/ FetchFails(c)
    \/ Emit(c)

Next ==
    \/ \E c \in Calls :
         \/ NotificationCreated(c)
         \/ MarkAsRead(c)
         \/ MarkAllAsRead(c)
         \/ ArchiveNotification(c)
         \/ StepCall(c)
    \/ ChangeElsewhere
    \/ \E s \in Streams : GetStream(s) \/ FirstCount(s) \/ Listen(s) \/ Close(s)

Spec == Init /\ [][Next]_vars

-----------------------------------------------------------------------------
(* Properties.                                                             *)

\* With no call under way, a stream shows a number that is not the number of
\* unread rows only if a push overtook another or was never made, because its query
\* failed, a job could not be added or the change was made in another process, or if
\* it came while the stream was still reading its first count. Each change counts
\* after its commit, so the push that counted last has seen every change
\* (notification.service.ts:59-82, notification-sse.service.ts pushUnreadCount, getStream).
StaleOnlyByOvertaking ==
    latest /\ (\A c \in Calls : call[c].pc = "idle") =>
        \A s \in Streams : stream[s].pc = "open" =>
            shown[s] = Count(status)
=============================================================================
