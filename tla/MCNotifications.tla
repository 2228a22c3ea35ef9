--------------------------- MODULE MCNotifications ---------------------------
(***************************************************************************)
(* Values of the constants of Notifications for TLC, and the count of      *)
(* unread notifications beside the deliveries. The two share the           *)
(* notification rows but read disjoint columns of them (the deliveries'     *)
(* status, the notification's own), so a behaviour moves one of the two    *)
(* while the other rests.                                                  *)
(***************************************************************************)
EXTENDS Notifications, FiniteSets

\* The default is the in-app channel alone; a channel that is not supported
\* comes first, so that the loop has something to go on to.
TwoChannels == <<"EMAIL", "IN_APP">>

CONSTANTS Mine, Streams, Calls

ASSUME UnreadAssumption == IsFiniteSet(Mine)

VARIABLES status, subject, stream, shown, push, latest

Unread == INSTANCE UnreadStream WITH Notifs <- Mine, call <- push

unreadVars == <<status, subject, stream, shown, push, latest>>

MCInit == Init /\ Unread!Init

MCNext ==
    \/ Next /\ Unread!Init /\ UNCHANGED unreadVars
    \/ Unread!Next /\ Init /\ UNCHANGED vars

MCSpec == MCInit /\ [][MCNext]_<<vars, unreadVars>> /\ Fairness

UnreadTypeOK == Unread!TypeOK
StaleOnlyByOvertaking == Unread!StaleOnlyByOvertaking
=============================================================================
