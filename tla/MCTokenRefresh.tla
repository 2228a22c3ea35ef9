--------------------------- MODULE MCTokenRefresh ---------------------------
(* Two requests of one tab and one of another.                             *)
EXTENDS TokenRefresh

CONSTANTS a, b, r1, r2, r3

MCTabs == {a, b}
MCRequests == {r1, r2, r3}
MCTabOf == [r \in MCRequests |-> IF r = r3 THEN b ELSE a]
=============================================================================
