-------------------------- MODULE MCConnectionPool --------------------------
(* Values of the constants of ConnectionPool for TLC. *)
EXTENDS ConnectionPool
=============================================================================
