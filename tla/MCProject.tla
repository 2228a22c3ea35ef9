----------------------------- MODULE MCProject -----------------------------
(***************************************************************************)
(* Two kinds of rows of a project for TLC: its API keys, and the           *)
(* strategies of one of its actions. They share no row, so a behaviour     *)
(* moves one of them while the other rests.                                *)
(***************************************************************************)
EXTENDS ApiKeys, Naturals, TLC

CONSTANTS Strategies, MaxGiven

VARIABLES row, tx, met

Action == INSTANCE ActionOrder

\* An action has finitely many strategies.
ASSUME ActionAssumption == IsFiniteSet(Strategies) /\ MaxGiven \in Nat

actionVars == <<row, tx, met>>

MCInit == Init /\ Action!Init

MCNext ==
    \/ Action!Init /\ Next /\ UNCHANGED actionVars
    \/ Init /\ Action!Next /\ UNCHANGED vars

MCSpec == MCInit /\ [][MCNext]_<<vars, actionVars>>

Symmetry == Permutations(Strategies) \cup Permutations(Requests)

TypesOK == TypeOK /\ Action!TypeOK

UpdateLeavesCompact == Action!UpdateLeavesCompact
UpdateKeepsGivenOrder == Action!UpdateKeepsGivenOrder
=============================================================================
