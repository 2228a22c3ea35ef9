------------------------------ MODULE MCFlags ------------------------------
(***************************************************************************)
(* The rows that hang on a project's flags, for TLC: those that join flags *)
(* and environments, those that join one strategy and the variants of its  *)
(* flag, and the strategies of one flag in their order. No two of them     *)
(* share a row that their handlers read, so a behaviour moves one of them  *)
(* while the others rest.                                                  *)
(***************************************************************************)
EXTENDS FlagEnvironments, Integers, TLC

CONSTANTS
    Variants, Txs, Total, GivenWeights, MaxBatch,            \* of VariantWeights
    Places, Calls, GivenPriorities, MaxStrategies, Deleted,  \* of StrategyOrder
    None

VARIABLES sv, tx, strat, call

Weights == INSTANCE VariantWeights WITH Given <- GivenWeights

\* Places are the environments in which a flag has strategies.
Order == INSTANCE StrategyOrder WITH
    Envs <- Places, Requests <- Calls, Given <- GivenPriorities, req <- call

ASSUME WeightsAssumption == Weights!WeightsAssumption
ASSUME OrderAssumption == Order!OrderAssumption

weightVars == <<sv, tx>>
orderVars  == <<strat, call>>

MCInit == Init /\ Weights!Init /\ Order!Init

MCNext ==
    \/ Weights!Init /\ Next /\ UNCHANGED <<weightVars, orderVars>>
    \/ Init /\ Weights!Next /\ UNCHANGED <<vars, orderVars>>

MCSpec == MCInit /\ [][MCNext]_<<vars, weightVars, orderVars>>

OrderNext == Order!Next /\ UNCHANGED <<vars, weightVars>>

OrderSpec == MCInit /\ [][OrderNext]_<<vars, weightVars, orderVars>>

\* Only ids: flags and variants share theirs, and so do the two kinds of call.
Symmetry == Permutations(Variants) \cup Permutations(Requests)

OrderSymmetry == Permutations(Places)

TypesOK == TypeOK /\ Weights!TypeOK

RepairsWhenAlone == Weights!RepairsWhenAlone
FitsWhenAlone == Weights!FitsWhenAlone

OrderTypeOK == Order!TypeOK

CreateKeepsOrder == Order!CreateKeepsOrder
CreatedInPlace == Order!CreatedInPlace
=============================================================================
