---------------------------- MODULE MCConfigSync ----------------------------
(* Values of the constants of ConfigSync for TLC. *)
EXTENDS ConfigSync, TLC

CONSTANTS e1, e2, c1, c2, w1, w2

TwoEnvs == {e1, e2}
OneEnv  == {e1}

\* One SDK client and one caller of the evaluation endpoints, of environment e1.
BothCaches == [c \in Clients |-> IF c = c1 THEN "sdk" ELSE "access"]
SdkOnly    == [c \in Clients |-> "sdk"]
AccessOnly == [c \in Clients |-> "access"]
AskE1      == [c \in Clients |-> e1]

\* One handler of each shape: what the shape touches differs by handler, what
\* it does to versions and caches does not.
CommitFirst ==
    {"configureFlagForEnvironment", "updateSegment", "createAction", "createFeatureFlag"}
EveryShape ==
    {"configureFlagForEnvironment", "updateSegment", "createFeatureFlag",
     "createStrategy", "updateStrategy", "reorderStrategies", "removeEnvironment"}
EveryHandler == CommitFirstHandlers \cup
    {"createStrategy", "addVariantToStrategy", "updateStrategy",
     "createMultipleFeatureFlags", "reorderStrategies", "writeStrategyRule",
     "writeSegmentRule", "reorderActionStrategies", "removeEnvironment"}

Writer2 == Permutations({w1, w2})
=============================================================================
