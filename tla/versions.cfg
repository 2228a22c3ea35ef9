SPECIFICATION Spec
CONSTANTS
    e1 = e1
    e2 = e2
    c1 = c1
    c2 = c2
    w1 = w1
    w2 = w2
    NoConfig = NoConfig
    Envs <- TwoEnvs
    Tables = {"flags"}
    Caches = {"sdk"}
    Clients = {c1}
    CacheOf <- SdkOnly
    EnvOf <- AskE1
    Writers = {w1, w2}
    Handlers <- EveryShape
    Redis = "flaky"
    MayFail = FALSE
    MaxWrites = 2
INVARIANTS TypeOK VersionCoversCommits
SYMMETRY Writer2
CHECK_DEADLOCK FALSE
