SPECIFICATION FairSpec
CONSTANTS
    e1 = e1
    e2 = e2
    c1 = c1
    c2 = c2
    w1 = w1
    w2 = w2
    NoConfig = NoConfig
    Envs <- TwoEnvs
    Tables = {"flags"}
    Caches = {"access"}
    Clients = {c1}
    CacheOf <- AccessOnly
    EnvOf <- AskE1
    Writers = {w1}
    Handlers <- EveryHandler
    Redis = "flaky"
    MayFail = TRUE
    MaxWrites = 2
PROPERTIES AccessConverges
