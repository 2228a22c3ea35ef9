SPECIFICATION Spec
CONSTANTS
    e1 = e1
    e2 = e2
    c1 = c1
    c2 = c2
    w1 = w1
    w2 = w2
    NoConfig = NoConfig
    Envs <- OneEnv
    Tables = {"flags"}
    Caches = {"sdk"}
    Clients = {c1}
    CacheOf <- SdkOnly
    EnvOf <- AskE1
    Writers = {w1}
    Handlers = {"createStrategy"}
    Redis = "up"
    MayFail = FALSE
    MaxWrites = 1
INVARIANTS NoChangesMeansCurrent
