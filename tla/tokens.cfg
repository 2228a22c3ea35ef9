SPECIFICATION FairSpec
CONSTANTS
    a = a
    b = b
    r1 = r1
    r2 = r2
    r3 = r3
    Tabs <- MCTabs
    Requests <- MCRequests
    TabOf <- MCTabOf
    MaxTokens = 2
    MaxInbox = 2
INVARIANTS TypeOK WaitsForOwnRefresh
PROPERTY RequestsSettle
